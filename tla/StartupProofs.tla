---------------------------- MODULE StartupProofs ---------------------------
(***************************************************************************)
(* Proofs about the devices that kmain starts, for all sizes of registers, *)
(* FIFO and words, every baud rate divisor of one byte, every clock and    *)
(* frequency of the timer, and all texts.                                  *)
(*                                                                         *)
(* RateAsAsked and PeriodAsAsked speak of the devices only.  The invariant *)
(* behind them relates the devices' registers to where kmain is: which     *)
(* calls and which port writes of the current call it has left (Phase),    *)
(* and what it has configured by then.                                     *)
(***************************************************************************)
EXTENDS Startup, SequenceTheorems, TLAPS

(* The bytes that kmain sends. *)
LEMMA Divisors ==
  /\ RegisterSize \in Nat /\ RegisterSize > 3
  /\ BaudDivisor \in 0..(RegisterSize - 1)
  /\ (BaudDivisor \div RegisterSize) % RegisterSize = 0
  /\ BaudDivisor % RegisterSize = BaudDivisor
<1>1. /\ RegisterSize \in Nat /\ RegisterSize > 3
      /\ BaudDivisor \in 1..(RegisterSize - 1)
  BY SerialAssumption, StartupAssumption
<1>2. BaudDivisor \div RegisterSize = 0 /\ BaudDivisor % RegisterSize = BaudDivisor
  BY <1>1
<1>3. 0 % RegisterSize = 0
  BY <1>1
<1> QED BY <1>1, <1>2, <1>3

-----------------------------------------------------------------------------
(* Where kmain is.                                                         *)

LastCall == <<"timer">>

Modem == <<"modem", "timer">>

Buffers == <<"buffers", "modem", "timer">>

Line == <<"line", "buffers", "modem", "timer">>

Baud == <<"baud rate", "line", "buffers", "modem", "timer">>

All == <<"baud rate", "baud rate", "line", "buffers", "modem", "timer">>

BaudWrites ==
  <<Out("line command", SERIAL_LINE_ENABLE_DLAB), Out("data", 0), Out("data", BaudDivisor)>>

DivisorBytes == <<Out("data", 0), Out("data", BaudDivisor)>>

LowByte == <<Out("data", BaudDivisor)>>

PitByte(v) == [port |-> "pit data", value |-> v]

PitLow == PitDivisor(frequency) % ByteSize

PitHigh == (PitDivisor(frequency) \div ByteSize) % ByteSize

PitCommand == [port |-> "pit command", value |-> 54]

(* What is left of the writes of init_timer. *)
PitAll == <<PitCommand, PitByte(PitLow), PitByte(PitHigh)>>

PitBoth == <<PitByte(PitLow), PitByte(PitHigh)>>

PitLast == <<PitByte(PitHigh)>>

Eight == uart.lcr = EightBits

Rate == uart.dll = BaudDivisor

(* What kmain has left to do, and what the UART is set to by then. *)
Phase ==
  \/ calls = All /\ outs = <<>>
  \/ /\ calls \in {Baud, Line}
     /\ \/ outs = BaudWrites
        \/ outs \in {DivisorBytes, LowByte}
             /\ uart.lcr = SERIAL_LINE_ENABLE_DLAB
        \/ outs = <<>> /\ Rate
  \/ calls = Buffers /\ outs = serial_configure_line /\ Rate
  \/ calls = Buffers /\ outs = <<>> /\ Rate /\ Eight
  \/ calls = Modem /\ outs \in {serial_configure_buffers, <<>>} /\ Rate /\ Eight
  \/ calls = LastCall /\ outs \in {serial_configure_modem, <<>>} /\ Rate /\ Eight
  \/ /\ calls = <<>>
     /\ Rate /\ Eight
     /\ outs \in {PitAll, PitBoth, PitLast, <<>>}

(* The port is open, and the UART may hold something, once the last write  *)
(* of the configuration is done.                                           *)
Opened == calls = <<>> \/ (calls = LastCall /\ outs = <<>>)

Chars == 0..255

UartType ==
  [lcr : Nat, dlm : {0}, dll : 0..(RegisterSize - 1), fcr : BOOLEAN, fifo : Seq(Chars)]

UartInv ==
  /\ uart \in UartType
  /\ Len(uart.fifo) <= Capacity(uart)
  /\ serial_open \in BOOLEAN /\ (serial_open <=> Opened)
  /\ ~serial_open => uart.fifo = <<>>

PitInv ==
  /\ pit \in [next : {"low", "high"}, low : 0..(ByteSize - 1), reload : 0..(MaxPeriod - 1)]
  /\ frequency \in Frequencies
  /\ tick \in 0..(WordSize - 1)
  /\ registered = (calls = <<>>)
  /\ calls # <<>> \/ outs # <<>> => pit.reload = 0
  /\ calls = <<>> =>
       /\ outs = PitBoth => pit.next = "low"
       /\ outs = PitLast => pit.next = "high" /\ pit.low = PitLow
       /\ outs = <<>> => pit.reload = PitHigh * ByteSize + PitLow

(* The calls of serial_write that are left of a call of log.c. *)
WriteCall == [c : Seq(Chars), length : 0..WordSize]

LogInv ==
  /\ wire \in Seq(Chars)
  /\ writes \in Seq(WriteCall)
  /\ Len(writes) <= 3
  /\ i \in 0..(WordSize - 1)
  /\ ready \in BOOLEAN
  /\ writes # <<>> => outs = <<>>
  /\ writes = <<>> => i = 0
  /\ ready => uart.fifo = <<>>

Inv == Phase /\ UartInv /\ PitInv /\ LogInv

(* The writes of each call. *)
LEMMA CallWrites ==
  /\ OutsOf("baud rate") = BaudWrites
  /\ OutsOf("line") = serial_configure_line
  /\ OutsOf("buffers") = serial_configure_buffers
  /\ OutsOf("modem") = serial_configure_modem
  /\ OutsOf("timer") = PitAll
<1>1. OutsOf("baud rate") = serial_configure_baud_rate(BaudDivisor)
  BY DEF OutsOf
<1>2. serial_configure_baud_rate(BaudDivisor) = BaudWrites
  BY Divisors DEF serial_configure_baud_rate, BaudWrites
<1>3. OutsOf("timer") = init_timer(frequency)
  BY DEF OutsOf
<1>4. init_timer(frequency) = PitAll
  BY DEF init_timer, PitAll, PitCommand, PitByte, PitLow, PitHigh
<1> QED BY <1>1, <1>2, <1>3, <1>4 DEF OutsOf

(* How the writes of a call follow each other. *)
LEMMA WriteOrder ==
  /\ BaudWrites # <<>> /\ Head(BaudWrites) = Out("line command", SERIAL_LINE_ENABLE_DLAB)
  /\ Tail(BaudWrites) = DivisorBytes
  /\ DivisorBytes # <<>> /\ Head(DivisorBytes) = Out("data", 0)
  /\ Tail(DivisorBytes) = LowByte
  /\ LowByte # <<>> /\ Head(LowByte) = Out("data", BaudDivisor) /\ Tail(LowByte) = <<>>
  /\ serial_configure_line # <<>>
  /\ Head(serial_configure_line) = Out("line command", EightBits)
  /\ Tail(serial_configure_line) = <<>>
  /\ serial_configure_buffers # <<>>
  /\ Head(serial_configure_buffers) = Out("fifo command", 199)
  /\ Tail(serial_configure_buffers) = <<>>
  /\ serial_configure_modem # <<>>
  /\ Head(serial_configure_modem) = Out("modem command", 3)
  /\ Tail(serial_configure_modem) = <<>>
<1>1. /\ BaudWrites # <<>> /\ Head(BaudWrites) = Out("line command", SERIAL_LINE_ENABLE_DLAB)
      /\ Tail(BaudWrites) = DivisorBytes
  BY DEF BaudWrites, DivisorBytes
<1>2. /\ DivisorBytes # <<>> /\ Head(DivisorBytes) = Out("data", 0)
      /\ Tail(DivisorBytes) = LowByte
  BY DEF DivisorBytes, LowByte
<1>3. LowByte # <<>> /\ Head(LowByte) = Out("data", BaudDivisor) /\ Tail(LowByte) = <<>>
  BY DEF LowByte
<1>4. /\ serial_configure_line # <<>>
      /\ Head(serial_configure_line) = Out("line command", EightBits)
      /\ Tail(serial_configure_line) = <<>>
  BY DEF serial_configure_line
<1>5. /\ serial_configure_buffers # <<>>
      /\ Head(serial_configure_buffers) = Out("fifo command", 199)
      /\ Tail(serial_configure_buffers) = <<>>
  BY DEF serial_configure_buffers
<1>6. /\ serial_configure_modem # <<>>
      /\ Head(serial_configure_modem) = Out("modem command", 3)
      /\ Tail(serial_configure_modem) = <<>>
  BY DEF serial_configure_modem
<1> QED BY <1>1, <1>2, <1>3, <1>4, <1>5, <1>6

(* And those of init_timer. *)
LEMMA PitOrder ==
  /\ PitAll # <<>> /\ Head(PitAll) = PitCommand /\ Tail(PitAll) = PitBoth
  /\ PitBoth # <<>> /\ Head(PitBoth) = PitByte(PitLow) /\ Tail(PitBoth) = PitLast
  /\ PitLast # <<>> /\ Head(PitLast) = PitByte(PitHigh) /\ Tail(PitLast) = <<>>
  /\ PitAll # PitBoth /\ PitAll # PitLast /\ PitBoth # PitLast
<1>1. PitAll # <<>> /\ Head(PitAll) = PitCommand /\ Tail(PitAll) = PitBoth
  BY DEF PitAll, PitBoth
<1>2. PitBoth # <<>> /\ Head(PitBoth) = PitByte(PitLow) /\ Tail(PitBoth) = PitLast
  BY DEF PitBoth, PitLast
<1>3. PitLast # <<>> /\ Head(PitLast) = PitByte(PitHigh) /\ Tail(PitLast) = <<>>
  BY DEF PitLast
<1>4. PitAll # PitBoth /\ PitAll # PitLast /\ PitBoth # PitLast
  <2>1. Len(PitAll) = 3
    BY DEF PitAll
  <2>2. Len(PitBoth) = 2
    BY DEF PitBoth
  <2>3. Len(PitLast) = 1
    BY DEF PitLast
  <2> QED BY <2>1, <2>2, <2>3
<1> QED BY <1>1, <1>2, <1>3, <1>4

(* The places of kmain differ. *)
LEMMA PlacesDiffer ==
  /\ All # Baud /\ All # Line /\ All # Buffers /\ All # Modem /\ All # LastCall /\ All # <<>>
  /\ Baud # Line /\ Baud # Buffers /\ Baud # Modem /\ Baud # LastCall /\ Baud # <<>>
  /\ Line # Buffers /\ Line # Modem /\ Line # LastCall /\ Line # <<>>
  /\ Buffers # Modem /\ Buffers # LastCall /\ Buffers # <<>>
  /\ Modem # LastCall /\ Modem # <<>>
  /\ LastCall # <<>>
<1>1. Len(All) = 6 /\ Len(Baud) = 5 /\ Len(Line) = 4
  BY DEF All, Baud, Line
<1>2. Len(Buffers) = 3 /\ Len(Modem) = 2 /\ Len(LastCall) = 1
  BY DEF Buffers, Modem, LastCall
<1>3. All # <<>> /\ Baud # <<>> /\ Line # <<>>
  BY DEF All, Baud, Line
<1>4. Buffers # <<>> /\ Modem # <<>> /\ LastCall # <<>>
  BY DEF Buffers, Modem, LastCall
<1>5. All # Baud /\ All # Line /\ All # Buffers /\ All # Modem /\ All # LastCall
  BY <1>1, <1>2
<1>6. Baud # Line /\ Baud # Buffers /\ Baud # Modem /\ Baud # LastCall
  BY <1>1, <1>2
<1>7. /\ Line # Buffers /\ Line # Modem /\ Line # LastCall
      /\ Buffers # Modem /\ Buffers # LastCall /\ Modem # LastCall
  BY <1>1, <1>2
<1> QED BY <1>3, <1>4, <1>5, <1>6, <1>7, Zenon

(* The order of kmain's calls. *)
LEMMA CallOrder ==
  /\ Head(All) = "baud rate" /\ Tail(All) = Baud
  /\ Head(Baud) = "baud rate" /\ Tail(Baud) = Line
  /\ Head(Line) = "line" /\ Tail(Line) = Buffers
  /\ Head(Buffers) = "buffers" /\ Tail(Buffers) = Modem
  /\ Head(Modem) = "modem" /\ Tail(Modem) = LastCall
  /\ Head(LastCall) = "timer" /\ Tail(LastCall) = <<>>
<1> DEFINE r == "baud rate"
           l == "line"
           b == "buffers"
           m == "modem"
           t == "timer"
<1>1. /\ All = <<r, r, l, b, m, t>>
      /\ Baud = <<r, l, b, m, t>>
      /\ Line = <<l, b, m, t>>
      /\ Buffers = <<b, m, t>>
      /\ Modem = <<m, t>>
      /\ LastCall = <<t>>
  BY DEF All, Baud, Line, Buffers, Modem, LastCall
<1> HIDE DEF r, l, b, m, t
<1>2. Head(All) = r /\ Tail(All) = Baud
  BY <1>1
<1>3. Head(Baud) = r /\ Tail(Baud) = Line
  BY <1>1
<1>4. Head(Line) = l /\ Tail(Line) = Buffers
  BY <1>1
<1>5. Head(Buffers) = b /\ Tail(Buffers) = Modem
  BY <1>1
<1>6. Head(Modem) = m /\ Tail(Modem) = LastCall
  BY <1>1
<1>7. Head(LastCall) = t /\ Tail(LastCall) = <<>>
  BY <1>1
<1> QED BY <1>2, <1>3, <1>4, <1>5, <1>6, <1>7 DEF r, l, b, m, t

(* kmain starts with all its calls to make. *)
LEMMA InitInv == Init => Inv
<1> SUFFICES ASSUME Init PROVE Inv
  OBVIOUS
<1>5. /\ uart \in [lcr : {EightBits}, dlm : {0}, dll : 0..(RegisterSize - 1),
                   fcr : {FALSE}, fifo : {<<>>}]
      /\ wire = <<>> /\ writes = <<>> /\ outs = <<>> /\ i = 0 /\ ready = FALSE
      /\ serial_open = FALSE
  BY Zenon DEF Init
<1>1. Phase
  BY DEF Init, Phase, All
<1>2. UartInv
  <2>1. /\ uart.lcr \in Nat /\ uart.dlm \in {0} /\ uart.dll \in 0..(RegisterSize - 1)
        /\ uart.fcr \in BOOLEAN /\ uart.fifo \in Seq(Chars) /\ uart.fifo = <<>>
    <3>1. uart.lcr = 3 /\ uart.dlm = 0 /\ uart.fcr = FALSE /\ uart.fifo = <<>>
      BY <1>5 DEF EightBits
    <3>2. uart.dll \in 0..(RegisterSize - 1)
      BY <1>5
    <3>3. <<>> \in Seq(Chars)
      OBVIOUS
    <3>4. 3 \in Nat
      OBVIOUS
    <3> QED BY <3>1, <3>2, <3>3, <3>4, Zenon
  <2>4. uart = [lcr |-> uart.lcr, dlm |-> uart.dlm, dll |-> uart.dll,
                fcr |-> uart.fcr, fifo |-> uart.fifo]
    BY <1>5
  <2>5. uart \in UartType
    BY <2>1, <2>4, Zenon DEF UartType
  <2>2. Len(uart.fifo) <= Capacity(uart)
    BY <2>1, SerialAssumption DEF Capacity
  <2>3. ~Opened
    BY PlacesDiffer DEF Init, Opened, All
  <2>6. serial_open \in BOOLEAN /\ (serial_open <=> Opened)
    BY <1>5, <2>3
  <2> QED BY <2>1, <2>2, <2>5, <2>6 DEF UartInv
<1>3. PitInv
  <2>1. 0 \in 0..(ByteSize - 1) /\ 0 \in 0..(MaxPeriod - 1) /\ 0 \in 0..(WordSize - 1)
    BY TimerAssumption, SerialAssumption DEF MaxPeriod
  <2>2. pit \in [next : {"low", "high"}, low : 0..(ByteSize - 1), reload : 0..(MaxPeriod - 1)]
        /\ pit.reload = 0
    BY <2>1 DEF Init
  <2>3. calls # <<>>
    BY DEF Init
  <2> QED BY <2>1, <2>2, <2>3 DEF Init, PitInv
<1>4. LogInv
  <2>1. wire \in Seq(Chars) /\ writes \in Seq(WriteCall) /\ Len(writes) <= 3
    BY <1>5
  <2>2. uart.fifo = <<>>
    BY <1>5
  <2>3. i \in 0..(WordSize - 1)
    BY <1>5, SerialAssumption
  <2> QED BY <1>5, <2>1, <2>2, <2>3 DEF LogInv
<1> QED BY <1>1, <1>2, <1>3, <1>4 DEF Inv

(* kmain goes on to its next call. *)
LEMMA KmainInv == Inv /\ kmain => Inv'
<1> SUFFICES ASSUME Inv, kmain PROVE Inv'
  OBVIOUS
<1>1. /\ outs = <<>> /\ writes = <<>> /\ calls # <<>>
      /\ outs' = OutsOf(Head(calls)) /\ calls' = Tail(calls)
      /\ registered' = (registered \/ Head(calls) = "timer")
      /\ uart' = uart /\ wire' = wire /\ serial_open' = serial_open
      /\ pit' = pit /\ frequency' = frequency /\ tick' = tick
      /\ writes' = writes /\ i' = i /\ ready' = ready
  BY DEF kmain, Idle, uartVars, logVars
<1>2. /\ PitLow' = PitLow /\ PitHigh' = PitHigh
      /\ Rate' = Rate /\ Eight' = Eight
  BY <1>1 DEF PitLow, PitHigh, Rate, Eight
<1>3. /\ OutsOf("baud rate") # <<>> /\ OutsOf("line") # <<>> /\ OutsOf("buffers") # <<>>
      /\ OutsOf("modem") # <<>> /\ OutsOf("timer") # <<>>
  BY CallWrites, WriteOrder, PitOrder
<1>4. calls \in {All, Baud, Line, Buffers, Modem, LastCall}
  BY <1>1 DEF Inv, Phase
<1>5. outs' # <<>>
  BY <1>1, <1>3, <1>4, CallOrder
<1>6. /\ calls \in {Line, Buffers, Modem, LastCall} => Rate
      /\ calls \in {Buffers, Modem, LastCall} => Eight
  BY <1>1, WriteOrder, PlacesDiffer DEF Inv, Phase
<1>7. Phase'
  <2>0. PitAll' = PitAll
    BY <1>2 DEF PitAll
  <2>1. CASE calls \in {All, Baud}
    BY <1>1, <2>1, CallWrites, CallOrder DEF Phase
  <2>2. CASE calls \in {Line, Buffers, Modem}
    BY <1>1, <1>2, <1>6, <2>2, CallWrites, CallOrder DEF Phase
  <2>3. CASE calls = LastCall
    BY <1>1, <1>2, <1>6, <2>0, <2>3, CallWrites, CallOrder DEF Phase
  <2> QED BY <1>4, <2>1, <2>2, <2>3
<1>8. (calls' = <<>>) <=> (Head(calls) = "timer")
  BY <1>1, <1>4, CallOrder, PlacesDiffer
<1>9. Opened' <=> Opened
  BY <1>1, <1>4, <1>5, CallOrder, PlacesDiffer DEF Opened
<1>10. UartInv'
  BY <1>1, <1>9 DEF Inv, UartInv, Capacity
<1>11. calls' = <<>> => outs' = PitAll /\ PitAll' = PitAll /\ PitBoth' = PitBoth
                        /\ PitLast' = PitLast
  BY <1>1, <1>2, <1>8, CallWrites DEF PitAll, PitBoth, PitLast
<1>12. PitInv'
  <2>1. registered' = (calls' = <<>>)
    BY <1>1, <1>8, Zenon DEF Inv, PitInv
  <2>2. /\ pit \in [next : {"low", "high"}, low : 0..(ByteSize - 1), reload : 0..(MaxPeriod - 1)]
        /\ frequency \in Frequencies /\ tick \in 0..(WordSize - 1) /\ pit.reload = 0
    BY <1>1 DEF Inv, PitInv
  <2> QED BY <1>1, <1>5, <1>11, <2>1, <2>2, PitOrder DEF PitInv
<1>13. LogInv'
  BY <1>1 DEF Inv, LogInv
<1> QED BY <1>7, <1>10, <1>12, <1>13 DEF Inv

(* What a write does to the UART: to the line control register, *)
LEMMA LineWrite ==
  ASSUME NEW u \in UartType, NEW v \in Nat
  PROVE  /\ WriteUart(u, "line command", v) \in UartType
         /\ WriteUart(u, "line command", v) = [u EXCEPT !.lcr = v]
BY DEF WriteUart, UartType

(* to the FIFO control register, which empties the FIFO, *)
LEMMA FifoWrite ==
  ASSUME NEW u \in UartType, NEW v
  PROVE  /\ WriteUart(u, "fifo command", v) \in UartType
         /\ WriteUart(u, "fifo command", v) = [u EXCEPT !.fcr = TRUE, !.fifo = <<>>]
<1>1. WriteUart(u, "fifo command", v) = [u EXCEPT !.fcr = TRUE, !.fifo = <<>>]
  BY DEF WriteUart
<1>2. <<>> \in Seq(Chars)
  OBVIOUS
<1> QED BY <1>1, <1>2 DEF UartType

(* to the modem control register, *)
LEMMA ModemWrite ==
  ASSUME NEW u \in UartType, NEW v
  PROVE  WriteUart(u, "modem command", v) = u
BY DEF WriteUart

(* to the divisor latch, *)
LEMMA LatchWrite ==
  ASSUME NEW u \in UartType, Dlab(u), NEW v \in 0..(RegisterSize - 1)
  PROVE  /\ WriteUart(u, "data", v) \in UartType
         /\ WriteUart(u, "data", v) = [u EXCEPT !.dll = v]
BY DEF WriteUart, UartType

(* and to an empty FIFO. *)
LEMMA DataWrite ==
  ASSUME NEW u \in UartType, ~Dlab(u), u.fifo = <<>>, NEW v \in Chars
  PROVE  /\ WriteUart(u, "data", v) \in UartType
         /\ WriteUart(u, "data", v) = [u EXCEPT !.fifo = <<v>>]
<1>1. Len(u.fifo) < Capacity(u)
  BY SerialAssumption DEF Capacity
<1>2. WriteUart(u, "data", v) = [u EXCEPT !.fifo = Append(u.fifo, v)]
  BY <1>1 DEF WriteUart
<1>3. Append(u.fifo, v) = <<v>> /\ <<v>> \in Seq(Chars)
  OBVIOUS
<1> QED BY <1>2, <1>3 DEF UartType

(* A write of the UART's configuration. *)
LEMMA ConfigureInv ==
  Inv /\ outb /\ calls # <<>> => Inv' /\ uart.fifo = <<>> /\ uart'.fifo = <<>>
<1> SUFFICES ASSUME Inv, outb, calls # <<>>
             PROVE  Inv' /\ uart.fifo = <<>> /\ uart'.fifo = <<>>
  OBVIOUS
<1> DEFINE o == Head(outs)
<1>1. /\ outs # <<>> /\ outs' = Tail(outs)
      /\ wire' = wire /\ frequency' = frequency /\ registered' = registered
      /\ tick' = tick /\ calls' = calls /\ writes' = writes /\ i' = i /\ ready' = ready
  BY DEF outb, logVars
<1>2. /\ writes = <<>>
      /\ uart \in UartType /\ uart.fifo = <<>> /\ serial_open = FALSE
  <2>1. ~Opened
    BY <1>1 DEF Opened
  <2> QED BY <1>1, <2>1 DEF Inv, UartInv, LogInv
<1>3. \A p, v : Out(p, v).port = p /\ Out(p, v).value = v
  BY DEF Out
<1>4. ASSUME NEW p \in {"line command", "data", "fifo command", "modem command"}, NEW v,
             o = Out(p, v)
      PROVE  /\ uart' = WriteUart(uart, p, v) /\ pit' = pit
             /\ serial_open' = (p = "modem command")
  <2>1. o.port = p /\ o.value = v /\ p \notin {"pit command", "pit data"}
    BY <1>3, <1>4
  <2> HIDE DEF o
  <2>2. /\ uart' = WriteUart(uart, o.port, o.value) /\ pit' = pit
        /\ serial_open' = (serial_open \/ Opens(o.port))
    BY <2>1 DEF outb, o
  <2> QED BY <1>2, <2>1, <2>2 DEF Opens
<1> HIDE DEF o
<1>5. /\ Phase'
      /\ uart' \in UartType /\ uart'.fifo = <<>> /\ pit' = pit
      /\ serial_open' \in BOOLEAN /\ (serial_open' <=> Opened')
  <2>1. CASE calls \in {Baud, Line} /\ outs = BaudWrites
    <3>1. o = Out("line command", SERIAL_LINE_ENABLE_DLAB) /\ outs' = DivisorBytes
      BY <1>1, <2>1, WriteOrder DEF o
    <3>6. /\ uart' = WriteUart(uart, "line command", SERIAL_LINE_ENABLE_DLAB)
          /\ pit' = pit /\ serial_open' = FALSE
      BY <1>4, <3>1
    <3>7. SERIAL_LINE_ENABLE_DLAB \in Nat
      BY DEF SERIAL_LINE_ENABLE_DLAB
    <3>2. /\ uart' = [uart EXCEPT !.lcr = SERIAL_LINE_ENABLE_DLAB] /\ uart' \in UartType
          /\ pit' = pit /\ serial_open' = FALSE
      BY <1>2, <3>6, <3>7, LineWrite
    <3>3. uart'.lcr = SERIAL_LINE_ENABLE_DLAB /\ uart'.fifo = <<>>
      BY <1>2, <3>2 DEF UartType
    <3>4. Phase'
      BY <1>1, <2>1, <3>1, <3>3 DEF Phase
    <3>5. ~Opened'
      BY <1>1, <2>1, PlacesDiffer DEF Opened
    <3> QED BY <3>2, <3>3, <3>4, <3>5
  <2>2. CASE /\ calls \in {Baud, Line} /\ outs \in {DivisorBytes, LowByte}
             /\ uart.lcr = SERIAL_LINE_ENABLE_DLAB
    <3>1. PICK v \in {0, BaudDivisor} :
            /\ o = Out("data", v)
            /\ \/ outs = DivisorBytes /\ outs' = LowByte
               \/ outs = LowByte /\ outs' = <<>> /\ v = BaudDivisor
      BY <1>1, <2>2, WriteOrder DEF o
    <3>2. v \in 0..(RegisterSize - 1) /\ Dlab(uart)
      BY <2>2, Divisors DEF Dlab, SERIAL_LINE_ENABLE_DLAB
    <3>7. uart' = WriteUart(uart, "data", v) /\ pit' = pit /\ serial_open' = FALSE
      BY <1>4, <3>1
    <3>3. /\ uart' = [uart EXCEPT !.dll = v] /\ uart' \in UartType
          /\ pit' = pit /\ serial_open' = FALSE
      BY <1>2, <3>2, <3>7, LatchWrite
    <3>4. uart'.dll = v /\ uart'.lcr = uart.lcr /\ uart'.fifo = <<>>
      BY <1>2, <3>3 DEF UartType
    <3>5. Phase'
      BY <1>1, <2>2, <3>1, <3>4 DEF Phase, Rate
    <3>6. ~Opened'
      BY <1>1, <2>2, PlacesDiffer DEF Opened
    <3> QED BY <3>3, <3>4, <3>5, <3>6
  <2>3. CASE calls = Buffers /\ outs = serial_configure_line /\ Rate
    <3>1. o = Out("line command", EightBits) /\ outs' = <<>>
      BY <1>1, <2>3, WriteOrder DEF o
    <3>2. /\ uart' = [uart EXCEPT !.lcr = EightBits] /\ uart' \in UartType
          /\ pit' = pit /\ serial_open' = FALSE
      <4>1. /\ uart' = WriteUart(uart, "line command", EightBits)
            /\ pit' = pit /\ serial_open' = FALSE
        BY <1>4, <3>1
      <4>2. EightBits \in Nat
        BY DEF EightBits
      <4> QED BY <1>2, <4>1, <4>2, LineWrite
    <3>3. uart'.lcr = EightBits /\ uart'.dll = uart.dll /\ uart'.fifo = <<>>
      BY <1>2, <3>2 DEF UartType
    <3>4. Phase'
      BY <1>1, <2>3, <3>1, <3>3 DEF Phase, Rate, Eight
    <3>5. ~Opened'
      BY <1>1, <2>3, PlacesDiffer DEF Opened
    <3> QED BY <3>2, <3>3, <3>4, <3>5
  <2>4. CASE calls = Modem /\ outs = serial_configure_buffers /\ Rate /\ Eight
    <3>1. o = Out("fifo command", 199) /\ outs' = <<>>
      BY <1>1, <2>4, WriteOrder DEF o
    <3>2. /\ uart' = [uart EXCEPT !.fcr = TRUE, !.fifo = <<>>] /\ uart' \in UartType
          /\ pit' = pit /\ serial_open' = FALSE
      <4>1. uart' = WriteUart(uart, "fifo command", 199) /\ pit' = pit /\ serial_open' = FALSE
        BY <1>4, <3>1
      <4> QED BY <1>2, <4>1, FifoWrite
    <3>3. uart'.lcr = uart.lcr /\ uart'.dll = uart.dll /\ uart'.fifo = <<>>
      BY <1>2, <3>2 DEF UartType
    <3>4. Phase'
      BY <1>1, <2>4, <3>1, <3>3 DEF Phase, Rate, Eight
    <3>5. ~Opened'
      BY <1>1, <2>4, PlacesDiffer DEF Opened
    <3> QED BY <3>2, <3>3, <3>4, <3>5
  <2>5. CASE calls = LastCall /\ outs = serial_configure_modem /\ Rate /\ Eight
    <3>1. o = Out("modem command", 3) /\ outs' = <<>>
      BY <1>1, <2>5, WriteOrder DEF o
    <3>2. uart' = uart /\ pit' = pit /\ serial_open' = TRUE
      <4>1. uart' = WriteUart(uart, "modem command", 3) /\ pit' = pit /\ serial_open' = TRUE
        BY <1>4, <3>1
      <4> QED BY <1>2, <4>1, ModemWrite
    <3>3. Phase' /\ Opened'
      BY <1>1, <2>5, <3>1, <3>2 DEF Phase, Rate, Eight, Opened
    <3> QED BY <1>2, <3>2, <3>3
  <2> QED BY <1>1, <2>1, <2>2, <2>3, <2>4, <2>5 DEF Inv, Phase
<1>6. UartInv'
  <2>1. Len(uart'.fifo) <= Capacity(uart')
    BY <1>5, SerialAssumption DEF Capacity
  <2> QED BY <1>5, <2>1 DEF UartInv
<1>7. PitInv'
  BY <1>1, <1>5 DEF Inv, PitInv
<1>8. LogInv'
  BY <1>1, <1>2, <1>5 DEF Inv, LogInv
<1> QED BY <1>2, <1>5, <1>6, <1>7, <1>8 DEF Inv

(* The bytes of the timer's divisor, and what they are together. *)
LEMMA PitBytes ==
  ASSUME frequency \in Frequencies
  PROVE  /\ PitLow \in 0..(ByteSize - 1) /\ PitHigh \in 0..(ByteSize - 1)
         /\ PitHigh * ByteSize + PitLow \in 0..(MaxPeriod - 1)
         /\ PitDivisor(frequency) \in Nat
<1>1. ByteSize \in Nat /\ ByteSize > 0 /\ PitDivisor(frequency) \in Nat
  BY TimerAssumption, StartupAssumption DEF PitDivisor
<1> DEFINE d == PitDivisor(frequency)
<1>2. d \in Nat
  BY <1>1
<1> HIDE DEF d
<1>3. d \div ByteSize \in Nat
  BY <1>1, <1>2
<1>4. PitLow \in 0..(ByteSize - 1) /\ PitHigh \in 0..(ByteSize - 1)
  BY <1>1, <1>2, <1>3 DEF PitLow, PitHigh, d
<1>5. PitHigh * ByteSize + PitLow \in 0..(MaxPeriod - 1)
  <2>1. \A h, l \in 0..(ByteSize - 1) : h * ByteSize + l \in 0..(ByteSize * ByteSize - 1)
    <3> SUFFICES ASSUME NEW h \in 0..(ByteSize - 1), NEW l \in 0..(ByteSize - 1)
                 PROVE  h * ByteSize + l \in 0..(ByteSize * ByteSize - 1)
      OBVIOUS
    <3>1. h * ByteSize <= (ByteSize - 1) * ByteSize /\ h * ByteSize \in Nat
      BY <1>1
    <3>2. (ByteSize - 1) * ByteSize = ByteSize * ByteSize - ByteSize
      BY <1>1
    <3> QED BY <1>1, <3>1, <3>2
  <2> QED BY <1>4, <2>1 DEF MaxPeriod
<1> QED BY <1>1, <1>4, <1>5

PitType == [next : {"low", "high"}, low : 0..(ByteSize - 1), reload : 0..(MaxPeriod - 1)]

(* What a write does to the timer. *)
LEMMA CommandWrite ==
  ASSUME NEW p \in PitType, NEW v
  PROVE  /\ WritePit(p, "pit command", v) \in PitType
         /\ WritePit(p, "pit command", v).next = "low"
         /\ WritePit(p, "pit command", v).reload = p.reload
BY DEF WritePit, PitType

LEMMA LowWrite ==
  ASSUME NEW p \in PitType, p.next = "low", NEW v \in 0..(ByteSize - 1)
  PROVE  /\ WritePit(p, "pit data", v) \in PitType
         /\ WritePit(p, "pit data", v).next = "high"
         /\ WritePit(p, "pit data", v).low = v
         /\ WritePit(p, "pit data", v).reload = p.reload
BY DEF WritePit, PitType

LEMMA HighWrite ==
  ASSUME NEW p \in PitType, p.next = "high", NEW v,
         v * ByteSize + p.low \in 0..(MaxPeriod - 1)
  PROVE  /\ WritePit(p, "pit data", v) \in PitType
         /\ WritePit(p, "pit data", v).reload = v * ByteSize + p.low
<1> DEFINE r == v * ByteSize + p.low
<1>1. WritePit(p, "pit data", v) = [p EXCEPT !.reload = r, !.next = "low"]
  BY DEF WritePit
<1>2. r \in 0..(MaxPeriod - 1)
  OBVIOUS
<1> HIDE DEF r
<1>3. /\ WritePit(p, "pit data", v) \in PitType
      /\ WritePit(p, "pit data", v).reload = r
  BY <1>1, <1>2 DEF PitType
<1> QED BY <1>3 DEF r

(* A write of init_timer. *)
LEMMA ProgramInv ==
  Inv /\ outb /\ calls = <<>> => Inv' /\ uart' = uart
<1> SUFFICES ASSUME Inv, outb, calls = <<>> PROVE Inv' /\ uart' = uart
  OBVIOUS
<1> DEFINE o == Head(outs)
<1>1. /\ outs # <<>> /\ outs' = Tail(outs)
      /\ wire' = wire /\ frequency' = frequency /\ registered' = registered
      /\ tick' = tick /\ calls' = calls /\ writes' = writes /\ i' = i /\ ready' = ready
  BY DEF outb, logVars
<1>2. outs \in {PitAll, PitBoth, PitLast}
  BY <1>1, PlacesDiffer DEF Inv, Phase
<1>3. /\ pit \in PitType /\ frequency \in Frequencies /\ pit.reload = 0
      /\ outs = PitBoth => pit.next = "low"
      /\ outs = PitLast => pit.next = "high" /\ pit.low = PitLow
  BY <1>1 DEF Inv, PitInv, PitType
<1>4. /\ PitLow' = PitLow /\ PitHigh' = PitHigh
  BY <1>1 DEF PitLow, PitHigh
<1>5. PitAll' = PitAll /\ PitBoth' = PitBoth /\ PitLast' = PitLast
  BY <1>4 DEF PitAll, PitBoth, PitLast
<1>6. /\ PitCommand.port = "pit command"
      /\ \A v : PitByte(v).port = "pit data" /\ PitByte(v).value = v
  BY DEF PitCommand, PitByte
<1>7. ASSUME o.port \in {"pit command", "pit data"}
      PROVE  pit' = WritePit(pit, o.port, o.value) /\ uart' = uart /\ serial_open' = serial_open
  BY <1>7 DEF outb
<1> HIDE DEF o
<1>8. /\ outs' \in {PitBoth, PitLast, <<>>} /\ uart' = uart /\ serial_open' = serial_open
      /\ pit' \in PitType
      /\ outs' # <<>> => pit'.reload = 0
      /\ outs' = PitBoth => pit'.next = "low"
      /\ outs' = PitLast => pit'.next = "high" /\ pit'.low = PitLow
      /\ outs' = <<>> => pit'.reload = PitHigh * ByteSize + PitLow
  <2>1. CASE outs = PitAll
    <3>1. outs' = PitBoth /\ o.port = "pit command"
      BY <1>1, <1>6, <2>1, PitOrder DEF o
    <3>2. /\ pit' = WritePit(pit, "pit command", o.value)
          /\ uart' = uart /\ serial_open' = serial_open
      BY <1>7, <3>1
    <3>3. pit' \in PitType /\ pit'.next = "low" /\ pit'.reload = 0
      BY <1>3, <3>2, CommandWrite
    <3> QED BY <3>1, <3>2, <3>3, PitOrder
  <2>2. CASE outs = PitBoth
    <3>1. outs' = PitLast /\ o.port = "pit data" /\ o.value = PitLow
      BY <1>1, <1>6, <2>2, PitOrder DEF o
    <3>2. /\ pit' = WritePit(pit, "pit data", PitLow)
          /\ uart' = uart /\ serial_open' = serial_open
      BY <1>7, <3>1
    <3>3. /\ pit' \in PitType /\ pit'.next = "high" /\ pit'.low = PitLow
          /\ pit'.reload = 0
      BY <1>3, <2>2, <3>2, LowWrite, PitBytes
    <3> QED BY <3>1, <3>2, <3>3, PitOrder
  <2>3. CASE outs = PitLast
    <3>1. outs' = <<>> /\ o.port = "pit data" /\ o.value = PitHigh
      BY <1>1, <1>6, <2>3, PitOrder DEF o
    <3>2. /\ pit' = WritePit(pit, "pit data", PitHigh)
          /\ uart' = uart /\ serial_open' = serial_open
      BY <1>7, <3>1
    <3>3. PitHigh * ByteSize + pit.low \in 0..(MaxPeriod - 1) /\ pit.low = PitLow
      BY <1>3, <2>3, PitBytes
    <3>4. pit' \in PitType /\ pit'.reload = PitHigh * ByteSize + PitLow
      BY <1>3, <2>3, <3>2, <3>3, HighWrite
    <3> QED BY <3>1, <3>2, <3>4, PitOrder
  <2> QED BY <1>2, <2>1, <2>2, <2>3
<1>9. Phase'
  <2>1. Rate /\ Eight
    BY PlacesDiffer DEF Inv, Phase
  <2> QED BY <1>1, <1>5, <1>8, <2>1 DEF Phase, Rate, Eight
<1>10. UartInv'
  BY <1>1, <1>8 DEF Inv, UartInv, Opened, Capacity
<1>11. PitInv'
  BY <1>1, <1>3, <1>4, <1>5, <1>8 DEF Inv, PitInv, PitType
<1>12. LogInv'
  BY <1>1, <1>8 DEF Inv, LogInv
<1> QED BY <1>8, <1>9, <1>10, <1>11, <1>12 DEF Inv

-----------------------------------------------------------------------------
(* The log.                                                                *)

(* Sequences: their prefixes, and what Append makes of a pair. *)
LEMMA Prefix ==
  ASSUME NEW S, NEW c \in Seq(S), NEW n \in 0..Len(c)
  PROVE  /\ [j \in 1..n |-> c[j]] \in Seq(S)
         /\ SubSeq(c, 1, n) = [j \in 1..n |-> c[j]]
<1>1. n \in Nat /\ \A j \in 1..n : c[j] \in S
  OBVIOUS
<1> QED BY <1>1

LEMMA LargerSet ==
  ASSUME NEW S, NEW T, S \subseteq T, NEW c \in Seq(S)
  PROVE  c \in Seq(T)
OBVIOUS

LEMMA HeadIs ==
  ASSUME NEW S, NEW c \in Seq(S), c # <<>>
  PROVE  Head(c) = c[1]
OBVIOUS

LEMMA HeadTailOfConcat ==
  ASSUME NEW S, NEW c \in Seq(S), NEW d \in Seq(S), c # <<>>
  PROVE  c \o d # <<>> /\ Head(c \o d) = Head(c) /\ Tail(c \o d) = Tail(c) \o d
<1>1. /\ c \o d \in Seq(S) /\ Len(c \o d) = Len(c) + Len(d)
      /\ \A j \in 1..(Len(c) + Len(d)) :
           (c \o d)[j] = IF j <= Len(c) THEN c[j] ELSE d[j - Len(c)]
  BY ConcatProperties
<1>2. Len(c) \in Nat \ {0} /\ Len(d) \in Nat
  BY EmptySeq, LenProperties
<1> DEFINE e == c \o d
           t == Tail(c)
<1> HIDE DEF e
<1>3. e \in Seq(S) /\ Len(e) = Len(c) + Len(d) /\ e # <<>>
  BY <1>1, <1>2 DEF e
<1>4. Head(e) = e[1] /\ Head(c) = c[1]
  BY <1>3, HeadIs
<1>5. e[1] = c[1]
  BY <1>1, <1>2 DEF e
<1>6. /\ Tail(e) \in Seq(S) /\ Len(Tail(e)) = Len(e) - 1
      /\ \A j \in 1..Len(Tail(e)) : Tail(e)[j] = e[j + 1]
  BY <1>3, HeadTailProperties
<1>7. /\ t \in Seq(S) /\ Len(t) = Len(c) - 1
      /\ \A j \in 1..Len(t) : t[j] = c[j + 1]
  BY HeadTailProperties
<1> HIDE DEF t
<1>8. /\ t \o d \in Seq(S) /\ Len(t \o d) = Len(t) + Len(d)
      /\ \A j \in 1..(Len(t) + Len(d)) :
           (t \o d)[j] = IF j <= Len(t) THEN t[j] ELSE d[j - Len(t)]
  BY <1>7, ConcatProperties
<1>9. Len(Tail(e)) = Len(t \o d)
  BY <1>2, <1>3, <1>6, <1>7, <1>8
<1>10. ASSUME NEW j \in 1..Len(Tail(e)) PROVE Tail(e)[j] = (t \o d)[j]
  <2>1. /\ j \in 1..(Len(t) + Len(d)) /\ j + 1 \in 1..(Len(c) + Len(d))
        /\ j \in Nat /\ (j + 1) - Len(c) = j - Len(t)
    BY <1>2, <1>3, <1>6, <1>7
  <2>2. /\ Tail(e)[j] = e[j + 1]
        /\ e[j + 1] = IF j + 1 <= Len(c) THEN c[j + 1] ELSE d[(j + 1) - Len(c)]
    BY <1>1, <1>6, <2>1, Zenon DEF e
  <2>3. (t \o d)[j] = IF j <= Len(t) THEN t[j] ELSE d[j - Len(t)]
    BY <1>8, <2>1, Zenon
  <2>4. (j + 1 <= Len(c)) <=> (j <= Len(t))
    BY <1>2, <1>7, <2>1
  <2>5. j <= Len(t) => t[j] = c[j + 1]
    BY <1>2, <1>7, <2>1
  <2> QED BY <2>1, <2>2, <2>3, <2>4, <2>5, Zenon
<1>11. Tail(e) = t \o d
  BY <1>6, <1>8, <1>9, <1>10, SeqEqual
<1> QED BY <1>3, <1>4, <1>5, <1>11, Zenon DEF e, t

LEMMA AppendIs ==
  ASSUME NEW S, NEW s \in Seq(S), NEW c \in S
  PROVE  /\ Append(s, c) \in Seq(S) /\ Len(Append(s, c)) = Len(s) + 1
         /\ \A j \in 1..Len(s) : Append(s, c)[j] = s[j]
         /\ Append(s, c)[Len(s) + 1] = c
OBVIOUS

LEMMA AppendTwo ==
  ASSUME NEW S, NEW a \in S, NEW b \in S, NEW c \in S
  PROVE  Append(<<a, b>>, c) = <<a, b, c>>
<1> DEFINE s == <<a, b>>
           x == Append(s, c)
<1>1. s \in Seq(S) /\ Len(s) = 2 /\ s[1] = a /\ s[2] = b
  OBVIOUS
<1> HIDE DEF s
<1>2. x \in Seq(S) /\ Len(x) = 3 /\ x[1] = a /\ x[2] = b /\ x[3] = c
  <2>1. /\ x \in Seq(S) /\ Len(x) = Len(s) + 1
        /\ \A j \in 1..Len(s) : x[j] = s[j]
        /\ x[Len(s) + 1] = c
     BY <1>1, AppendIs
  <2> HIDE DEF x
  <2> QED BY <2>1, <1>1
<1> HIDE DEF x
<1>4. x = <<a, b, c>>
  BY <1>2
<1> QED BY <1>4 DEF s, x

(* What a call of serial_write sends. *)
Sent(w) == [j \in 1..Count(w) |-> CharAt(w, j)]

(* A call for n characters of a text. *)
LEMMA TextCall ==
  ASSUME NEW t \in Seq(1..255), Len(t) + 2 < WordSize, NEW n \in 0..(Len(t) + 1)
  PROVE  /\ Write(CString(t), n + 1) \in WriteCall
         /\ Count(Write(CString(t), n + 1)) = n
         /\ Sent(Write(CString(t), n + 1)) = SubSeq(CString(t), 1, n)
         /\ SubSeq(CString(t), 1, n) \in Seq(Chars)
<1> DEFINE w == Write(CString(t), n + 1)
<1>1. WordSize \in Nat /\ Len(t) \in Nat
  BY SerialAssumption
<1>2. /\ w.c = CString(t) /\ w.length = n + 1
      /\ CString(t) \in Seq(Chars) /\ Len(CString(t)) = Len(t) + 1
  <2>1. 1..255 \subseteq Chars /\ 0 \in Chars
    BY DEF Chars
  <2>2. t \in Seq(Chars)
    BY <2>1, LargerSet
  <2>3. CString(t) \in Seq(Chars) /\ Len(CString(t)) = Len(t) + 1
    BY <2>1, <2>2, AppendIs DEF CString, NUL
  <2> QED BY <2>3 DEF Write
<1>3. w \in WriteCall
  BY <1>1, <1>2 DEF Write, WriteCall
<1>4. Count(w) = n
  <2>1. n + 1 - 1 = n /\ n % WordSize = n
    BY <1>1
  <2> QED BY <1>2, <2>1 DEF Count
<1> HIDE DEF w
<1>5. Sent(w) = SubSeq(CString(t), 1, n) /\ SubSeq(CString(t), 1, n) \in Seq(Chars)
  <2> DEFINE c == CString(t)
  <2>1. c \in Seq(Chars) /\ Len(c) = Len(t) + 1 /\ w.c = c
    BY <1>2
  <2> HIDE DEF c
  <2>2. SubSeq(c, 1, n) = [j \in 1..n |-> c[j]]
    BY <1>1, <2>1
  <2>3. \A j \in 1..n : CharAt(w, j) = c[j]
    BY <1>1, <2>1 DEF CharAt
  <2>4. Sent(w) = [j \in 1..n |-> c[j]]
    BY <1>4, <2>3 DEF Sent
  <2>5. [j \in 1..n |-> c[j]] \in Seq(Chars)
    <3>1. n \in 0..Len(c)
      BY <1>1, <2>1
    <3> QED BY <2>1, <3>1, Prefix
  <2> QED BY <2>2, <2>4, <2>5 DEF c
<1> QED BY <1>3, <1>4, <1>5 DEF w

(* A call of log.c is three calls of serial_write, which send a line. *)
LEMMA LogCalls ==
  ASSUME Log
  PROVE  /\ WriteDebug \in WriteCall /\ WriteNewLine \in WriteCall
         /\ Sent(WriteDebug) = Debug /\ Sent(WriteNewLine) = <<NewLine>>
         /\ \E w \in WriteCall :
              /\ writes' = <<WriteDebug, w, WriteNewLine>>
              /\ Sent(w) \in Seq(Chars)
              /\ Debug \o Sent(w) \o <<NewLine>> \in CutLines
<1>1. \A t \in Texts \cup Numbers : t \in Seq(1..255) /\ Len(t) + 2 < WordSize
  BY StartupAssumption
<1>2. WordSize > 2 /\ WordSize \in Nat
  <2>1. PICK t : t \in Texts \cup Numbers
    BY DEF Log
  <2> QED BY <1>1, <2>1, SerialAssumption
<1>3. WriteDebug \in WriteCall /\ Sent(WriteDebug) = Debug
  <2>1. WriteDebug.c = <<91, 32, 0>> /\ WriteDebug.length = 3
    <3>1. Append(<<91, 32>>, 0) = <<91, 32, 0>>
      <4>1. 91 \in Nat /\ 32 \in Nat /\ 0 \in Nat
        OBVIOUS
      <4> QED BY <4>1, AppendTwo, Zenon
    <3>2. Len(<<91, 32>>) + 1 = 3
      OBVIOUS
    <3> QED BY <3>1, <3>2 DEF WriteDebug, Write, CString, Debug, NUL
  <2>2. Count(WriteDebug) = 2
    <3>1. 3 - 1 = 2 /\ 2 % WordSize = 2
      BY <1>2
    <3> QED BY <2>1, <3>1 DEF Count
  <2>3. WriteDebug \in WriteCall
    <3>1. <<91, 32, 0>> \in Seq(Chars) /\ 3 \in 0..WordSize
      <4>1. 91 \in Chars /\ 32 \in Chars /\ 0 \in Chars /\ 3 \in 0..WordSize
        BY <1>2 DEF Chars
      <4> QED BY <4>1
    <3>2. WriteDebug = [c |-> <<91, 32, 0>>, length |-> 3]
      BY DEF WriteDebug, Write, CString, Debug, NUL
    <3> QED BY <3>1, <3>2 DEF WriteCall
  <2>4. \A j \in 1..2 : CharAt(WriteDebug, j) = Debug[j]
    BY <2>1 DEF CharAt, Debug
  <2>5. Debug = [j \in 1..2 |-> Debug[j]]
    BY DEF Debug
  <2> QED BY <2>2, <2>3, <2>4, <2>5 DEF Sent
<1>4. WriteNewLine \in WriteCall /\ Sent(WriteNewLine) = <<NewLine>>
  <2>1. WriteNewLine.c = <<10>> /\ WriteNewLine.length = 2
    BY DEF WriteNewLine, Write, NewLine
  <2>2. Count(WriteNewLine) = 1
    <3>1. 2 - 1 = 1 /\ 1 % WordSize = 1
      BY <1>2
    <3> QED BY <2>1, <3>1 DEF Count
  <2>3. WriteNewLine \in WriteCall
    <3>1. 10 \in Chars /\ 2 \in 0..WordSize
      BY <1>2 DEF Chars
    <3>2. <<10>> \in Seq(Chars)
      BY <3>1
    <3> QED BY <3>1, <3>2 DEF WriteNewLine, Write, NewLine, WriteCall
  <2>4. \A j \in 1..1 : CharAt(WriteNewLine, j) = 10
    BY <2>1 DEF CharAt
  <2>5. <<10>> = [j \in 1..1 |-> 10]
    OBVIOUS
  <2> QED BY <2>2, <2>3, <2>4, <2>5 DEF Sent, NewLine
<1>9. /\ \A t \in Texts : \A n \in 0..(Len(t) + 1) :
           Debug \o SubSeq(CString(t), 1, n) \o <<NewLine>> \in CutLines
      /\ \A d \in Numbers : \A n \in 0..Len(d) : Debug \o SubSeq(d, 1, n) \o <<NewLine>> \in CutLines
  <2>1. ASSUME NEW t \in Texts, NEW n \in 0..(Len(t) + 1)
        PROVE  SubSeq(CString(t), 1, n) \in Prefixes(CString(t))
    <3>1. Len(CString(t)) = Len(t) + 1
      BY <1>1 DEF CString
    <3> QED BY <3>1, Zenon DEF Prefixes
  <2>2. \A d \in Numbers : \A n \in 0..Len(d) : SubSeq(d, 1, n) \in Prefixes(d)
    BY Zenon DEF Prefixes
  <2>3. \A t \in Texts : \A x \in Prefixes(CString(t)) : Debug \o x \o <<NewLine>> \in CutLines
    BY Zenon DEF CutLines, TextLines, LinesOf
  <2>4. \A d \in Numbers : \A x \in Prefixes(d) : Debug \o x \o <<NewLine>> \in CutLines
    BY Zenon DEF CutLines, LinesOf
  <2> QED BY <2>1, <2>2, <2>3, <2>4, Zenon
<1>5. ASSUME NEW t \in Texts, NEW n \in 0..(Len(t) + 1), writes' = print_debug(t, n)
      PROVE  \E w \in WriteCall :
               /\ writes' = <<WriteDebug, w, WriteNewLine>>
               /\ Sent(w) \in Seq(Chars)
               /\ Debug \o Sent(w) \o <<NewLine>> \in CutLines
  <2> DEFINE w == Write(CString(t), n + 1)
  <2>0. t \in Seq(1..255) /\ Len(t) + 2 < WordSize
    BY <1>1
  <2>1. w \in WriteCall /\ Sent(w) = SubSeq(CString(t), 1, n)
    BY <2>0, TextCall
  <2>3. SubSeq(CString(t), 1, n) \in Seq(Chars)
    BY <2>0, TextCall
  <2>4. Debug \o Sent(w) \o <<NewLine>> \in CutLines
    BY <1>9, <2>1, Zenon
  <2>5. writes' = <<WriteDebug, w, WriteNewLine>>
    BY <1>5 DEF print_debug
  <2> QED BY <2>1, <2>3, <2>4, <2>5
<1>6. ASSUME NEW t \in Texts, writes' = print_debug_str(t)
      PROVE  writes' = print_debug(t, Len(t)) /\ Len(t) \in 0..(Len(t) + 1)
  BY <1>1, <1>6 DEF print_debug_str, print_debug
<1>7. ASSUME NEW d \in Numbers, writes' = print_debug_dec(d)
      PROVE  \E w \in WriteCall :
               /\ writes' = <<WriteDebug, w, WriteNewLine>>
               /\ Sent(w) \in Seq(Chars)
               /\ Debug \o Sent(w) \o <<NewLine>> \in CutLines
  <2> DEFINE n == Len(d) - 1
             w == Write(CString(d), n + 1)
  <2>0. d \in Seq(1..255) /\ Len(d) + 2 < WordSize /\ d # <<>>
    BY <1>1, StartupAssumption
  <2>1. n \in 0..(Len(d) + 1) /\ n + 1 = Len(d)
    BY <2>0
  <2>2. w \in WriteCall /\ Sent(w) = SubSeq(CString(d), 1, n)
    BY <2>0, <2>1, TextCall
  <2>3. SubSeq(CString(d), 1, n) = SubSeq(d, 1, n)
    BY <2>0, <2>1 DEF CString
  <2>4. SubSeq(d, 1, n) \in Seq(Chars)
    BY <2>0, <2>1, <2>3, TextCall
  <2>5. n \in 0..Len(d)
    BY <2>0
  <2> HIDE DEF n, w
  <2>6. Debug \o Sent(w) \o <<NewLine>> \in CutLines
    BY <1>9, <2>2, <2>3, <2>5, Zenon
  <2>7. writes' = <<WriteDebug, w, WriteNewLine>>
    BY <1>7, <2>1 DEF print_debug_dec, w
  <2> QED BY <2>2, <2>3, <2>4, <2>6, <2>7
<1>8. \/ \E t \in Texts : \E n \in 0..(Len(t) + 1) : writes' = print_debug(t, n)
      \/ \E t \in Texts : writes' = print_debug_str(t)
      \/ \E d \in Numbers : writes' = print_debug_dec(d)
  BY Zenon DEF Log
<1> QED BY <1>3, <1>4, <1>5, <1>6, <1>7, <1>8, Zenon

(* Log, the loop of serial_write, and the devices. *)
LEMMA LogStepInv == Inv /\ Log => Inv'
<1> SUFFICES ASSUME Inv, Log PROVE Inv'
  OBVIOUS
<1>1. /\ outs = <<>> /\ writes = <<>>
      /\ uart' = uart /\ wire' = wire /\ serial_open' = serial_open
      /\ pit' = pit /\ frequency' = frequency /\ tick' = tick /\ registered' = registered
      /\ calls' = calls /\ outs' = outs /\ i' = i /\ ready' = ready
  BY DEF Log, Idle, uartVars, pitVars
<1>2. PICK w \in WriteCall : writes' = <<WriteDebug, w, WriteNewLine>>
  BY LogCalls
<1>3. writes' \in Seq(WriteCall) /\ Len(writes') = 3
  BY <1>2, LogCalls
<1>4. PitLow' = PitLow /\ PitHigh' = PitHigh /\ PitBoth' = PitBoth /\ PitLast' = PitLast
      /\ PitAll' = PitAll
  BY <1>1 DEF PitLow, PitHigh, PitBoth, PitLast, PitAll
<1>5. Phase'
  BY <1>1, <1>4 DEF Inv, Phase, Rate, Eight
<1>6. UartInv'
  BY <1>1 DEF Inv, UartInv, Opened, Capacity
<1>7. PitInv'
  BY <1>1, <1>4 DEF Inv, PitInv
<1>8. LogInv'
  BY <1>1, <1>3 DEF Inv, LogInv
<1> QED BY <1>5, <1>6, <1>7, <1>8 DEF Inv

(* What a step that leaves kmain and the UART's registers alone preserves. *)
LEMMA QuietSteps ==
  ASSUME Inv, calls' = calls, outs' = outs, frequency' = frequency, pit' = pit,
         registered' = registered, tick' \in 0..(WordSize - 1), serial_open' = serial_open,
         uart'.lcr = uart.lcr, uart'.dll = uart.dll
  PROVE  Phase' /\ PitInv' /\ Opened' = Opened
<1>1. PitLow' = PitLow /\ PitHigh' = PitHigh /\ PitBoth' = PitBoth /\ PitLast' = PitLast
      /\ PitAll' = PitAll
  BY DEF PitLow, PitHigh, PitBoth, PitLast, PitAll
<1>2. Phase'
  BY <1>1 DEF Inv, Phase, Rate, Eight
<1>3. PitInv'
  BY <1>1 DEF Inv, PitInv
<1> QED BY <1>2, <1>3 DEF Opened

(* The loop of serial_write sends only through an open port, in the format *)
(* and with the rate that kmain set.                                       *)
LEMMA OpenPort ==
  ASSUME Inv, serial_open
  PROVE  Rate /\ Eight /\ ~Dlab(uart)
<1>1. Opened
  BY DEF Inv, UartInv
<1>2. Rate /\ Eight
  BY <1>1, PlacesDiffer DEF Inv, Phase, Opened
<1> QED BY <1>2 DEF Eight, Dlab, EightBits, SERIAL_LINE_ENABLE_DLAB

(* A character of a call of serial_write. *)
LEMMA CharIs ==
  ASSUME NEW w \in WriteCall, NEW j \in Nat \ {0}
  PROVE  CharAt(w, j) \in Chars
<1>1. w.c \in Seq(Chars)
  BY DEF WriteCall
<1> DEFINE c == w.c
<1>2. c \in Seq(Chars)
  BY <1>1
<1> HIDE DEF c
<1>3. CASE j <= Len(c)
  <2>1. c[j] \in Chars
    BY <1>2, <1>3
  <2> QED BY <1>3, <2>1 DEF CharAt, c
<1>4. CASE ~(j <= Len(c))
  <2>1. 255 \in Chars
    BY DEF Chars
  <2> QED BY <1>4, <2>1 DEF CharAt, c
<1> QED BY <1>3, <1>4

LEMMA CountIs ==
  ASSUME NEW w \in WriteCall
  PROVE  Count(w) \in 0..(WordSize - 1)
<1>1. w.length \in Nat /\ WordSize \in Nat \ {0}
  BY SerialAssumption DEF WriteCall
<1> QED BY <1>1 DEF Count

LEMMA SerialWriteInv == Inv /\ serial_write => Inv'
<1> SUFFICES ASSUME Inv, serial_write PROVE Inv'
  OBVIOUS
<1>0. /\ uart \in UartType /\ tick \in 0..(WordSize - 1) /\ writes \in Seq(WriteCall)
      /\ i \in 0..(WordSize - 1) /\ Len(writes) <= 3 /\ WordSize \in Nat \ {0}
  BY SerialAssumption DEF Inv, UartInv, PitInv, LogInv
<1>1. CASE Poll
  <2>1. /\ uart' = uart /\ wire' = wire /\ serial_open' = serial_open
        /\ pit' = pit /\ frequency' = frequency /\ tick' = tick /\ registered' = registered
        /\ calls' = calls /\ outs' = outs /\ writes' = writes /\ i' = i
        /\ ready' = TRUE /\ uart.fifo = <<>>
    BY <1>1 DEF Poll, uartVars, pitVars, serial_is_transmit_fifo_empty
  <2>2. Phase' /\ PitInv' /\ Opened' = Opened
    BY <1>0, <2>1, QuietSteps
  <2>3. UartInv'
    BY <2>1, <2>2 DEF Inv, UartInv, Capacity
  <2>4. LogInv'
    BY <2>1 DEF Inv, LogInv
  <2> QED BY <2>2, <2>3, <2>4 DEF Inv
<1>2. CASE SendChar
  <2> DEFINE w == Head(writes)
             ch == CharAt(w, i + 1)
  <2>1. /\ writes # <<>> /\ serial_open /\ i < Count(w) /\ ready
        /\ uart' = WriteUart(uart, "data", ch) /\ i' = i + 1
        /\ wire' = wire /\ serial_open' = serial_open
        /\ pit' = pit /\ frequency' = frequency /\ tick' = tick /\ registered' = registered
        /\ calls' = calls /\ outs' = outs /\ writes' = writes /\ ready' = FALSE
    BY <1>2 DEF SendChar, InLoop, pitVars
  <2>2. w \in WriteCall
    BY <1>0, <2>1
  <2>3. ch \in Chars /\ i' \in 0..(WordSize - 1)
    BY <1>0, <2>1, <2>2, CharIs, CountIs
  <2> HIDE DEF ch
  <2>4. ~Dlab(uart) /\ uart.fifo = <<>>
    BY <2>1, OpenPort DEF Inv, LogInv
  <2>5. uart' \in UartType /\ uart' = [uart EXCEPT !.fifo = <<ch>>]
    BY <1>0, <2>1, <2>3, <2>4, DataWrite
  <2>6. /\ uart'.lcr = uart.lcr /\ uart'.dll = uart.dll /\ uart'.fifo = <<ch>>
        /\ Len(<<ch>>) = 1
    BY <1>0, <2>5 DEF UartType
  <2>7. Phase' /\ PitInv' /\ Opened' = Opened
    BY <1>0, <2>1, <2>6, QuietSteps
  <2>8. Len(uart'.fifo) <= Capacity(uart')
    BY <2>6, SerialAssumption DEF Capacity
  <2>9. UartInv'
    BY <2>1, <2>5, <2>7, <2>8 DEF Inv, UartInv
  <2>10. LogInv'
    BY <2>1, <2>3 DEF Inv, LogInv
  <2> QED BY <2>7, <2>9, <2>10 DEF Inv
<1>3. CASE Return
  <2>1. /\ uart' = uart /\ wire' = wire /\ serial_open' = serial_open
        /\ pit' = pit /\ frequency' = frequency /\ tick' = tick /\ registered' = registered
        /\ calls' = calls /\ outs' = outs /\ writes # <<>> /\ writes' = Tail(writes)
        /\ i' = 0 /\ ready' = ready
    BY <1>3 DEF Return, uartVars, pitVars
  <2>2. Phase' /\ PitInv' /\ Opened' = Opened
    BY <1>0, <2>1, QuietSteps
  <2>3. UartInv'
    BY <2>1, <2>2 DEF Inv, UartInv, Capacity
  <2>4. writes' \in Seq(WriteCall) /\ Len(writes') <= 3 /\ i' \in 0..(WordSize - 1)
    BY <1>0, <2>1
  <2>5. LogInv'
    BY <2>1, <2>4 DEF Inv, LogInv
  <2> QED BY <2>2, <2>3, <2>5 DEF Inv
<1> QED BY <1>1, <1>2, <1>3 DEF serial_write

LEMMA DevicesInv == Inv /\ (Transmit \/ timer_callback) => Inv'
<1> SUFFICES ASSUME Inv, Transmit \/ timer_callback PROVE Inv'
  OBVIOUS
<1>0. /\ uart \in UartType /\ tick \in 0..(WordSize - 1) /\ WordSize \in Nat \ {0}
      /\ wire \in Seq(Chars)
  BY SerialAssumption DEF Inv, UartInv, PitInv, LogInv
<1>1. CASE Transmit
  <2> DEFINE f == uart.fifo
  <2>1. /\ f # <<>> /\ wire' = Append(wire, Head(f))
        /\ uart' = [uart EXCEPT !.fifo = Tail(f)] /\ serial_open' = serial_open
        /\ pit' = pit /\ frequency' = frequency /\ tick' = tick /\ registered' = registered
        /\ calls' = calls /\ outs' = outs /\ writes' = writes /\ i' = i /\ ready' = ready
    BY <1>1 DEF Transmit, pitVars, logVars
  <2>2. f \in Seq(Chars) /\ Len(f) <= Capacity(uart)
    BY <1>0 DEF UartType, Inv, UartInv
  <2> HIDE DEF f
  <2>3. /\ Tail(f) \in Seq(Chars) /\ Len(Tail(f)) = Len(f) - 1 /\ Len(f) \in Nat
        /\ Head(f) \in Chars
    BY <2>1, <2>2
  <2>4. uart' \in UartType /\ uart'.lcr = uart.lcr /\ uart'.dll = uart.dll
        /\ uart'.fcr = uart.fcr /\ uart'.fifo = Tail(f)
    BY <1>0, <2>1, <2>3 DEF UartType
  <2>5. Phase' /\ PitInv' /\ Opened' = Opened
    BY <1>0, <2>1, <2>4, QuietSteps
  <2>6. Len(uart'.fifo) <= Capacity(uart')
    BY <2>2, <2>3, <2>4, SerialAssumption DEF Capacity
  <2>7. serial_open /\ ~ready
    BY <2>1 DEF Inv, UartInv, LogInv, f
  <2>8. UartInv'
    BY <2>1, <2>4, <2>5, <2>6, <2>7 DEF Inv, UartInv
  <2>9. wire' \in Seq(Chars)
    BY <1>0, <2>1, <2>3
  <2>10. LogInv'
    BY <2>1, <2>7, <2>9 DEF Inv, LogInv
  <2> QED BY <2>5, <2>8, <2>10 DEF Inv
<1>2. CASE timer_callback
  <2>1. /\ uart' = uart /\ wire' = wire /\ serial_open' = serial_open
        /\ pit' = pit /\ frequency' = frequency /\ registered' = registered
        /\ calls' = calls /\ outs' = outs /\ writes' = writes /\ i' = i /\ ready' = ready
        /\ tick' = (tick + 1) % WordSize
    BY <1>2 DEF timer_callback, uartVars, logVars
  <2>2. tick' \in 0..(WordSize - 1)
    BY <1>0, <2>1
  <2>3. Phase' /\ PitInv' /\ Opened' = Opened
    BY <2>1, <2>2, QuietSteps
  <2>4. UartInv'
    BY <2>1, <2>3 DEF Inv, UartInv, Capacity
  <2>5. LogInv'
    BY <2>1 DEF Inv, LogInv
  <2> QED BY <2>3, <2>4, <2>5 DEF Inv
<1> QED BY <1>1, <1>2

LEMMA StutterInv == Inv /\ UNCHANGED vars => Inv'
<1> SUFFICES ASSUME Inv, UNCHANGED vars PROVE Inv'
  OBVIOUS
<1>1. /\ uart' = uart /\ wire' = wire /\ serial_open' = serial_open
      /\ pit' = pit /\ frequency' = frequency /\ registered' = registered /\ tick' = tick
      /\ calls' = calls /\ outs' = outs /\ writes' = writes /\ i' = i /\ ready' = ready
  BY DEF vars, uartVars, pitVars, logVars
<1>2. Phase' /\ PitInv' /\ Opened' = Opened
  BY <1>1, QuietSteps DEF Inv, PitInv
<1>3. UartInv'
  BY <1>1, <1>2 DEF Inv, UartInv, Capacity
<1>4. LogInv'
  BY <1>1 DEF Inv, LogInv
<1> QED BY <1>2, <1>3, <1>4 DEF Inv

(* The invariant holds at every step. *)
THEOREM StartupInvariant == Spec => []Inv
<1>1. Inv /\ [Next]_vars => Inv'
  BY KmainInv, ConfigureInv, ProgramInv, LogStepInv, SerialWriteInv, DevicesInv, StutterInv
     DEF Next
<1> QED BY InitInv, <1>1, PTL DEF Spec

(* The registers of both devices and the counters keep their types, and    *)
(* the UART never holds more characters than fit: serial_write sends one   *)
(* only when it has seen the FIFO empty (serial.c:98-105).                 *)
THEOREM StartupTypes == Spec => []TypeOK
<1>1. Inv => TypeOK
  BY DEF Inv, UartInv, PitInv, LogInv, UartType, TypeOK
<1> QED BY <1>1, StartupInvariant, PTL

(* Every character leaves the UART at the rate and in the format that      *)
(* kmain asked for (serial.c:23-28, 54), for every divisor of one byte,    *)
(* whatever is logged before, during and behind the configuration.         *)
THEOREM RateIsAsAsked == Spec => []RateAsAsked
<1>1. Inv => RateAsAsked
  <2> SUFFICES ASSUME Inv, uart.fifo # <<>>
               PROVE  Divisor(uart) = BaudDivisor /\ uart.lcr = EightBits
    BY DEF RateAsAsked
  <2>1. uart.dll = BaudDivisor /\ uart.lcr = EightBits
    BY OpenPort DEF Inv, UartInv, Rate, Eight
  <2>2. uart.dlm = 0
    BY DEF Inv, UartInv, UartType
  <2>3. 0 * RegisterSize + BaudDivisor = BaudDivisor
    BY Divisors
  <2> QED BY <2>1, <2>2, <2>3 DEF Divisor
<1> QED BY <1>1, StartupInvariant, PTL

(* The timer has its old period until init_timer has sent both bytes of    *)
(* the divisor and the divisor's period from then on (timer.c:33-46), for  *)
(* every frequency whose divisor is at most the largest period.            *)
THEOREM PeriodIsAsAsked == Spec => []PeriodAsAsked
<1>1. Inv => PeriodAsAsked
  <2> DEFINE d == PitDivisor(frequency)
  <2> SUFFICES ASSUME Inv, d \in 1..MaxPeriod
               PROVE  Period(pit) = IF registered /\ outs = <<>> THEN d ELSE MaxPeriod
    BY DEF PeriodAsAsked
  <2>1. CASE registered /\ outs = <<>>
    <3>1. pit.reload = PitHigh * ByteSize + PitLow
      BY <2>1 DEF Inv, PitInv
    <3>2. PitLow = d % ByteSize /\ PitHigh = (d \div ByteSize) % ByteSize
      BY DEF PitLow, PitHigh
    <3>3. ByteSize \in Nat \ {0} /\ MaxPeriod = ByteSize * ByteSize
      BY TimerAssumption DEF MaxPeriod
    <3>9. d \in 1..(ByteSize * ByteSize)
      BY <3>3
    <3> HIDE DEF d
    <3>4. d \div ByteSize \in Nat /\ d = (d \div ByteSize) * ByteSize + (d % ByteSize)
      BY <3>3, <3>9
    <3>5. CASE d < ByteSize * ByteSize
      <4>1. d \div ByteSize < ByteSize
        BY <3>3, <3>5, <3>9
      <4>2. (d \div ByteSize) % ByteSize = d \div ByteSize
        BY <3>3, <3>4, <4>1
      <4>3. pit.reload = d /\ d # 0
        BY <3>1, <3>2, <3>4, <4>2, <3>9
      <4> QED BY <2>1, <4>3 DEF Period
    <3>6. CASE d = ByteSize * ByteSize
      <4>1. d % ByteSize = 0 /\ d \div ByteSize = ByteSize
        BY <3>3, <3>6, <3>9
      <4>2. ByteSize % ByteSize = 0
        BY <3>3
      <4>3. 0 * ByteSize + 0 = 0
        BY <3>3
      <4>4. pit.reload = 0
        BY <3>1, <3>2, <4>1, <4>2, <4>3
      <4> QED BY <2>1, <3>3, <3>6, <4>4 DEF Period
    <3> QED BY <3>3, <3>5, <3>6, <3>9
  <2>2. CASE ~(registered /\ outs = <<>>)
    BY <2>2 DEF Inv, PitInv, Period
  <2> QED BY <2>1, <2>2
<1> QED BY <1>1, StartupInvariant, PTL

-----------------------------------------------------------------------------
(* The refinement.                                                         *)

(* What a call of serial_write has left to send from index n on, and what  *)
(* a sequence of calls has, the first one from index n on.                 *)
Chunk(w, n) == [j \in 1..(Count(w) - n) |-> CharAt(w, n + j)]

Chunks(ws, n) == [k \in 1..Len(ws) |-> Chunk(ws[k], IF k = 1 THEN n ELSE 0)]

LEMMA RestIs == Rest = FlattenSeq(Chunks(writes, i))
BY DEF Rest, Chunks, Chunk

LEMMA RestNext == Rest' = FlattenSeq(Chunks(writes', i'))
BY DEF Rest, Chunks, Chunk

LEMMA ChunkIs ==
  ASSUME NEW w \in WriteCall, NEW n \in Nat
  PROVE  /\ Chunk(w, n) \in Seq(Chars)
         /\ n >= Count(w) => Chunk(w, n) = <<>>
         /\ n < Count(w) => Chunk(w, n) = <<CharAt(w, n + 1)>> \o Chunk(w, n + 1)
         /\ Chunk(w, 0) = Sent(w)
<1>1. Count(w) \in Nat
  BY CountIs, SerialAssumption
<1>2. \A m \in Nat \ {0} : CharAt(w, m) \in Chars
  BY CharIs
<1>3. ASSUME NEW m \in Nat PROVE Chunk(w, m) \in Seq(Chars)
  <2> DEFINE l == IF m >= Count(w) THEN 0 ELSE Count(w) - m
  <2>1. l \in Nat /\ 1..(Count(w) - m) = 1..l
    BY <1>1
  <2>2. \A j \in 1..l : m + j \in Nat \ {0}
    BY <2>1
  <2> HIDE DEF l
  <2>3. \A j \in 1..l : CharAt(w, m + j) \in Chars
    BY <1>2, <2>2
  <2>4. [j \in 1..l |-> CharAt(w, m + j)] \in Seq(Chars)
    BY <2>1, <2>3, IsASeq
  <2> QED BY <2>1, <2>4 DEF Chunk
<1>4. ASSUME n >= Count(w) PROVE Chunk(w, n) = <<>>
  <2>1. 1..(Count(w) - n) = {}
    BY <1>1, <1>4
  <2> QED BY <2>1 DEF Chunk
<1>5. ASSUME n < Count(w)
      PROVE  Chunk(w, n) = <<CharAt(w, n + 1)>> \o Chunk(w, n + 1)
  <2> DEFINE a == <<CharAt(w, n + 1)>>
             b == Chunk(w, n + 1)
             c == Chunk(w, n)
  <2>1. CharAt(w, n + 1) \in Chars
    BY <1>2
  <2>2. a \in Seq(Chars) /\ Len(a) = 1 /\ a[1] = CharAt(w, n + 1)
    BY <2>1
  <2>3. /\ b \in Seq(Chars) /\ Len(b) = Count(w) - n - 1
        /\ \A j \in 1..Len(b) : b[j] = CharAt(w, n + 1 + j)
    <3>1. Count(w) - (n + 1) = Count(w) - n - 1 /\ Count(w) - n - 1 \in Nat
      BY <1>1, <1>5
    <3>2. b = [j \in 1..(Count(w) - n - 1) |-> CharAt(w, n + 1 + j)]
      BY <3>1 DEF Chunk
    <3> HIDE DEF b
    <3>3. Len(b) = Count(w) - n - 1
      BY <3>1, <3>2
    <3>4. b \in Seq(Chars)
      BY <1>3 DEF b
    <3> QED BY <3>2, <3>3, <3>4
  <2>4. /\ c \in Seq(Chars) /\ Len(c) = Count(w) - n
        /\ \A j \in 1..Len(c) : c[j] = CharAt(w, n + j)
    <3>1. Count(w) - n \in Nat
      BY <1>1, <1>5
    <3>2. c = [j \in 1..(Count(w) - n) |-> CharAt(w, n + j)]
      BY DEF Chunk
    <3> HIDE DEF c
    <3>3. Len(c) = Count(w) - n
      BY <3>1, <3>2
    <3>4. c \in Seq(Chars)
      BY <1>3 DEF c
    <3> QED BY <3>2, <3>3, <3>4
  <2> HIDE DEF a, b, c
  <2>5. /\ a \o b \in Seq(Chars) /\ Len(a \o b) = 1 + Len(b)
        /\ \A j \in 1..(1 + Len(b)) : (a \o b)[j] = IF j <= 1 THEN a[j] ELSE b[j - 1]
    <3>1. /\ a \o b \in Seq(Chars) /\ Len(a \o b) = Len(a) + Len(b)
          /\ \A j \in 1..(Len(a) + Len(b)) :
               (a \o b)[j] = IF j <= Len(a) THEN a[j] ELSE b[j - Len(a)]
      BY <2>2, <2>3, ConcatProperties, Zenon
    <3> QED BY <2>2, <3>1, Zenon
  <2>6. Len(a \o b) = Len(c)
    BY <1>1, <2>3, <2>4, <2>5
  <2>7. ASSUME NEW j \in 1..Len(c) PROVE (a \o b)[j] = c[j]
    <3>1. j \in 1..(1 + Len(b))
      BY <2>3, <2>4, <1>1
    <3>2. CASE j = 1
      BY <2>2, <2>4, <2>5, <3>1, <3>2
    <3>3. CASE j # 1
      <4>1. j - 1 \in 1..Len(b) /\ ~(j <= 1) /\ n + 1 + (j - 1) = n + j
        BY <2>3, <2>4, <3>3, <1>1
      <4> QED BY <2>3, <2>4, <2>5, <3>1, <4>1
    <3> QED BY <3>2, <3>3
  <2>8. a \o b = c
    BY <2>4, <2>5, <2>6, <2>7, SeqEqual
  <2> QED BY <2>8 DEF a, b, c
<1>6. Chunk(w, 0) = Sent(w)
  <2>1. Count(w) - 0 = Count(w) /\ \A j \in 1..Count(w) : 0 + j = j
    BY <1>1
  <2> QED BY <2>1 DEF Chunk, Sent
<1> QED BY <1>3, <1>4, <1>5, <1>6

(* FlattenSeq on up to three sequences. *)
LEMMA FlattenIs ==
  ASSUME NEW S, NEW ss \in Seq(Seq(S)), Len(ss) \in 1..3
  PROVE  /\ Len(ss) = 1 => FlattenSeq(ss) = ss[1]
         /\ Len(ss) = 2 => FlattenSeq(ss) = ss[1] \o ss[2]
         /\ Len(ss) = 3 => FlattenSeq(ss) = (ss[1] \o ss[2]) \o ss[3]
<1> DEFINE F(f) == f = [k \in 1..Len(ss) |-> IF k = 1 THEN ss[k] ELSE f[k - 1] \o ss[k]]
           f == CHOOSE f : F(f)
<1>0. /\ \A n \in 1..3 : /\ 1 \in 1..n /\ (n \in {2, 3} => 2 \in 1..n)
                         /\ (n = 3 => 3 \in 1..n)
                         /\ \A k \in 1..n : k \in {1, 2, 3} /\ (k = 3 => 2 \in 1..n)
      /\ 2 - 1 = 1 /\ 3 - 1 = 2 /\ 2 # 1 /\ 3 # 1 /\ 3 # 2
  OBVIOUS
<1>1. FlattenSeq(ss) = f[Len(ss)]
  BY DEF FlattenSeq
<1>2. \E g : F(g)
  <2> DEFINE g == [k \in 1..Len(ss) |-> IF k = 1 THEN ss[1]
                                        ELSE IF k = 2 THEN ss[1] \o ss[2]
                                        ELSE (ss[1] \o ss[2]) \o ss[3]]
  <2>1. ASSUME NEW k \in 1..Len(ss)
        PROVE  g[k] = IF k = 1 THEN ss[k] ELSE g[k - 1] \o ss[k]
    <3>1. k \in {1, 2, 3} /\ 2 - 1 = 1 /\ 3 - 1 = 2 /\ 2 # 1 /\ 3 # 1 /\ 3 # 2
      BY <1>0, Zenon
    <3>2. /\ 1 \in 1..Len(ss)
          /\ k = 3 => 2 \in 1..Len(ss)
      OBVIOUS
    <3>3. CASE k = 1
      BY <3>3, Zenon
    <3>4. CASE k = 2
      BY <3>1, <3>2, <3>4, Zenon
    <3>5. CASE k = 3
      BY <3>1, <3>2, <3>5, Zenon
    <3> QED BY <3>1, <3>3, <3>4, <3>5, Zenon
  <2>2. g = [k \in 1..Len(ss) |-> g[k]]
    OBVIOUS
  <2> HIDE DEF g
  <2>3. F(g)
    BY <2>1, <2>2
  <2> QED BY <2>3
<1> HIDE DEF F
<1>3. F(f)
  BY <1>2
<1> HIDE DEF f
<1>4. \A k \in 1..Len(ss) : f[k] = IF k = 1 THEN ss[k] ELSE f[k - 1] \o ss[k]
  BY <1>3 DEF F
<1>5. /\ 1 \in 1..Len(ss) /\ (Len(ss) \in {2, 3} => 2 \in 1..Len(ss))
      /\ (Len(ss) = 3 => 3 \in 1..Len(ss))
      /\ 2 - 1 = 1 /\ 3 - 1 = 2 /\ 2 # 1 /\ 3 # 1
  BY <1>0, Zenon
<1>6. f[1] = ss[1]
  BY <1>4, <1>5, Zenon
<1>7. Len(ss) \in {2, 3} => f[2] = ss[1] \o ss[2]
  BY <1>4, <1>5, <1>6, Zenon
<1>8. Len(ss) = 3 => f[3] = (ss[1] \o ss[2]) \o ss[3]
  BY <1>4, <1>5, <1>7, Zenon
<1> QED BY <1>1, <1>6, <1>7, <1>8, Zenon

(* The calls of serial_write send one after the other. *)
LEMMA FlattenStep ==
  ASSUME NEW ws \in Seq(WriteCall), ws # <<>>, Len(ws) <= 3, NEW n \in Nat
  PROVE  /\ FlattenSeq(Chunks(ws, n)) = Chunk(Head(ws), n) \o FlattenSeq(Chunks(Tail(ws), 0))
         /\ FlattenSeq(Chunks(Tail(ws), 0)) \in Seq(Chars)
         /\ FlattenSeq(Chunks(ws, n)) \in Seq(Chars)
<1>0. Len(ws) \in 1..3 /\ Head(ws) = ws[1]
  <2>1. Len(ws) \in Nat /\ Len(ws) # 0
    BY EmptySeq, LenProperties
  <2>2. Len(ws) \in 1..3
    <3>1. \A l \in Nat : l # 0 /\ l <= 3 => l \in 1..3
      OBVIOUS
    <3> QED BY <2>1, <3>1, Zenon
  <2>3. Head(ws) = ws[1]
    BY HeadIs, Zenon
  <2> QED BY <2>2, <2>3
<1> DEFINE ts == Tail(ws)
           a == Chunk(ws[1], n)
           b == Chunk(ws[2], 0)
           c == Chunk(ws[3], 0)
           cs == Chunks(ws, n)
           ct == Chunks(ts, 0)
<1>1. /\ Len(ws) \in 1..3 /\ ts \in Seq(WriteCall) /\ Len(ts) = Len(ws) - 1
      /\ Head(ws) = ws[1] /\ \A k \in 1..Len(ws) : ws[k] \in WriteCall
      /\ \A k \in 1..Len(ts) : ts[k] = ws[k + 1]
  <2>2. \A k \in 1..Len(ws) : ws[k] \in WriteCall
    BY ElementOfSeq
  <2>3. /\ ts \in Seq(WriteCall) /\ Len(ts) = Len(ws) - 1
        /\ \A k \in 1..Len(ts) : ts[k] = ws[k + 1]
    BY HeadTailProperties
  <2> QED BY <1>0, <2>2, <2>3
<1>2. /\ \A k \in 1..Len(ws) : cs[k] = Chunk(ws[k], IF k = 1 THEN n ELSE 0)
      /\ \A k \in 1..Len(ws) : cs[k] \in Seq(Chars)
      /\ cs = [k \in 1..Len(ws) |-> cs[k]]
  <2>1. \A k \in 1..Len(ws) : cs[k] = Chunk(ws[k], IF k = 1 THEN n ELSE 0)
    BY DEF Chunks
  <2>2. ASSUME NEW k \in 1..Len(ws) PROVE cs[k] \in Seq(Chars)
    <3>1. ws[k] \in WriteCall /\ (IF k = 1 THEN n ELSE 0) \in Nat
      BY <1>1
    <3> QED BY <2>1, <3>1, ChunkIs
  <2> QED BY <2>1, <2>2, Zenon DEF Chunks
<1>3. /\ \A k \in 1..Len(ts) : ct[k] = Chunk(ts[k], 0)
      /\ \A k \in 1..Len(ts) : ct[k] \in Seq(Chars)
      /\ ct = [k \in 1..Len(ts) |-> ct[k]]
  <2>1. \A k \in 1..Len(ts) : ct[k] = Chunk(ts[k], 0)
    BY DEF Chunks
  <2>2. ASSUME NEW k \in 1..Len(ts) PROVE ct[k] \in Seq(Chars)
    <3>1. ts[k] \in WriteCall /\ 0 \in Nat
      BY <1>1
    <3> QED BY <2>1, <3>1, ChunkIs
  <2> QED BY <2>1, <2>2, Zenon DEF Chunks
<1> HIDE DEF ts, cs, ct
<1>4. cs \in Seq(Seq(Chars)) /\ Len(cs) = Len(ws)
  <2>1. Len(ws) \in Nat
    BY <1>1
  <2>2. [k \in 1..Len(ws) |-> cs[k]] \in Seq(Seq(Chars))
    BY <1>2, <2>1, IsASeq
  <2>3. Len([k \in 1..Len(ws) |-> cs[k]]) = Len(ws)
    BY <2>1
  <2> QED BY <1>2, <2>2, <2>3, Zenon
<1>5. ct \in Seq(Seq(Chars)) /\ Len(ct) = Len(ts)
  <2>1. Len(ts) \in Nat
    BY <1>1
  <2>2. [k \in 1..Len(ts) |-> ct[k]] \in Seq(Seq(Chars))
    BY <1>3, <2>1, IsASeq
  <2>3. Len([k \in 1..Len(ts) |-> ct[k]]) = Len(ts)
    BY <2>1
  <2> QED BY <1>3, <2>2, <2>3, Zenon
<1>6. cs[1] = a /\ a \in Seq(Chars)
  <2>1. 1 \in 1..Len(ws)
    BY <1>1
  <2> QED BY <1>2, <2>1, Zenon
<1>7. Len(ws) \in {2, 3} => cs[2] = b /\ ct[1] = b /\ b \in Seq(Chars)
  <2>1. Len(ws) \in {2, 3} => /\ 2 \in 1..Len(ws) /\ 1 \in 1..Len(ts) /\ ts[1] = ws[2]
                              /\ 2 # 1
    BY <1>1
  <2> QED BY <1>2, <1>3, <2>1, Zenon
<1>8. Len(ws) = 3 => cs[3] = c /\ ct[2] = c /\ c \in Seq(Chars)
  <2>1. Len(ws) = 3 => /\ 3 \in 1..Len(ws) /\ 2 \in 1..Len(ts) /\ ts[2] = ws[3]
                       /\ 3 # 1
    BY <1>1
  <2> QED BY <1>2, <1>3, <2>1, Zenon
<1> HIDE DEF a, b, c
<1>9. /\ FlattenSeq(cs) = a \o FlattenSeq(ct)
      /\ FlattenSeq(ct) \in Seq(Chars) /\ FlattenSeq(cs) \in Seq(Chars)
  <2>1. CASE Len(ws) = 1
    <3>1. Len(cs) = 1 /\ Len(cs) \in 1..3 /\ Len(ct) = 0
      BY <1>1, <1>4, <1>5, <2>1
    <3>2. ct = <<>>
      BY <1>5, <3>1
    <3>3. FlattenSeq(ct) = <<>> /\ <<>> \in Seq(Chars)
      BY <3>1, <3>2 DEF FlattenSeq
    <3>4. FlattenSeq(cs) = a
      BY <1>4, <1>6, <3>1, FlattenIs, Zenon
    <3>5. a \o <<>> = a
      BY <1>6, ConcatEmptySeq, Zenon
    <3> QED BY <1>6, <3>3, <3>4, <3>5, Zenon
  <2>2. CASE Len(ws) = 2
    <3>1. Len(cs) = 2 /\ Len(cs) \in 1..3 /\ Len(ct) = 1 /\ Len(ct) \in 1..3
      BY <1>1, <1>4, <1>5, <2>2
    <3>2. b \in Seq(Chars) /\ cs[2] = b /\ ct[1] = b
      BY <1>7, <2>2
    <3>3. FlattenSeq(ct) = b
      BY <1>5, <3>1, <3>2, FlattenIs, Zenon
    <3>4. FlattenSeq(cs) = a \o b
      BY <1>4, <1>6, <3>1, <3>2, FlattenIs, Zenon
    <3>5. a \o b \in Seq(Chars)
      BY <1>6, <3>2, ConcatProperties, Zenon
    <3> QED BY <3>2, <3>3, <3>4, <3>5, Zenon
  <2>3. CASE Len(ws) = 3
    <3>1. Len(cs) = 3 /\ Len(cs) \in 1..3 /\ Len(ct) = 2 /\ Len(ct) \in 1..3
      BY <1>1, <1>4, <1>5, <2>3
    <3>2. b \in Seq(Chars) /\ cs[2] = b /\ ct[1] = b /\ c \in Seq(Chars) /\ cs[3] = c /\ ct[2] = c
      BY <1>7, <1>8, <2>3
    <3>3. FlattenSeq(ct) = b \o c
      BY <1>5, <3>1, <3>2, FlattenIs, Zenon
    <3>4. FlattenSeq(cs) = (a \o b) \o c
      BY <1>4, <1>6, <3>1, <3>2, FlattenIs, Zenon
    <3>5. (a \o b) \o c = a \o (b \o c)
      BY <1>6, <3>2, ConcatAssociative
    <3>6. b \o c \in Seq(Chars)
      BY <3>2, ConcatProperties, Zenon
    <3>7. a \o (b \o c) \in Seq(Chars)
      BY <1>6, <3>6, ConcatProperties, Zenon
    <3> QED BY <3>3, <3>4, <3>5, <3>6, <3>7, Zenon
  <2>4. Len(ws) \in {1, 2, 3}
    BY <1>1
  <2> QED BY <2>1, <2>2, <2>3, <2>4, Zenon
<1> QED BY <1>1, <1>9, Zenon DEF a, cs, ct, ts

LEMMA FlattenNone ==
  ASSUME NEW n
  PROVE  FlattenSeq(Chunks(<<>>, n)) = <<>>
<1>1. Len(<<>>) = 0 /\ 1..0 = {}
  OBVIOUS
<1>2. Chunks(<<>>, n) = <<>>
  BY <1>1 DEF Chunks
<1> QED BY <1>1, <1>2, Zenon DEF FlattenSeq

(* What the three calls of a log function send together. *)
LEMMA FlattenLine ==
  ASSUME NEW p \in WriteCall, NEW q \in WriteCall, NEW r \in WriteCall
  PROVE  FlattenSeq(Chunks(<<p, q, r>>, 0)) = (Sent(p) \o Sent(q)) \o Sent(r)
<1>0. 0 \in Nat
  OBVIOUS
<1>1. /\ <<p, q, r>> \in Seq(WriteCall) /\ Len(<<p, q, r>>) <= 3 /\ <<p, q, r>> # <<>>
      /\ Head(<<p, q, r>>) = p /\ Tail(<<p, q, r>>) = <<q, r>>
  OBVIOUS
<1>2. /\ <<q, r>> \in Seq(WriteCall) /\ Len(<<q, r>>) <= 3 /\ <<q, r>> # <<>>
      /\ Head(<<q, r>>) = q /\ Tail(<<q, r>>) = <<r>>
  OBVIOUS
<1>3. /\ <<r>> \in Seq(WriteCall) /\ Len(<<r>>) <= 3 /\ <<r>> # <<>>
      /\ Head(<<r>>) = r /\ Tail(<<r>>) = <<>>
  OBVIOUS
<1>4. /\ Chunk(p, 0) = Sent(p) /\ Chunk(q, 0) = Sent(q) /\ Chunk(r, 0) = Sent(r)
      /\ Sent(p) \in Seq(Chars) /\ Sent(q) \in Seq(Chars) /\ Sent(r) \in Seq(Chars)
  BY <1>0, ChunkIs, Zenon
<1>5. FlattenSeq(Chunks(<<r>>, 0)) = Sent(r)
  <2>1. FlattenSeq(Chunks(<<r>>, 0)) = Sent(r) \o <<>>
    BY <1>0, <1>3, <1>4, FlattenStep, FlattenNone, Zenon
  <2> QED BY <1>4, <2>1, ConcatEmptySeq, Zenon
<1>6. FlattenSeq(Chunks(<<q, r>>, 0)) = Sent(q) \o Sent(r)
  BY <1>0, <1>2, <1>4, <1>5, FlattenStep, Zenon
<1>7. FlattenSeq(Chunks(<<p, q, r>>, 0)) = Sent(p) \o (Sent(q) \o Sent(r))
  BY <1>0, <1>1, <1>4, <1>6, FlattenStep, Zenon
<1>8. (Sent(p) \o Sent(q)) \o Sent(r) = Sent(p) \o (Sent(q) \o Sent(r))
  <2> DEFINE a == Sent(p)
             b == Sent(q)
             c == Sent(r)
  <2>1. a \in Seq(Chars) /\ b \in Seq(Chars) /\ c \in Seq(Chars)
    BY <1>4
  <2> HIDE DEF a, b, c
  <2>2. (a \o b) \o c = a \o (b \o c)
    BY <2>1, ConcatAssociative
  <2> QED BY <2>2 DEF a, b, c
<1> QED BY <1>7, <1>8, Zenon

(* What the log channel has pending. *)
LEMMA PendingIs ==
  ASSUME Inv
  PROVE  /\ Rest \in Seq(Chars) /\ uart.fifo \in Seq(Chars)
         /\ writes = <<>> => Rest = <<>>
         /\ ~serial_open => Pending = <<>>
         /\ serial_open => Pending = uart.fifo \o Rest
<1>1. /\ writes \in Seq(WriteCall) /\ Len(writes) <= 3 /\ i \in 0..(WordSize - 1)
      /\ ~serial_open => uart.fifo = <<>>
  BY DEF Inv, LogInv, UartInv
<1>2. uart.fifo \in Seq(Chars)
  BY DEF Inv, UartInv, UartType
<1>3. writes = <<>> => Rest = <<>>
  BY RestIs, FlattenNone, Zenon
<1>4. writes # <<>> => Rest \in Seq(Chars)
  <2>1. i \in Nat
    BY <1>1, SerialAssumption
  <2> QED BY <1>1, <2>1, RestIs, FlattenStep, Zenon
<1>5. <<>> \in Seq(Chars) /\ <<>> \o <<>> = <<>>
  BY ConcatEmptySeq
<1> QED BY <1>1, <1>2, <1>3, <1>4, <1>5, Zenon DEF Pending

(* A log call through an open port appends a line, any other none. *)
LEMMA LogAppends ==
  ASSUME Inv, Inv', Log
  PROVE  wire' = wire /\ (Pending' = Pending \/ \E l \in CutLines : Pending' = Pending \o l)
<1>1. /\ writes = <<>> /\ i' = i /\ uart' = uart /\ serial_open' = serial_open /\ wire' = wire
  BY DEF Log, Idle, uartVars
<1>2. i = 0
  BY <1>1 DEF Inv, LogInv
<1>3. PICK w \in WriteCall :
         /\ writes' = <<WriteDebug, w, WriteNewLine>>
         /\ Debug \o Sent(w) \o <<NewLine>> \in CutLines
  BY LogCalls, Zenon
<1>4. /\ WriteDebug \in WriteCall /\ WriteNewLine \in WriteCall
      /\ Sent(WriteDebug) = Debug /\ Sent(WriteNewLine) = <<NewLine>>
  BY LogCalls, Zenon
<1>5. Rest' = Debug \o Sent(w) \o <<NewLine>>
  <2>1. Rest' = FlattenSeq(Chunks(writes', i'))
    BY RestNext
  <2>2. FlattenSeq(Chunks(writes', i')) = (Sent(WriteDebug) \o Sent(w)) \o Sent(WriteNewLine)
    BY <1>1, <1>2, <1>3, <1>4, FlattenLine, Zenon
  <2> QED BY <1>4, <2>1, <2>2, Zenon
<1>6. CASE serial_open
  <2>1. Pending = uart.fifo /\ Rest = <<>>
    <3>1. Rest = <<>> /\ Pending = uart.fifo \o Rest /\ uart.fifo \in Seq(Chars)
      BY <1>1, <1>6, PendingIs, Zenon
    <3> QED BY <3>1, ConcatEmptySeq
  <2>2. Pending' = uart'.fifo \o Rest'
    BY <1>1, <1>6, Zenon DEF Pending
  <2>3. Pending' = Pending \o (Debug \o Sent(w) \o <<NewLine>>)
    BY <1>1, <1>5, <2>1, <2>2, Zenon
  <2> QED BY <1>1, <1>3, <2>3, Zenon
<1>7. CASE ~serial_open
  BY <1>1, <1>7, Zenon DEF Pending
<1> QED BY <1>6, <1>7

(* serial_write moves characters into the FIFO, none is lost or added. *)
LEMMA WriteKeeps ==
  ASSUME Inv, Inv', serial_write
  PROVE  wire' = wire /\ Pending' = Pending
<1>0. /\ writes \in Seq(WriteCall) /\ Len(writes) <= 3 /\ i \in Nat /\ i + 1 \in Nat /\ 0 \in Nat
  BY SerialAssumption DEF Inv, LogInv
<1>9. Rest' = FlattenSeq(Chunks(writes', i'))
  BY RestNext
<1>1. CASE Poll
  <2>1. uart' = uart /\ wire' = wire /\ serial_open' = serial_open /\ writes' = writes /\ i' = i
    BY <1>1 DEF Poll, uartVars
  <2>2. Rest' = Rest
    BY <1>9, <2>1, RestIs, Zenon
  <2> QED BY <2>1, <2>2, Zenon DEF Pending
<1>2. CASE SendChar
  <2> DEFINE w == Head(writes)
             ch == CharAt(w, i + 1)
             t == FlattenSeq(Chunks(Tail(writes), 0))
             k == Chunk(w, i + 1)
  <2>1. /\ writes # <<>> /\ serial_open /\ i < Count(w) /\ ready
        /\ uart' = WriteUart(uart, "data", ch) /\ i' = i + 1
        /\ wire' = wire /\ serial_open' = serial_open /\ writes' = writes
    BY <1>2 DEF SendChar, InLoop
  <2>2. w \in WriteCall
    BY <1>0, <2>1, HeadTailProperties
  <2>3. ch \in Chars
    BY <1>0, <2>2, CharIs
  <2>4. Rest = Chunk(w, i) \o t /\ t \in Seq(Chars)
    BY <1>0, <2>1, RestIs, FlattenStep, Zenon
  <2>5. Rest' = k \o t
    BY <1>0, <1>9, <2>1, FlattenStep, Zenon
  <2>6. Chunk(w, i) = <<ch>> \o k /\ k \in Seq(Chars)
    BY <1>0, <2>1, <2>2, ChunkIs, Zenon
  <2>7. uart.fifo = <<>> /\ uart'.fifo = <<ch>>
    <3> HIDE DEF ch
    <3>1. ~Dlab(uart) /\ uart.fifo = <<>> /\ uart \in UartType
      BY <2>1, OpenPort DEF Inv, LogInv, UartInv
    <3>2. uart' = [uart EXCEPT !.fifo = <<ch>>]
      BY <2>1, <2>3, <3>1, DataWrite
    <3> QED BY <3>1, <3>2 DEF UartType
  <2> HIDE DEF ch, t, k, w
  <2>8. (<<ch>> \o k) \o t = <<ch>> \o (k \o t)
    <3>1. <<ch>> \in Seq(Chars)
      BY <2>3
    <3> QED BY <2>4, <2>6, <3>1, ConcatAssociative
  <2>9. Pending = <<>> \o Rest /\ Rest \in Seq(Chars)
    BY <2>1, <2>7, PendingIs, Zenon
  <2>10. Pending = Rest
    BY <2>9, ConcatEmptySeq
  <2>11. Pending' = <<ch>> \o (k \o t)
    BY <2>1, <2>5, <2>7, Zenon DEF Pending
  <2> QED BY <2>1, <2>4, <2>6, <2>8, <2>10, <2>11, Zenon
<1>3. CASE Return
  <2> DEFINE w == Head(writes)
             t == FlattenSeq(Chunks(Tail(writes), 0))
  <2>1. /\ writes # <<>> /\ writes' = Tail(writes) /\ i' = 0
        /\ uart' = uart /\ wire' = wire /\ serial_open' = serial_open
        /\ ~(serial_open /\ i < Count(w))
    BY <1>3 DEF Return, InLoop, uartVars
  <2>2. CASE ~serial_open
    BY <2>1, <2>2, Zenon DEF Pending
  <2>3. CASE serial_open
    <3>1. w \in WriteCall
      BY <1>0, <2>1, HeadTailProperties
    <3>2. i >= Count(w)
      BY <1>0, <2>1, <2>3, <3>1, CountIs, SerialAssumption
    <3>3. Chunk(w, i) = <<>>
      BY <1>0, <3>1, <3>2, ChunkIs, Zenon
    <3>4. Rest = <<>> \o t /\ t \in Seq(Chars)
      BY <1>0, <2>1, <3>3, RestIs, FlattenStep, Zenon
    <3>5. Rest' = t
      BY <1>9, <2>1, Zenon
    <3>6. <<>> \o t = t
      BY <3>4, ConcatEmptySeq
    <3> QED BY <2>1, <3>4, <3>5, <3>6, Zenon DEF Pending
  <2> QED BY <2>2, <2>3
<1> QED BY <1>1, <1>2, <1>3 DEF serial_write

(* The UART sends the first character that is pending. *)
LEMMA TransmitSends ==
  ASSUME Inv, Inv', Transmit
  PROVE  /\ Pending # <<>> /\ wire' = Append(wire, Head(Pending))
         /\ Pending' = Tail(Pending)
<1> DEFINE f == uart.fifo
           r == Rest
<1>1. /\ f # <<>> /\ wire' = Append(wire, Head(f)) /\ uart' = [uart EXCEPT !.fifo = Tail(f)]
      /\ serial_open' = serial_open /\ writes' = writes /\ i' = i
  BY DEF Transmit, logVars
<1>2. Rest' = Rest
  <2>1. Rest' = FlattenSeq(Chunks(writes', i'))
    BY RestNext
  <2> QED BY <1>1, <2>1, RestIs, Zenon
<1>3. uart'.fifo = Tail(f)
  BY <1>1 DEF Inv, UartInv, UartType
<1>4. serial_open
  BY <1>1 DEF Inv, UartInv
<1>5. f \in Seq(Chars) /\ r \in Seq(Chars) /\ Pending = f \o r
  BY <1>4, PendingIs, Zenon
<1>6. Pending' = Tail(f) \o r
  BY <1>1, <1>2, <1>3, <1>4, Zenon DEF Pending
<1> HIDE DEF f, r
<1>7. f \o r # <<>> /\ Head(f \o r) = Head(f) /\ Tail(f \o r) = Tail(f) \o r
  BY <1>1, <1>5, HeadTailOfConcat
<1> QED BY <1>1, <1>5, <1>6, <1>7, Zenon

(* kmain's port writes leave alone what is pending. *)
LEMMA OutbKeeps ==
  ASSUME Inv, Inv', outb
  PROVE  wire' = wire /\ Pending' = Pending
<1>1. /\ outs # <<>> /\ wire' = wire /\ writes' = writes /\ i' = i
  BY DEF outb, logVars
<1>2. writes = <<>> /\ writes' = <<>>
  BY <1>1 DEF Inv, LogInv
<1>3. uart'.fifo = uart.fifo
  BY ConfigureInv, ProgramInv
<1>4. Rest = <<>> /\ Rest' = <<>>
  <2>1. Rest' = FlattenSeq(Chunks(writes', i'))
    BY RestNext
  <2> QED BY <1>2, <2>1, RestIs, FlattenNone, Zenon
<1> QED BY <1>1, <1>3, <1>4, Zenon DEF Pending

(* log.c, serial_write and the UART implement the log channel, its         *)
(* promise about the order and the completeness of what is sent, but for   *)
(* the last digits of a number: every step logs one line, sends the next   *)
(* character or changes nothing that a reader can see.                     *)
THEOREM LogImplemented == Spec => Channel!Init /\ [][Channel!Next]_(Channel!vars)
<1>1. Init => Channel!Init
  <2> SUFFICES ASSUME Init PROVE Channel!Init
    OBVIOUS
  <2>1. wire = <<>> /\ serial_open = FALSE
    BY Zenon DEF Init
  <2>2. Pending = <<>>
    BY <2>1, InitInv, PendingIs
  <2> QED BY <2>1, <2>2, Zenon DEF Channel!Init, Pending
<1>2. ASSUME Inv, Inv', [Next]_vars PROVE [Channel!Next]_(Channel!vars)
  <2>1. CASE Log
    <3>1. CASE Pending' = Pending
      BY <1>2, <2>1, <3>1, LogAppends, Zenon DEF Channel!vars, Pending
    <3>2. CASE \E l \in CutLines : Pending' = Pending \o l
      <4>1. PICK l \in CutLines : Pending' = Pending \o l
        BY <3>2
      <4>2. wire' = wire
        BY <1>2, <2>1, LogAppends
      <4> QED BY <4>1, <4>2, Zenon DEF Channel!Next, Channel!Log, Pending
    <3> QED BY <1>2, <2>1, <3>1, <3>2, LogAppends
  <2>2. CASE Transmit
    <3>1. /\ Pending # <<>> /\ wire' = Append(wire, Head(Pending))
          /\ Pending' = Tail(Pending)
      BY <1>2, <2>2, TransmitSends
    <3> QED BY <3>1, Zenon DEF Channel!Next, Channel!Send, Pending
  <2>3. ASSUME wire' = wire, Pending' = Pending PROVE [Channel!Next]_(Channel!vars)
    BY <2>3, Zenon DEF Channel!vars, Pending
  <2>4. CASE serial_write
    BY <1>2, <2>3, <2>4, WriteKeeps
  <2>5. CASE outb
    BY <1>2, <2>3, <2>5, OutbKeeps
  <2>6. ASSUME uart' = uart, wire' = wire, serial_open' = serial_open, writes' = writes, i' = i
        PROVE  [Channel!Next]_(Channel!vars)
    <3>1. Rest' = FlattenSeq(Chunks(writes', i'))
      BY RestNext
    <3>2. Rest' = Rest
      BY <2>6, <3>1, RestIs, Zenon
    <3>3. Pending' = Pending
      BY <2>6, <3>2, Zenon DEF Pending
    <3> QED BY <2>3, <2>6, <3>3
  <2>7. CASE kmain
    BY <2>6, <2>7 DEF kmain, uartVars, logVars
  <2>8. CASE timer_callback
    BY <2>6, <2>8 DEF timer_callback, uartVars, logVars
  <2>9. CASE UNCHANGED vars
    BY <2>6, <2>9 DEF vars, uartVars, logVars
  <2> QED BY <1>2, <2>1, <2>2, <2>4, <2>5, <2>7, <2>8, <2>9 DEF Next
<1> QED BY <1>1, <1>2, StartupInvariant, PTL DEF Spec

(* Where only texts are logged, as kmain does, the log is whole: nothing   *)
(* is cut, and every step is one of the whole log's.                       *)
THEOREM TextsLoggedWhole ==
  ASSUME Numbers = {}
  PROVE  Spec => WholeLog!Init /\ [][WholeLog!Next]_(WholeLog!vars)
<1>1. CutLines = LogLines
  <2>1. UNION {Prefixes(d) : d \in Numbers} = {}
    BY Zenon
  <2>2. UNION {Prefixes(d) : d \in Numbers} = Numbers
    BY <2>1, Zenon
  <2> QED BY <2>2, Zenon DEF CutLines, LogLines
<1>2. Channel!Init => WholeLog!Init
  BY Zenon DEF Channel!Init, WholeLog!Init
<1>3. [Channel!Next]_(Channel!vars) => [WholeLog!Next]_(WholeLog!vars)
  BY <1>1, Zenon DEF Channel!Next, Channel!Send, Channel!Log, Channel!vars,
                     WholeLog!Next, WholeLog!Send, WholeLog!Log, WholeLog!vars
<1> QED BY <1>2, <1>3, LogImplemented, PTL

=============================================================================
