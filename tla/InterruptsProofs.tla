-------------------------- MODULE InterruptsProofs --------------------------
(***************************************************************************)
(* Proofs about Interrupts, for any set of devices and exceptions, any     *)
(* callbacks and any depth of exceptions within callbacks.                 *)
(***************************************************************************)
EXTENDS Interrupts, TLAPS

PCs == {"stub", "slave_eoi", "master_eoi", "dispatch", "exit", "iret"}

(***************************************************************************)
(* The words on the stack of an activation, at each point of its stub.     *)
(***************************************************************************)
WordsAt(f) ==
  IF f.pc = "stub" THEN (IF f.vec \in PushesErrorCode THEN 4 ELSE 3)
  ELSE IF f.pc = "iret" THEN 3 ELSE 14

(***************************************************************************)
(* The inductive invariant.  Only the running activation is anywhere but   *)
(* at the call of its callback; only the outermost one can be of an IRQ or *)
(* have been entered with interrupts on.                                   *)
(***************************************************************************)
StackInv ==
  /\ IFlag => stack = <<>>
  /\ ~pic => stack = <<>> /\ ~IFlag
  /\ \A i \in 1..Len(stack) :
       /\ stack[i].words = WordsAt(stack[i])
       /\ i < Len(stack) => ~stack[i].flags /\ stack[i].vec < IRQ0
       /\ i > 1 => stack[i].pc = "dispatch"
       /\ stack[i].pc = "master_eoi" => stack[i].vec >= IRQ0
       /\ stack[i].pc = "slave_eoi" => stack[i].vec >= 40

(***************************************************************************)
(* What the controllers may have in service: at most the interrupt that    *)
(* the running activation has yet to acknowledge.                          *)
(***************************************************************************)
MayServe(f) ==
  IF f.vec >= IRQ0 /\ f.pc \in {"stub", "slave_eoi", "master_eoi"}
    THEN {MasterInput(f.vec - IRQ0)} ELSE {}

SlaveMayServe(f) ==
  IF f.vec >= 40 /\ f.pc \in {"stub", "slave_eoi"} THEN {f.vec - IRQ0} ELSE {}

ServiceInv ==
  /\ stack = <<>> => mISR = {} /\ sISR = {}
  /\ stack # <<>> => /\ mISR \subseteq MayServe(stack[1])
                     /\ sISR \subseteq SlaveMayServe(stack[1])

IInv == TypeOK /\ StackInv /\ ServiceInv

-----------------------------------------------------------------------------
(* What the three operations on the stack do.                              *)

(* EnterGate puts one activation on the stack. *)
LEMMA PushFrame ==
  ASSUME TypeOK, NEW v \in Vectors, EnterGate(v)
  PROVE  /\ stack' \in Seq(Frame)
         /\ Len(stack') = Len(stack) + 1
         /\ stack' # <<>>
         /\ stack'[1].vec = v
         /\ stack'[1].flags = IFlag
         /\ stack'[1].pc = "stub"
         /\ stack'[1].words = IF v \in PushesErrorCode THEN 4 ELSE 3
         /\ \A i \in 2..Len(stack') : stack'[i] = stack[i - 1]
         /\ IFlag' = FALSE
<1> DEFINE f == [vec |-> v, flags |-> IFlag, pc |-> "stub",
                 words |-> IF v \in PushesErrorCode THEN 4 ELSE 3]
<1>1. f \in Frame
  BY DEF TypeOK, Frame
<1>2. stack' = <<f>> \o stack
  BY DEF EnterGate
<1>3. stack \in Seq(Frame) /\ <<f>> \in Seq(Frame)
  BY <1>1 DEF TypeOK
<1> HIDE DEF f
<1>4. /\ stack' \in Seq(Frame)
      /\ Len(stack') = Len(stack) + 1
      /\ stack'[1] = f
      /\ \A i \in 2..Len(stack') : stack'[i] = stack[i - 1]
  BY <1>2, <1>3
<1>5. IFlag' = FALSE
  <2>1. IsInterruptGate(GateFlags(v))
    BY DEF IsInterruptGate, GateFlags
  <2> QED
    BY <2>1, Zenon DEF EnterGate
<1>6. stack' # <<>>
  BY <1>4, <1>3
<1>7. /\ f.vec = v
      /\ f.flags = IFlag
      /\ f.pc = "stub"
      /\ f.words = IF v \in PushesErrorCode THEN 4 ELSE 3
  BY DEF f
<1> QED
  BY <1>4, <1>5, <1>6, <1>7

(* Goto moves the running activation and leaves the others alone. *)
LEMMA MoveFrame ==
  ASSUME TypeOK, stack # <<>>, NEW p \in PCs, NEW d \in Int, Goto(p, d)
  PROVE  /\ stack' \in Seq(Frame)
         /\ Len(stack') = Len(stack)
         /\ stack' # <<>>
         /\ stack'[1].vec = stack[1].vec
         /\ stack'[1].flags = stack[1].flags
         /\ stack'[1].pc = p
         /\ stack'[1].words = stack[1].words + d
         /\ \A i \in 2..Len(stack) : stack'[i] = stack[i]
<1>1. stack \in Seq(Frame) /\ Len(stack) \in Nat /\ Len(stack) >= 1
  BY DEF TypeOK
<1>2. stack[1] \in Frame
  BY <1>1
<1> DEFINE f == [vec |-> stack[1].vec, flags |-> stack[1].flags,
                 pc |-> p, words |-> stack[1].words + d]
<1>3. /\ f \in Frame
      /\ f.vec = stack[1].vec
      /\ f.flags = stack[1].flags
      /\ f.pc = p
      /\ f.words = stack[1].words + d
  BY <1>2 DEF Frame, PCs
<1>4. stack' = [stack EXCEPT ![1] = f]
  BY DEF Goto
<1> HIDE DEF f
<1>5. /\ stack' \in Seq(Frame)
      /\ Len(stack') = Len(stack)
      /\ stack'[1] = f
      /\ \A i \in 2..Len(stack) : stack'[i] = stack[i]
  BY <1>1, <1>3, <1>4
<1>6. stack' # <<>>
  BY <1>5, <1>1
<1> QED
  BY <1>3, <1>5, <1>6

(* The iret takes the running activation off. *)
LEMMA PopFrame ==
  ASSUME TypeOK, stack # <<>>, stack' = Tail(stack)
  PROVE  /\ stack' \in Seq(Frame)
         /\ Len(stack') = Len(stack) - 1
         /\ \A i \in 1..Len(stack') : stack'[i] = stack[i + 1]
         /\ stack' = <<>> => Len(stack) = 1
<1>1. stack \in Seq(Frame) /\ Len(stack) \in Nat /\ Len(stack) >= 1
  BY DEF TypeOK
<1>2. stack' \in Seq(Frame) /\ Len(stack') = Len(stack) - 1
  BY <1>1
<1>3. \A i \in 1..Len(stack') : stack'[i] = stack[i + 1]
  BY <1>1, <1>2
<1>4. stack' = <<>> => Len(stack') = 0
  OBVIOUS
<1> QED
  BY <1>1, <1>2, <1>3, <1>4

(* With at most one input in service, an end of interrupt empties the set. *)
LEMMA EndOfOnly ==
  ASSUME NEW x \in Int, NEW S, S \subseteq {x}
  PROVE  EndOfInterrupt(S) = {}
<1>1. \A y \in S : y = x
  OBVIOUS
<1>2. ~(x < x)
  OBVIOUS
<1> QED
  BY <1>1, <1>2 DEF EndOfInterrupt

-----------------------------------------------------------------------------
(* The inductive invariant.                                                *)

(* The vectors of the devices and of the exceptions are apart. *)
LEMMA VectorTypes ==
  /\ Vectors \subseteq 0..47
  /\ \A l \in Lines \cup Spurious : l \in 0..15 /\ IRQ0 + l \in Vectors
  /\ \A v \in Vectors : v < IRQ0 => v \in Exceptions /\ v # 17
  /\ \A v \in Exceptions : v \in Vectors /\ v < IRQ0
<1>1. \A l \in Lines \cup Spurious : l \in 0..15 /\ IRQ0 + l \in Vectors
  <2>1. \A l \in Lines \cup Spurious : l \in 0..15
    BY LinesAssumption
  <2>2. \A l \in Lines \cup Spurious : IRQ0 + l \in Vectors
    BY Zenon DEF Vectors
  <2> QED
    BY <2>1, <2>2
<1>2. \A v \in Exceptions : v \in 0..31 /\ v # 17 /\ v \in Vectors
  BY LinesAssumption DEF Vectors
<1>3. ASSUME NEW v \in Vectors
      PROVE  v \in Exceptions \/ \E l \in Lines \cup Spurious : v = IRQ0 + l
  BY Zenon DEF Vectors
<1>4. ASSUME NEW v \in Vectors
      PROVE  v \in 0..47 /\ (v < IRQ0 => v \in Exceptions /\ v # 17)
  <2>1. CASE v \in Exceptions
    BY <2>1, <1>2 DEF IRQ0
  <2>2. CASE \E l \in Lines \cup Spurious : v = IRQ0 + l
    BY <2>2, <1>1 DEF IRQ0
  <2> QED
    BY <1>3, <2>1, <2>2
<1>5. \A v \in Exceptions : v < IRQ0
  BY <1>2 DEF IRQ0
<1> QED
  BY <1>1, <1>2, <1>4, <1>5

(* The invariant holds when kmain starts. *)
LEMMA InitInv == Init => IInv
<1> SUFFICES ASSUME Init PROVE IInv
  OBVIOUS
<1>1. TypeOK
  <2>1. handlers \in [Vectors -> Callbacks \cup {NoHandler}]
    BY DEF Init
  <2>2. stack \in Seq(Frame)
    BY DEF Init
  <2> QED
    BY <2>1, <2>2 DEF Init, TypeOK
<1>2. StackInv
  BY DEF Init, StackInv
<1>3. ServiceInv
  BY DEF Init, ServiceInv
<1> QED
  BY <1>1, <1>2, <1>3 DEF IInv

(* An activation is entered: the stack below is kmain's or a callback's. *)
LEMMA EnterStackInv ==
  ASSUME IInv, NEW v \in Vectors, EnterGate(v), pic, pic' = pic,
         v >= IRQ0 => IFlag,
         stack # <<>> => At("dispatch")
  PROVE  StackInv'
<1>1. /\ Len(stack') = Len(stack) + 1
      /\ stack' # <<>>
      /\ stack'[1].vec = v
      /\ stack'[1].flags = IFlag
      /\ stack'[1].pc = "stub"
      /\ stack'[1].words = IF v \in PushesErrorCode THEN 4 ELSE 3
      /\ \A i \in 2..Len(stack') : stack'[i] = stack[i - 1]
      /\ IFlag' = FALSE
  BY PushFrame DEF IInv
<1>2. Len(stack) \in Nat
  BY DEF IInv, TypeOK
<1>3. IFlag => Len(stack) = 0
  BY DEF IInv, StackInv
<1>4. ASSUME NEW i \in 1..Len(stack')
      PROVE  /\ stack'[i].words = WordsAt(stack'[i])
             /\ i < Len(stack') => ~stack'[i].flags /\ stack'[i].vec < IRQ0
             /\ i > 1 => stack'[i].pc = "dispatch"
             /\ stack'[i].pc = "master_eoi" => stack'[i].vec >= IRQ0
             /\ stack'[i].pc = "slave_eoi" => stack'[i].vec >= 40
  <2>1. CASE i = 1
    <3>1. /\ stack'[i].words = WordsAt(stack'[i])
          /\ stack'[i].pc = "stub"
          /\ stack'[i].vec = v
      BY <1>1, <2>1 DEF WordsAt
    <3>2. stack'[i].flags = IFlag
      BY <1>1, <2>1
    <3>3. i < Len(stack') => stack # <<>>
      BY <1>1, <1>2, <2>1
    <3>4. stack # <<>> => ~IFlag
      BY Zenon DEF IInv, StackInv
    <3>5. v < IRQ0 \/ v >= IRQ0
      BY VectorTypes DEF IRQ0
    <3>6. i < Len(stack') => ~stack'[i].flags /\ stack'[i].vec < IRQ0
      BY <3>1, <3>2, <3>3, <3>4, <3>5, Zenon
    <3> QED
      BY <3>1, <3>6, <2>1
  <2>2. CASE i > 1
    <3>1. i - 1 \in 1..Len(stack) /\ stack'[i] = stack[i - 1]
      BY <1>1, <1>2, <2>2
    <3>2. /\ stack[i - 1].words = WordsAt(stack[i - 1])
          /\ i - 1 < Len(stack) => ~stack[i - 1].flags /\ stack[i - 1].vec < IRQ0
          /\ i - 1 > 1 => stack[i - 1].pc = "dispatch"
      BY <3>1 DEF IInv, StackInv
    <3>3. stack[i - 1].pc = "dispatch"
      BY <3>1, <3>2, <1>2 DEF At
    <3>4. i < Len(stack') => i - 1 < Len(stack)
      BY <1>1, <1>2
    <3> QED
      BY <3>1, <3>2, <3>3, <3>4
  <2> QED
    BY <2>1, <2>2, <1>1, <1>2
<1> QED
  BY <1>1, <1>4, Zenon DEF StackInv

(* What may be in service on entry to the stub of an IRQ, and after each   *)
(* of the end-of-interrupt commands.                                       *)
LEMMA ServeAtStub ==
  ASSUME NEW f, NEW l \in 0..15, f.vec = IRQ0 + l, f.pc = "stub"
  PROVE  /\ MayServe(f) = {MasterInput(l)}
         /\ SlaveMayServe(f) = IF l >= 8 THEN {l} ELSE {}
<1>1. f.vec - IRQ0 = l /\ f.vec >= IRQ0 /\ (f.vec >= 40 <=> l >= 8)
  BY DEF IRQ0
<1>2. f.pc \in {"stub", "slave_eoi", "master_eoi"} /\ f.pc \in {"stub", "slave_eoi"}
  OBVIOUS
<1>3. MayServe(f) = {MasterInput(l)}
  BY <1>1, <1>2, Zenon DEF MayServe
<1>4. SlaveMayServe(f) = IF f.vec >= 40 THEN {f.vec - IRQ0} ELSE {}
  BY <1>2, Zenon DEF SlaveMayServe
<1> QED
  BY <1>1, <1>3, <1>4

(* The running activation moves on within its stub. *)
LEMMA MoveStackInv ==
  ASSUME IInv, stack # <<>>, NEW p \in PCs, NEW d \in Int, Goto(p, d),
         pic' = pic, IFlag' = FALSE,
         stack'[1].words = WordsAt(stack'[1]),
         p = "master_eoi" => stack[1].vec >= IRQ0,
         p = "slave_eoi" => stack[1].vec >= 40
  PROVE  StackInv'
<1>1. /\ Len(stack') = Len(stack)
      /\ stack' # <<>>
      /\ stack'[1].vec = stack[1].vec
      /\ stack'[1].flags = stack[1].flags
      /\ stack'[1].pc = p
      /\ \A i \in 2..Len(stack) : stack'[i] = stack[i]
  BY MoveFrame DEF IInv
<1>2. Len(stack) \in Nat
  BY DEF IInv, TypeOK
<1>3. pic
  BY Zenon DEF IInv, StackInv
<1>4. ASSUME NEW i \in 1..Len(stack')
      PROVE  /\ stack'[i].words = WordsAt(stack'[i])
             /\ i < Len(stack') => ~stack'[i].flags /\ stack'[i].vec < IRQ0
             /\ i > 1 => stack'[i].pc = "dispatch"
             /\ stack'[i].pc = "master_eoi" => stack'[i].vec >= IRQ0
             /\ stack'[i].pc = "slave_eoi" => stack'[i].vec >= 40
  <2>1. /\ stack[i].words = WordsAt(stack[i])
        /\ i < Len(stack) => ~stack[i].flags /\ stack[i].vec < IRQ0
        /\ i > 1 => stack[i].pc = "dispatch"
        /\ stack[i].pc = "master_eoi" => stack[i].vec >= IRQ0
        /\ stack[i].pc = "slave_eoi" => stack[i].vec >= 40
    BY <1>1, Zenon DEF IInv, StackInv
  <2>2. CASE i = 1
    BY <1>1, <2>1, <2>2
  <2>3. CASE i > 1
    BY <1>1, <1>2, <2>1, <2>3
  <2> QED
    BY <2>2, <2>3, <1>2, <1>1
<1> QED
  BY <1>1, <1>3, <1>4, Zenon DEF StackInv

(* Every step of the specification preserves the invariant. *)
LEMMA NextInv == IInv /\ [Next]_vars => IInv'
<1> SUFFICES ASSUME IInv, [Next]_vars PROVE IInv'
  OBVIOUS
<1> USE DEF IInv
<1>1. CASE init_descriptor_tables
  <2>1. TypeOK'
    BY <1>1 DEF init_descriptor_tables, TypeOK
  <2>2. StackInv'
    BY <1>1 DEF init_descriptor_tables, StackInv, WordsAt
  <2>3. ServiceInv'
    BY <1>1 DEF init_descriptor_tables, ServiceInv
  <2> QED
    BY <2>1, <2>2, <2>3
<1>2. CASE Sti
  <2>1. TypeOK'
    BY <1>2 DEF Sti, TypeOK, picVars
  <2>2. StackInv'
    BY <1>2 DEF Sti, StackInv, WordsAt
  <2>3. ServiceInv'
    BY <1>2 DEF Sti, ServiceInv, picVars
  <2> QED
    BY <2>1, <2>2, <2>3
<1>3. ASSUME NEW n \in Vectors, NEW h \in Callbacks, register_interrupt_handler(n, h)
      PROVE  IInv'
  <2>1. TypeOK'
    BY <1>3 DEF register_interrupt_handler, TypeOK, picVars
  <2>2. StackInv'
    BY <1>3 DEF register_interrupt_handler, StackInv, WordsAt
  <2>3. ServiceInv'
    BY <1>3 DEF register_interrupt_handler, ServiceInv, picVars, MayServe, SlaveMayServe
  <2> QED
    BY <2>1, <2>2, <2>3
<1>4. ASSUME NEW l \in Lines, Raise(l)
      PROVE  IInv'
  <2>1. TypeOK'
    BY <1>4 DEF Raise, TypeOK
  <2>2. StackInv'
    BY <1>4 DEF Raise, StackInv, WordsAt
  <2>3. ServiceInv'
    BY <1>4 DEF Raise, ServiceInv, MayServe, SlaveMayServe, MasterInput
  <2> QED
    BY <2>1, <2>2, <2>3
<1>5. ASSUME NEW l \in Pulsed, Lower(l)
      PROVE  IInv'
  <2>1. TypeOK'
    BY <1>5 DEF Lower, TypeOK, picVars
  <2>2. StackInv'
    BY <1>5 DEF Lower, StackInv, WordsAt
  <2>3. ServiceInv'
    BY <1>5 DEF Lower, ServiceInv, picVars, MayServe, SlaveMayServe, MasterInput
  <2> QED
    BY <2>1, <2>2, <2>3
<1>6. ASSUME NEW l \in Lines, TakeIrq(l)
      PROVE  IInv'
  <2>0. /\ EnterGate(IRQ0 + l) /\ IRQ0 + l \in Vectors /\ IFlag /\ l \in 0..15
        /\ stack = <<>> /\ pic
    <3>1. IRQ0 + l \in Vectors /\ l \in 0..15
      BY VectorTypes
    <3>2. EnterGate(IRQ0 + l) /\ IFlag
      BY <1>6, Zenon DEF TakeIrq
    <3> QED
      BY <3>1, <3>2, Zenon DEF StackInv
  <2>1. TypeOK'
    <3>1. stack' \in Seq(Frame) /\ IFlag' = FALSE
      BY <2>0, PushFrame
    <3>2. mISR' \subseteq 0..7 /\ sISR' \subseteq 8..15
      BY <1>6, <2>0 DEF TakeIrq, TypeOK, MasterInput
    <3> QED
      BY <1>6, <3>1, <3>2 DEF TakeIrq, TypeOK
  <2>2. StackInv'
    BY <1>6, <2>0, EnterStackInv DEF TakeIrq
  <2>3. ServiceInv'
    <3>1. stack' # <<>> /\ stack'[1].vec = IRQ0 + l /\ stack'[1].pc = "stub"
      BY <2>0, PushFrame
    <3>2. /\ mISR' = {MasterInput(l)}
          /\ sISR' = IF l >= 8 THEN {l} ELSE {}
      BY <1>6, <2>0 DEF TakeIrq, ServiceInv
    <3> QED
      BY <3>1, <3>2, <2>0, ServeAtStub DEF ServiceInv
  <2> QED
    BY <2>1, <2>2, <2>3
<1>7. ASSUME NEW l \in Spurious, TakeSpurious(l)
      PROVE  IInv'
  <2>0. /\ EnterGate(IRQ0 + l) /\ IRQ0 + l \in Vectors /\ IFlag /\ l \in 0..15
        /\ stack = <<>> /\ pic
    <3>1. IRQ0 + l \in Vectors /\ l \in 0..15
      BY VectorTypes
    <3>2. EnterGate(IRQ0 + l) /\ IFlag
      BY <1>7, Zenon DEF TakeSpurious
    <3> QED
      BY <3>1, <3>2, Zenon DEF StackInv
  <2>1. TypeOK'
    <3>1. stack' \in Seq(Frame) /\ IFlag' = FALSE
      BY <2>0, PushFrame
    <3>2. mISR' \subseteq 0..7
      BY <1>7, <2>0 DEF TakeSpurious, TypeOK, MasterInput
    <3> QED
      BY <1>7, <3>1, <3>2 DEF TakeSpurious, TypeOK
  <2>2. StackInv'
    BY <1>7, <2>0, EnterStackInv DEF TakeSpurious
  <2>3. ServiceInv'
    <3>1. stack' # <<>> /\ stack'[1].vec = IRQ0 + l /\ stack'[1].pc = "stub"
      BY <2>0, PushFrame
    <3>2. mISR' \subseteq {MasterInput(l)} /\ sISR' = {}
      BY <1>7, <2>0 DEF TakeSpurious, ServiceInv
    <3> QED
      BY <3>1, <3>2, <2>0, ServeAtStub DEF ServiceInv
  <2> QED
    BY <2>1, <2>2, <2>3
<1>8. ASSUME NEW v \in Exceptions, RaiseException(v)
      PROVE  IInv'
  <2>0. /\ EnterGate(v) /\ v \in Vectors /\ v < IRQ0 /\ v \in 0..47 /\ pic
        /\ (stack # <<>> => At("dispatch"))
    BY <1>8, VectorTypes DEF RaiseException
  <2>1. TypeOK'
    <3>1. stack' \in Seq(Frame) /\ IFlag' = FALSE
      BY <2>0, PushFrame
    <3> QED
      BY <1>8, <3>1 DEF RaiseException, TypeOK, picVars
  <2>2. StackInv'
    <3>1. ~(v >= IRQ0)
      BY <2>0 DEF IRQ0
    <3>2. pic' = pic
      BY <1>8 DEF RaiseException
    <3> QED
      BY <2>0, <3>1, <3>2, EnterStackInv
  <2>3. ServiceInv'
    <3>1. mISR = {} /\ sISR = {}
      <4>1. CASE stack = <<>>
        BY <4>1 DEF ServiceInv
      <4>2. CASE stack # <<>>
        <5>1. stack[1].pc = "dispatch"
          BY <4>2, <2>0 DEF At
        <5> QED
          BY <4>2, <5>1 DEF ServiceInv, MayServe, SlaveMayServe
      <4> QED
        BY <4>1, <4>2
    <3>2. stack' # <<>>
      BY <2>0, PushFrame
    <3> QED
      BY <1>8, <3>1, <3>2 DEF RaiseException, picVars, ServiceInv
  <2> QED
    BY <2>1, <2>2, <2>3
<1>9. CASE StubEnter
  <2>0. stack # <<>> /\ stack[1].pc = "stub" /\ stack[1] \in Frame
    BY <1>9 DEF StubEnter, At, TypeOK
  <2> DEFINE v == stack[1].vec
             p == IF v < IRQ0 THEN "dispatch"
                  ELSE IF v >= 40 THEN "slave_eoi" ELSE "master_eoi"
             d == (IF v \in ErrCodeStubs THEN 0 ELSE 1) + 1 + 8 + 1
  <2>1. v \in Vectors /\ v \in 0..47 /\ p \in PCs /\ d \in Int /\ Goto(p, d)
    <3>1. v \in Vectors /\ v \in 0..47
      BY <2>0, VectorTypes DEF Frame
    <3>2. Goto(p, d)
      BY <1>9 DEF StubEnter
    <3> QED
      BY <3>1, <3>2 DEF PCs
  <2>2. /\ stack' \in Seq(Frame)
        /\ stack' # <<>>
        /\ stack'[1].vec = v
        /\ stack'[1].pc = p
        /\ stack'[1].words = stack[1].words + d
    BY <2>0, <2>1, MoveFrame
  <2>3. stack'[1].words = 14
    <3>1. stack[1].words = IF v \in PushesErrorCode THEN 4 ELSE 3
      BY <2>0 DEF StackInv, WordsAt, TypeOK
    <3>2. v \in PushesErrorCode <=> v \in ErrCodeStubs
      BY <2>1, VectorTypes DEF PushesErrorCode, ErrCodeStubs, IRQ0
    <3> QED
      BY <3>1, <3>2, <2>2
  <2>4. StackInv'
    <3>1. stack'[1].words = WordsAt(stack'[1])
      BY <2>2, <2>3 DEF WordsAt
    <3>2. pic' = pic /\ IFlag' = FALSE
      BY <1>9 DEF StubEnter
    <3>3. (p = "master_eoi" => v >= IRQ0) /\ (p = "slave_eoi" => v >= 40)
      BY <2>1 DEF IRQ0
    <3> QED
      BY <2>0, <2>1, <3>1, <3>2, <3>3, MoveStackInv
  <2>5. ServiceInv'
    <3>1. /\ mISR \subseteq MayServe(stack[1])
          /\ sISR \subseteq SlaveMayServe(stack[1])
          /\ mISR' = mISR /\ sISR' = sISR
      BY <1>9, <2>0 DEF ServiceInv, StubEnter, picVars
    <3>2. /\ v >= IRQ0 => stack'[1].pc \in {"stub", "slave_eoi", "master_eoi"}
          /\ v >= 40 => stack'[1].pc \in {"stub", "slave_eoi"}
      <4>1. /\ v >= IRQ0 => p \in {"stub", "slave_eoi", "master_eoi"}
            /\ v >= 40 => p \in {"stub", "slave_eoi"}
        <5>1. v \in Int
          BY <2>1
        <5> QED
          BY <5>1 DEF IRQ0
      <4> QED
        BY <2>2, <4>1, Zenon
    <3>3. /\ MayServe(stack[1]) \subseteq MayServe(stack'[1])
          /\ SlaveMayServe(stack[1]) \subseteq SlaveMayServe(stack'[1])
      BY <2>2, <3>2, Zenon DEF MayServe, SlaveMayServe
    <3> QED
      BY <2>2, <3>1, <3>2, <3>3 DEF ServiceInv
  <2>6. TypeOK'
    BY <1>9, <2>2 DEF StubEnter, TypeOK, picVars
  <2> QED
    BY <2>4, <2>5, <2>6
<1>10. CASE SendSlaveEoi
  <2>0. stack # <<>> /\ stack[1].pc = "slave_eoi" /\ stack[1] \in Frame
    BY <1>10 DEF SendSlaveEoi, At, TypeOK
  <2>1. /\ stack[1].vec >= 40 /\ stack[1].vec >= IRQ0 /\ stack[1].words = 14
        /\ stack[1].vec - IRQ0 \in Int
    <3>1. stack[1].vec \in 0..47
      BY <2>0, VectorTypes DEF Frame
    <3>2. stack[1].vec >= 40 /\ stack[1].words = 14
      BY <2>0, <3>1 DEF StackInv, WordsAt, TypeOK
    <3> QED
      BY <3>1, <3>2 DEF IRQ0
  <2>2. "master_eoi" \in PCs /\ 0 \in Int /\ Goto("master_eoi", 0)
    BY <1>10 DEF SendSlaveEoi, PCs
  <2>3. /\ stack' \in Seq(Frame)
        /\ stack' # <<>>
        /\ stack'[1].vec = stack[1].vec
        /\ stack'[1].pc = "master_eoi"
        /\ stack'[1].words = 14
    BY <2>0, <2>1, <2>2, MoveFrame
  <2>4. pic' = pic /\ IFlag' = FALSE
    <3>1. ~IFlag
      BY <2>0, Zenon DEF StackInv
    <3> QED
      BY <1>10, <3>1, Zenon DEF SendSlaveEoi, TypeOK
  <2>5. StackInv'
    <3>1. stack'[1].words = WordsAt(stack'[1])
      BY <2>3 DEF WordsAt
    <3> QED
      BY <2>0, <2>1, <2>2, <2>4, <3>1, MoveStackInv
  <2>6. sISR' = {} /\ mISR' = mISR
    <3>1. sISR \subseteq {stack[1].vec - IRQ0}
      BY <2>0 DEF ServiceInv, SlaveMayServe
    <3>2. EndOfInterrupt(sISR) = {}
      BY <2>1, <3>1, EndOfOnly
    <3> QED
      BY <1>10, <3>2 DEF SendSlaveEoi
  <2>7. ServiceInv'
    <3>1. mISR \subseteq {MasterInput(stack[1].vec - IRQ0)}
      BY <2>0 DEF ServiceInv, MayServe
    <3>2. MayServe(stack'[1]) = {MasterInput(stack[1].vec - IRQ0)}
      BY <2>1, <2>3 DEF MayServe
    <3> QED
      BY <2>3, <2>6, <3>1, <3>2 DEF ServiceInv
  <2>8. TypeOK'
    BY <1>10, <2>3, <2>4, <2>6 DEF SendSlaveEoi, TypeOK
  <2> QED
    BY <2>5, <2>7, <2>8
<1>11. CASE SendMasterEoi
  <2>0. stack # <<>> /\ stack[1].pc = "master_eoi" /\ stack[1] \in Frame
    BY <1>11 DEF SendMasterEoi, At, TypeOK
  <2>1. stack[1].vec \in 0..47 /\ stack[1].vec >= IRQ0 /\ stack[1].words = 14
    <3>1. stack[1].vec \in 0..47
      BY <2>0, VectorTypes DEF Frame
    <3> QED
      BY <2>0, <3>1 DEF StackInv, WordsAt, TypeOK
  <2>2. "dispatch" \in PCs /\ 0 \in Int /\ Goto("dispatch", 0)
    BY <1>11 DEF SendMasterEoi, PCs
  <2>3. /\ stack' \in Seq(Frame)
        /\ stack' # <<>>
        /\ stack'[1].pc = "dispatch"
        /\ stack'[1].words = 14
    BY <2>0, <2>1, <2>2, MoveFrame
  <2>4. pic' = pic /\ IFlag' = FALSE
    <3>1. ~IFlag
      BY <2>0, Zenon DEF StackInv
    <3> QED
      BY <1>11, <3>1, Zenon DEF SendMasterEoi, TypeOK
  <2>5. StackInv'
    <3>1. stack'[1].words = WordsAt(stack'[1])
      BY <2>3 DEF WordsAt
    <3> QED
      BY <2>0, <2>2, <2>4, <3>1, MoveStackInv
  <2>6. mISR' = {} /\ sISR' = {}
    <3>1. mISR \subseteq {MasterInput(stack[1].vec - IRQ0)} /\ sISR = {}
      BY <2>0 DEF ServiceInv, MayServe, SlaveMayServe
    <3>2. MasterInput(stack[1].vec - IRQ0) \in Int
      BY <2>1 DEF MasterInput, IRQ0
    <3>3. EndOfInterrupt(mISR) = {}
      BY <3>1, <3>2, EndOfOnly
    <3> QED
      BY <1>11, <3>1, <3>3 DEF SendMasterEoi
  <2>7. ServiceInv'
    BY <2>3, <2>6 DEF ServiceInv
  <2>8. TypeOK'
    BY <1>11, <2>3, <2>4, <2>6 DEF SendMasterEoi, TypeOK
  <2> QED
    BY <2>5, <2>7, <2>8
<1>12. CASE Dispatch \/ StubExit
  <2> DEFINE p == IF Dispatch THEN "exit" ELSE "iret"
             d == IF Dispatch THEN 0 ELSE -(1 + 8 + 2)
  <2>0. /\ stack # <<>>
        /\ Dispatch => stack[1].pc = "dispatch"
        /\ ~Dispatch => stack[1].pc = "exit"
        /\ stack[1] \in Frame
    BY <1>12 DEF Dispatch, StubExit, At, TypeOK
  <2>1. stack[1].words = 14
    BY <2>0 DEF StackInv, WordsAt, TypeOK
  <2>2. p \in PCs /\ d \in Int /\ Goto(p, d)
    BY <1>12 DEF Dispatch, StubExit, PCs
  <2>3. /\ stack' \in Seq(Frame)
        /\ stack' # <<>>
        /\ stack'[1].pc = p
        /\ stack'[1].words = 14 + d
    BY <2>0, <2>1, <2>2, MoveFrame
  <2>4. pic' = pic /\ IFlag' = FALSE
    <3>1. ~IFlag
      BY <2>0, Zenon DEF StackInv
    <3> QED
      BY <1>12, <3>1, Zenon DEF Dispatch, StubExit, TypeOK
  <2>5. StackInv'
    <3>1. stack'[1].words = WordsAt(stack'[1])
      BY <2>3 DEF WordsAt
    <3>2. p # "master_eoi" /\ p # "slave_eoi"
      OBVIOUS
    <3> QED
      BY <2>0, <2>2, <2>4, <3>1, <3>2, MoveStackInv
  <2>6. mISR' = {} /\ sISR' = {}
    <3>1. mISR = {} /\ sISR = {}
      BY <2>0 DEF ServiceInv, MayServe, SlaveMayServe
    <3> QED
      BY <1>12, <3>1 DEF Dispatch, StubExit, picVars
  <2>7. ServiceInv'
    BY <2>3, <2>6 DEF ServiceInv
  <2>8. TypeOK'
    BY <1>12, <2>3, <2>4, <2>6 DEF Dispatch, StubExit, TypeOK, picVars
  <2> QED
    BY <2>5, <2>7, <2>8
<1>13. CASE StiIret
  <2>0. /\ stack # <<>> /\ stack[1].pc = "iret" /\ stack' = Tail(stack)
        /\ stack \in Seq(Frame) /\ stack[1] \in Frame /\ Len(stack) \in Nat
    BY <1>13 DEF StiIret, At, TypeOK
  <2>1. /\ stack' \in Seq(Frame)
        /\ Len(stack') = Len(stack) - 1
        /\ \A i \in 1..Len(stack') : stack'[i] = stack[i + 1]
        /\ stack' = <<>> => Len(stack) = 1
    BY <2>0, PopFrame
  <2>2. mISR' = {} /\ sISR' = {}
    BY <1>13, <2>0 DEF ServiceInv, MayServe, SlaveMayServe, StiIret, picVars
  <2>3. ServiceInv'
    BY <2>2 DEF ServiceInv
  <2>4. TypeOK'
    <3>1. IFlag' \in BOOLEAN
      BY <1>13, <2>0, Zenon DEF StiIret, Frame
    <3> QED
      BY <1>13, <2>1, <3>1 DEF StiIret, TypeOK, picVars
  <2>5. IFlag' => stack' = <<>>
    <3>1. IFlag' => stack[1].flags
      BY <1>13, Zenon DEF StiIret
    <3>2. stack[1].flags => ~(1 < Len(stack))
      <4>1. 1 \in 1..Len(stack)
        BY <2>0
      <4> QED
        BY <4>1, Zenon DEF StackInv
    <3>3. ~(1 < Len(stack)) => Len(stack') = 0
      BY <2>0, <2>1
    <3>4. Len(stack') = 0 => stack' = <<>>
      BY <2>1
    <3> QED
      BY <3>1, <3>2, <3>3, <3>4, Zenon
  <2>6. pic'
    <3>1. pic
      BY <2>0, Zenon DEF StackInv
    <3> QED
      BY <1>13, <3>1, Zenon DEF StiIret
  <2>7. ASSUME NEW i \in 1..Len(stack')
        PROVE  /\ stack'[i].words = WordsAt(stack'[i])
               /\ i < Len(stack') => ~stack'[i].flags /\ stack'[i].vec < IRQ0
               /\ stack'[i].pc = "dispatch"
    <3>1. /\ i + 1 \in 1..Len(stack) /\ stack'[i] = stack[i + 1] /\ i + 1 > 1
          /\ i < Len(stack') => i + 1 < Len(stack)
      BY <2>0, <2>1
    <3>2. /\ stack[i + 1].words = WordsAt(stack[i + 1])
          /\ i + 1 < Len(stack) => ~stack[i + 1].flags /\ stack[i + 1].vec < IRQ0
          /\ i + 1 > 1 => stack[i + 1].pc = "dispatch"
      BY <3>1, Zenon DEF StackInv
    <3> QED
      BY <3>1, <3>2
  <2>8. StackInv'
    BY <2>5, <2>6, <2>7 DEF StackInv
  <2> QED
    BY <2>3, <2>4, <2>8
<1>14. CASE UNCHANGED vars
  <2>1. TypeOK'
    BY <1>14 DEF vars, TypeOK
  <2>2. StackInv'
    BY <1>14 DEF vars, StackInv, WordsAt
  <2>3. ServiceInv'
    BY <1>14 DEF vars, ServiceInv, MayServe, SlaveMayServe, MasterInput
  <2> QED
    BY <2>1, <2>2, <2>3
<1> QED
  BY <1>1, <1>2, <1>3, <1>4, <1>5, <1>6, <1>7, <1>8, <1>9, <1>10, <1>11, <1>12,
     <1>13, <1>14 DEF Next, Stub

(* The invariant holds in every state. *)
LEMMA InvHolds == Spec => []IInv
BY InitInv, NextInv, PTL DEF Spec

-----------------------------------------------------------------------------
(* The properties.                                                         *)

(* The variables keep their types. *)
THEOREM TypeCorrect == Spec => []TypeOK
<1>1. IInv => TypeOK
  BY DEF IInv
<1> QED
  BY InvHolds, <1>1, PTL

(* While a stub or a callback runs, interrupts are off, and an IRQ is      *)
(* always the outermost activation on the kernel's stack (the gates, cli   *)
(* and sti; iret of interrupt.s): callbacks are not interrupted.           *)
THEOREM HandlersDoNotNest == Spec => []NoNesting
<1>1. IInv => NoNesting
  <2> SUFFICES ASSUME IInv PROVE NoNesting
    OBVIOUS
  <2>1. IFlag => stack = <<>>
    BY Zenon DEF IInv, StackInv
  <2>2. ASSUME NEW i \in 1..Len(stack), stack[i].vec >= IRQ0
        PROVE  i = Len(stack)
    <3>1. stack[i] \in Frame /\ Len(stack) \in Nat
      BY DEF IInv, TypeOK
    <3>2. stack[i].vec \in 0..47
      BY <3>1, VectorTypes DEF Frame
    <3>3. \A v \in 0..47 : v >= IRQ0 => ~(v < IRQ0)
      BY DEF IRQ0
    <3>4. ~(i < Len(stack))
      BY <2>2, <3>2, <3>3, Zenon DEF IInv, StackInv
    <3> QED
      BY <3>1, <3>4
  <2> QED
    BY <2>1, <2>2 DEF NoNesting
<1> QED
  BY InvHolds, <1>1, PTL

(* The end-of-interrupt commands of irq_handler leave nothing in service:  *)
(* no line is silenced by an interrupt that was already handled.           *)
THEOREM EverythingAcknowledged == Spec => []NothingLeftInService
<1>1. IInv => NothingLeftInService
  BY DEF IInv, ServiceInv, MayServe, SlaveMayServe, NothingLeftInService
<1> QED
  BY InvHolds, <1>1, PTL

(* Every path through the stubs leaves exactly the frame of the CPU for    *)
(* the iret, with and without an error code.                               *)
THEOREM StubsBalanceStack == Spec => []IretFrameIntact
<1>1. IInv => IretFrameIntact
  BY DEF IInv, StackInv, WordsAt, IretFrameIntact, At, TypeOK
<1> QED
  BY InvHolds, <1>1, PTL

(* Interrupts are turned on by kmain's sti and by returns to code that ran *)
(* with them on, never by the sti of a stub.                               *)
THEOREM StubsDoNotEnable == Spec => OnlyStiEnables
<1>1. IInv /\ [Next]_vars
        => [(~IFlag /\ IFlag') => stack = <<>> \/ (Len(stack) = 1 /\ stack[1].flags)]_vars
  <2> SUFFICES ASSUME IInv, [Next]_vars, ~IFlag, IFlag', stack # <<>>
               PROVE  Len(stack) = 1 /\ stack[1].flags
    BY Zenon
  <2>1. ASSUME NEW v, EnterGate(v) PROVE FALSE
    BY <2>1, Zenon DEF EnterGate
  <2>2. StiIret
    BY <2>1, Zenon DEF Next, vars, Stub, init_descriptor_tables, Sti, Raise, Lower,
       register_interrupt_handler, TakeIrq, TakeSpurious, RaiseException,
       StubEnter, SendSlaveEoi, SendMasterEoi, Dispatch, StubExit
  <2>3. stack[1].flags
    BY <2>2, Zenon DEF StiIret
  <2>4. Len(stack) \in Nat /\ 1 \in 1..Len(stack)
    BY DEF IInv, TypeOK
  <2>5. ~(1 < Len(stack))
    BY <2>3, <2>4, Zenon DEF IInv, StackInv
  <2>6. Len(stack) = 1
    BY <2>4, <2>5
  <2> QED
    BY <2>3, <2>6, Zenon
<1> QED
  BY InvHolds, <1>1, PTL DEF Spec, OnlyStiEnables

-----------------------------------------------------------------------------
(* Devices that wait for their drivers.                                    *)

(***************************************************************************)
(* When no device raises its line before its driver has registered, a held *)
(* line that is high has a driver, and its interrupt is still to be taken  *)
(* or still to be dispatched.                                              *)
(***************************************************************************)
InFlight == {"stub", "slave_eoi", "master_eoi", "dispatch"}

Pending(l) ==
  \/ l \in irr
  \/ \E i \in 1..Len(stack) : stack[i].vec = IRQ0 + l /\ stack[i].pc \in InFlight

HeldInv ==
  /\ ~pic => level = {}
  /\ ~pic => \A v \in Vectors : handlers[v] = NoHandler
  /\ \A l \in level : handlers[IRQ0 + l] # NoHandler
  /\ \A l \in Held \cap level : Pending(l)

(* No line is high at the start. *)
LEMMA HeldInit == Init => HeldInv
BY DEF Init, HeldInv

(* Entering a gate keeps every activation that was there. *)
LEMMA PendingAfterPush ==
  ASSUME TypeOK, NEW v \in Vectors, EnterGate(v), NEW l, Pending(l),
         l \in irr => l \in irr' \/ v = IRQ0 + l
  PROVE  Pending(l)'
<1>1. /\ Len(stack') = Len(stack) + 1 /\ Len(stack) \in Nat
      /\ stack'[1].vec = v
      /\ stack'[1].pc = "stub"
      /\ \A i \in 2..Len(stack') : stack'[i] = stack[i - 1]
  <2>1. Len(stack) \in Nat
    BY DEF TypeOK
  <2> QED
    BY <2>1, PushFrame
<1>2. CASE l \in irr
  <2>1. 1 \in 1..Len(stack') /\ stack'[1].pc \in InFlight
    BY <1>1 DEF InFlight
  <2> QED
    BY <1>1, <1>2, <2>1, Zenon DEF Pending
<1>3. ASSUME NEW i \in 1..Len(stack), stack[i].vec = IRQ0 + l, stack[i].pc \in InFlight
      PROVE  Pending(l)'
  <2>1. i + 1 \in 1..Len(stack') /\ stack'[i + 1] = stack[i]
    BY <1>1
  <2> QED
    BY <1>3, <2>1, Zenon DEF Pending
<1> QED
  BY <1>2, <1>3 DEF Pending

(* So does moving the running one, unless it leaves the dispatch. *)
LEMMA PendingAfterMove ==
  ASSUME TypeOK, stack # <<>>, NEW p \in PCs, NEW d \in Int, Goto(p, d),
         NEW l, Pending(l), irr' = irr,
         p \in InFlight \/ stack[1].vec # IRQ0 + l \/ stack[1].pc \notin InFlight
  PROVE  Pending(l)'
<1>1. /\ Len(stack') = Len(stack) /\ Len(stack) \in Nat
      /\ stack'[1].vec = stack[1].vec
      /\ stack'[1].pc = p
      /\ \A i \in 2..Len(stack) : stack'[i] = stack[i]
  BY MoveFrame DEF TypeOK
<1>2. CASE l \in irr
  BY <1>2, Zenon DEF Pending
<1>3. ASSUME NEW i \in 1..Len(stack), stack[i].vec = IRQ0 + l, stack[i].pc \in InFlight
      PROVE  Pending(l)'
  <2>1. i \in 1..Len(stack')
    BY <1>1
  <2>2. CASE i = 1
    BY <1>1, <1>3, <2>1, <2>2, Zenon DEF Pending
  <2>3. CASE i # 1
    <3>1. i \in 2..Len(stack)
      BY <1>1, <2>3
    <3> QED
      BY <1>1, <1>3, <2>1, <3>1, Zenon DEF Pending
  <2> QED
    BY <2>2, <2>3
<1> QED
  BY <1>2, <1>3 DEF Pending

(* And so does taking an activation off at its iret. *)
LEMMA PendingAfterPop ==
  ASSUME TypeOK, StiIret, NEW l, Pending(l)
  PROVE  Pending(l)'
<1>0. stack # <<>> /\ stack[1].pc = "iret" /\ stack' = Tail(stack) /\ irr' = irr
  BY DEF StiIret, At, picVars
<1>1. /\ Len(stack') = Len(stack) - 1 /\ Len(stack) \in Nat
      /\ \A i \in 1..Len(stack') : stack'[i] = stack[i + 1]
  BY <1>0, PopFrame DEF TypeOK
<1>2. CASE l \in irr
  BY <1>0, <1>2, Zenon DEF Pending
<1>3. ASSUME NEW i \in 1..Len(stack), stack[i].vec = IRQ0 + l, stack[i].pc \in InFlight
      PROVE  Pending(l)'
  <2>1. i # 1
    BY <1>0, <1>3 DEF InFlight
  <2>2. i - 1 \in 1..Len(stack') /\ stack'[i - 1] = stack[i]
    BY <1>1, <2>1
  <2> QED
    BY <1>3, <2>2, Zenon DEF Pending
<1> QED
  BY <1>2, <1>3 DEF Pending

(* Every step preserves HeldInv, given the invariant above. *)
LEMMA HeldNext ==
  ASSUME ~EarlyDevices, IInv, HeldInv, [Next]_vars
  PROVE  HeldInv'
<1>0. TypeOK /\ StackInv
  BY DEF IInv
<1>1. CASE init_descriptor_tables
  BY <1>1 DEF init_descriptor_tables, HeldInv
<1>2. CASE Sti
  BY <1>2 DEF Sti, HeldInv, picVars, Pending
<1>3. ASSUME NEW n \in Vectors, NEW h \in Callbacks, register_interrupt_handler(n, h)
      PROVE  HeldInv'
  <2>1. h # NoHandler
    BY LinesAssumption
  <2>2. \A v : handlers[v] # NoHandler => handlers'[v] # NoHandler
    BY <1>0, <1>3, <2>1 DEF register_interrupt_handler, TypeOK
  <2>3. pic
    <3>1. IFlag
      BY <1>3 DEF register_interrupt_handler
    <3> QED
      BY <1>0, <3>1 DEF StackInv
  <2> QED
    BY <1>3, <2>2, <2>3 DEF register_interrupt_handler, HeldInv, picVars, Pending
<1>4. ASSUME NEW l \in Lines, Raise(l)
      PROVE  HeldInv'
  <2>1. handlers[IRQ0 + l] # NoHandler /\ IRQ0 + l \in Vectors
    BY <1>4, VectorTypes DEF Raise
  <2>2. pic
    BY <1>4 DEF Raise
  <2>3. \A k \in Held \cap level' : Pending(k)'
    BY <1>4, <2>2 DEF Raise, HeldInv, Pending
  <2> QED
    BY <1>4, <2>1, <2>2, <2>3 DEF Raise, HeldInv
<1>5. ASSUME NEW l \in Pulsed, Lower(l)
      PROVE  HeldInv'
  BY <1>5 DEF Lower, HeldInv, picVars, Pending
<1>6. ASSUME NEW l \in Lines, TakeIrq(l)
      PROVE  HeldInv'
  <2>1. IRQ0 + l \in Vectors /\ EnterGate(IRQ0 + l)
    BY <1>6, VectorTypes DEF TakeIrq
  <2>2. \A k \in Held \cap level' : Pending(k)'
    BY <1>0, <1>6, <2>1, PendingAfterPush DEF TakeIrq, HeldInv
  <2> QED
    BY <1>6, <2>2 DEF TakeIrq, HeldInv
<1>7. ASSUME NEW l \in Spurious, TakeSpurious(l)
      PROVE  HeldInv'
  <2>1. IRQ0 + l \in Vectors /\ EnterGate(IRQ0 + l)
    BY <1>7, VectorTypes DEF TakeSpurious
  <2>2. \A k \in Held \cap level' : Pending(k)'
    BY <1>0, <1>7, <2>1, PendingAfterPush DEF TakeSpurious, HeldInv
  <2> QED
    BY <1>7, <2>2 DEF TakeSpurious, HeldInv
<1>8. ASSUME NEW v \in Exceptions, RaiseException(v)
      PROVE  HeldInv'
  <2>1. v \in Vectors /\ EnterGate(v)
    BY <1>8, VectorTypes DEF RaiseException
  <2>2. \A k \in Held \cap level' : Pending(k)'
    BY <1>0, <1>8, <2>1, PendingAfterPush DEF RaiseException, HeldInv, picVars
  <2> QED
    BY <1>8, <2>2 DEF RaiseException, HeldInv
<1>9. CASE StubEnter \/ SendSlaveEoi \/ SendMasterEoi
  <2>1. PICK p \in InFlight, d \in Int : Goto(p, d)
    <3>1. CASE StubEnter
      BY <3>1 DEF StubEnter, InFlight
    <3>2. CASE SendSlaveEoi
      BY <3>2 DEF SendSlaveEoi, InFlight
    <3>3. CASE SendMasterEoi
      BY <3>3 DEF SendMasterEoi, InFlight
    <3> QED
      BY <1>9, <3>1, <3>2, <3>3
  <2>2. stack # <<>> /\ irr' = irr /\ level' = level /\ p \in PCs /\ UNCHANGED <<pic, handlers>>
    BY <1>9 DEF StubEnter, SendSlaveEoi, SendMasterEoi, At, picVars, InFlight, PCs
  <2>3. \A k \in Held \cap level' : Pending(k)'
    BY <1>0, <2>1, <2>2, PendingAfterMove DEF HeldInv
  <2> QED
    BY <2>2, <2>3 DEF HeldInv
<1>10. CASE Dispatch
  <2>1. /\ stack # <<>> /\ stack[1].pc = "dispatch" /\ irr' = irr
        /\ Goto("exit", 0) /\ "exit" \in PCs /\ 0 \in Int /\ stack[1] \in Frame
        /\ UNCHANGED <<pic, handlers>>
        /\ level' \subseteq level
    BY <1>0, <1>10 DEF Dispatch, At, picVars, PCs, TypeOK
  <2>2. ASSUME NEW k \in Held \cap level'
        PROVE  Pending(k)'
    <3>1. Pending(k) /\ handlers[IRQ0 + k] # NoHandler
      BY <2>1 DEF HeldInv
    <3>2. stack[1].vec # IRQ0 + k
      <4> SUFFICES ASSUME stack[1].vec = IRQ0 + k PROVE FALSE
        OBVIOUS
      <4>1. k \in 0..15
        BY <1>0, <2>1, VectorTypes DEF TypeOK
      <4>2. stack[1].vec - IRQ0 = k
        BY <4>1 DEF IRQ0
      <4>3. level' = level \ ({stack[1].vec - IRQ0} \cap Held)
        BY <1>10, <3>1 DEF Dispatch
      <4> QED
        BY <4>2, <4>3
    <3> QED
      BY <1>0, <2>1, <3>1, <3>2, PendingAfterMove
  <2> QED
    BY <2>1, <2>2 DEF HeldInv
<1>11. CASE StubExit
  <2>1. /\ stack # <<>> /\ stack[1].pc = "exit" /\ irr' = irr
        /\ Goto("iret", -(1 + 8 + 2)) /\ "iret" \in PCs
        /\ UNCHANGED <<pic, handlers, level>>
    BY <1>11 DEF StubExit, At, picVars, PCs
  <2>2. stack[1].pc \notin InFlight /\ -(1 + 8 + 2) \in Int
    BY <2>1 DEF InFlight
  <2>3. \A k \in Held \cap level' : Pending(k)'
    BY <1>0, <2>1, <2>2, PendingAfterMove DEF HeldInv
  <2> QED
    BY <2>1, <2>3 DEF HeldInv
<1>12. CASE StiIret
  <2>1. \A k \in Held \cap level' : Pending(k)'
    BY <1>0, <1>12, PendingAfterPop DEF StiIret, HeldInv
  <2> QED
    BY <1>12, <2>1 DEF StiIret, HeldInv
<1>13. CASE UNCHANGED vars
  BY <1>13 DEF vars, HeldInv, Pending
<1> QED
  BY <1>1, <1>2, <1>3, <1>4, <1>5, <1>6, <1>7, <1>8, <1>9, <1>10, <1>11, <1>12,
     <1>13 DEF Next, Stub

(* A device that holds its line high is never forgotten by irq_handler,    *)
(* which acknowledges the controllers before it calls the driver, if it    *)
(* raised the line after its driver registered.                            *)
THEOREM HeldLinesServed == ~EarlyDevices => (Spec => []HeldLinePending)
<1> SUFFICES ASSUME ~EarlyDevices PROVE Spec => []HeldLinePending
  OBVIOUS
<1>1. IInv /\ HeldInv /\ [Next]_vars => HeldInv'
  BY HeldNext
<1>2. HeldInv => HeldLinePending
  BY DEF HeldInv, HeldLinePending, Pending, InFlight
<1> QED
  BY InvHolds, HeldInit, <1>1, <1>2, PTL DEF Spec

-----------------------------------------------------------------------------
(***************************************************************************)
(* Interrupts implements the safety part of InterruptService.              *)
(***************************************************************************)

(* The line that is being served. *)
Serving ==
  IF stack # <<>> /\ stack[Len(stack)].vec >= IRQ0
    THEN stack[Len(stack)].vec - IRQ0 ELSE -1

(* The controllers latch nothing before they are initialised. *)
Unprogrammed == ~pic => irr = {}

LEMMA UnprogrammedHolds == Spec => []Unprogrammed
<1>1. Init => Unprogrammed
  BY DEF Init, Unprogrammed
<1>2. Unprogrammed /\ [Next]_vars => Unprogrammed'
  BY DEF Unprogrammed, Next, vars, picVars, init_descriptor_tables, Sti,
         register_interrupt_handler, Raise, Lower, TakeIrq, TakeSpurious, RaiseException,
         Stub, StubEnter, SendSlaveEoi, SendMasterEoi, Dispatch, StubExit, StiIret
<1> QED
  BY <1>1, <1>2, PTL DEF Spec

(* A gate entered by kmain starts a service; one entered by a callback     *)
(* changes nothing.                                                        *)
LEMMA ServingAfterPush ==
  ASSUME TypeOK, NEW v \in Vectors, EnterGate(v)
  PROVE  Serving' = IF stack # <<>> THEN Serving
                    ELSE IF v >= IRQ0 THEN v - IRQ0 ELSE -1
<1>1. /\ stack' \in Seq(Frame) /\ Len(stack') = Len(stack) + 1 /\ stack' # <<>>
      /\ stack'[1].vec = v
      /\ \A i \in 2..Len(stack') : stack'[i] = stack[i - 1]
  BY PushFrame
<1>2. stack \in Seq(Frame) /\ Len(stack) \in Nat
  BY DEF TypeOK
<1>3. CASE stack = <<>>
  <2>1. Len(stack') = 1
    BY <1>1, <1>3
  <2>2. stack'[Len(stack')].vec = v
    BY <1>1, <2>1
  <2> QED
    BY <1>1, <1>3, <2>2 DEF Serving, IRQ0
<1>4. CASE stack # <<>>
  <2>1. Len(stack) >= 1
    BY <1>2, <1>4
  <2>2. stack'[Len(stack')] = stack[Len(stack)]
    BY <1>1, <1>2, <2>1
  <2> QED
    BY <1>1, <1>4, <2>2 DEF Serving, IRQ0
<1> QED
  BY <1>3, <1>4

(* The steps of a stub change nothing. *)
LEMMA ServingAfterMove ==
  ASSUME TypeOK, stack # <<>>, NEW p \in PCs, NEW d \in Int, Goto(p, d)
  PROVE  Serving' = Serving
<1>1. /\ stack' \in Seq(Frame) /\ Len(stack') = Len(stack) /\ stack' # <<>>
      /\ stack'[1].vec = stack[1].vec
      /\ \A i \in 2..Len(stack) : stack'[i] = stack[i]
  BY MoveFrame
<1>2. Len(stack) \in Nat /\ Len(stack) >= 1
  BY DEF TypeOK
<1>3. stack'[Len(stack')].vec = stack[Len(stack)].vec
  BY <1>1, <1>2
<1> QED
  BY <1>1, <1>3 DEF Serving, IRQ0

(* The iret of the outermost activation ends a service. *)
LEMMA ServingAfterPop ==
  ASSUME TypeOK, stack # <<>>, stack' = Tail(stack)
  PROVE  Serving' = Serving \/ Serving' = -1
<1>1. /\ Len(stack') = Len(stack) - 1
      /\ \A i \in 1..Len(stack') : stack'[i] = stack[i + 1]
  BY PopFrame
<1>2. Len(stack) \in Nat /\ Len(stack) >= 1
  BY DEF TypeOK
<1>3. CASE stack' = <<>>
  BY <1>3 DEF Serving
<1>4. CASE stack' # <<>>
  <2>1. Len(stack') >= 1
    BY <1>4, PopFrame
  <2>2. stack'[Len(stack')] = stack[Len(stack)]
    BY <1>1, <1>2, <2>1
  <2> QED
    BY <1>4, <2>2 DEF Serving, IRQ0
<1> QED
  BY <1>3, <1>4

(* Every step of the controllers and the stubs is a step of the service,   *)
(* or none.                                                                *)
LEMMA ServiceStep ==
  ASSUME IInv, Unprogrammed, [Next]_vars
  PROVE  [Service!Next]_(Service!vars)
<1>0. TypeOK /\ StackInv /\ ServiceInv
  BY DEF IInv
<1>1. Service!vars = <<irr, Serving>>
  BY DEF Service!vars, Serving
<1>2. ASSUME irr' = irr, Serving' = Serving
      PROVE  UNCHANGED Service!vars
  BY <1>2 DEF Service!vars, Serving
<1>3. ASSUME irr' = irr, stack' = stack
      PROVE  UNCHANGED Service!vars
  BY <1>3 DEF Service!vars
<1>4. ASSUME IFlag
      PROVE  stack = <<>> /\ mISR = {} /\ sISR = {} /\ Serving = -1
  BY <1>0, <1>4 DEF StackInv, ServiceInv, Serving
<1>5. CASE init_descriptor_tables
  BY <1>3, <1>5 DEF init_descriptor_tables, Unprogrammed
<1>6. CASE Sti
  BY <1>3, <1>6 DEF Sti, picVars
<1>7. ASSUME NEW n \in Vectors, NEW h \in Callbacks, register_interrupt_handler(n, h)
      PROVE  UNCHANGED Service!vars
  BY <1>3, <1>7 DEF register_interrupt_handler, picVars
<1>8. ASSUME NEW l \in Lines, Raise(l)
      PROVE  Service!Request(l) \/ UNCHANGED Service!vars
  BY <1>3, <1>8 DEF Raise, Service!Request
<1>9. ASSUME NEW l \in Pulsed, Lower(l)
      PROVE  UNCHANGED Service!vars
  BY <1>3, <1>9 DEF Lower, picVars
<1>10. ASSUME NEW l \in Lines, TakeIrq(l)
       PROVE  Service!Begin(l)
  <2>1. IRQ0 + l \in Vectors /\ EnterGate(IRQ0 + l) /\ IFlag /\ l \in Int /\ l >= 0
    BY <1>10, VectorTypes, LinesAssumption DEF TakeIrq
  <2>2. Serving' = l
    <3>1. Serving' = IF IRQ0 + l >= IRQ0 THEN (IRQ0 + l) - IRQ0 ELSE -1
      BY <1>0, <1>4, <2>1, ServingAfterPush
    <3> QED
      BY <2>1, <3>1 DEF IRQ0
  <2>3. \A k \in irr : ~HigherPriority(k, l)
    BY <1>4, <1>10, <2>1 DEF TakeIrq, Unblocked
  <2>4. Serving = -1
    BY <1>4, <2>1
  <2> QED
    BY <1>10, <2>2, <2>3, <2>4 DEF TakeIrq, Service!Begin, Serving
<1>11. ASSUME NEW l \in Spurious, TakeSpurious(l)
       PROVE  Service!BeginSpurious(l)
  <2>1. IRQ0 + l \in Vectors /\ EnterGate(IRQ0 + l) /\ IFlag /\ l \in Int /\ l >= 0
    BY <1>11, VectorTypes, LinesAssumption DEF TakeSpurious
  <2>2. Serving' = l
    <3>1. Serving' = IF IRQ0 + l >= IRQ0 THEN (IRQ0 + l) - IRQ0 ELSE -1
      BY <1>0, <1>4, <2>1, ServingAfterPush
    <3> QED
      BY <2>1, <3>1 DEF IRQ0
  <2>3. Serving = -1
    BY <1>4, <2>1
  <2> QED
    BY <1>11, <2>2, <2>3 DEF TakeSpurious, Service!BeginSpurious, Serving
<1>12. ASSUME NEW v \in Exceptions, RaiseException(v)
       PROVE  UNCHANGED Service!vars
  <2>1. v \in Vectors /\ EnterGate(v) /\ ~(v >= IRQ0) /\ irr' = irr
    BY <1>12, VectorTypes, LinesAssumption DEF RaiseException, IRQ0, picVars
  <2>2. Serving' = Serving
    <3>1. Serving' = IF stack # <<>> THEN Serving
                     ELSE IF v >= IRQ0 THEN v - IRQ0 ELSE -1
      BY <1>0, <2>1, ServingAfterPush
    <3> QED
      BY <2>1, <3>1 DEF Serving
  <2> QED
    BY <1>2, <2>1, <2>2
<1>13. CASE StubEnter \/ SendSlaveEoi \/ SendMasterEoi \/ Dispatch \/ StubExit
  <2>1. PICK p \in PCs, d \in Int : Goto(p, d)
    <3>1. CASE StubEnter
      BY <3>1 DEF StubEnter, PCs
    <3>2. CASE SendSlaveEoi
      BY <3>2 DEF SendSlaveEoi, PCs
    <3>3. CASE SendMasterEoi
      BY <3>3 DEF SendMasterEoi, PCs
    <3>4. CASE Dispatch
      BY <3>4 DEF Dispatch, PCs
    <3>5. CASE StubExit
      BY <3>5 DEF StubExit, PCs
    <3> QED
      BY <1>13, <3>1, <3>2, <3>3, <3>4, <3>5
  <2>2. stack # <<>> /\ irr' = irr
    BY <1>13 DEF StubEnter, SendSlaveEoi, SendMasterEoi, Dispatch, StubExit, At, picVars
  <2>3. Serving' = Serving
    BY <1>0, <2>1, <2>2, ServingAfterMove
  <2> QED
    BY <1>2, <2>2, <2>3
<1>14. CASE StiIret
  <2>1. stack # <<>> /\ stack' = Tail(stack) /\ irr' = irr
    BY <1>14 DEF StiIret, At, picVars
  <2>2. Serving' = Serving \/ Serving' = -1
    BY <1>0, <2>1, ServingAfterPop
  <2>3. CASE Serving' = Serving
    BY <1>2, <2>1, <2>3
  <2>4. CASE Serving' = -1 /\ Serving # -1
    <3>1. Service!End
      BY <2>1, <2>4 DEF Service!End, Serving
    <3> QED
      BY <3>1 DEF Service!Next
  <2> QED
    BY <2>2, <2>3, <2>4
<1>15. CASE UNCHANGED vars
  BY <1>3, <1>15 DEF vars
<1> QED
  BY <1>5, <1>6, <1>7, <1>8, <1>9, <1>10, <1>11, <1>12, <1>13, <1>14, <1>15
  DEF Next, Stub, Service!Next

(* The safety part of ImplementsService: the controllers as                *)
(* interrupt_table.c programs them, the stubs of interrupt.s and the       *)
(* dispatchers of isr.c serve only lines that were requested, one at a     *)
(* time and the most urgent first, and keep every edge until it is served, *)
(* for any devices and any depth of exceptions within callbacks.           *)
THEOREM ServiceImplemented == Spec => Service!Init /\ [][Service!Next]_(Service!vars)
<1>1. Init => Service!Init
  BY DEF Init, Service!Init
<1>2. IInv /\ Unprogrammed /\ [Next]_vars => [Service!Next]_(Service!vars)
  BY ServiceStep
<1> QED
  BY <1>1, <1>2, InvHolds, UnprogrammedHolds, PTL DEF Spec

=============================================================================
