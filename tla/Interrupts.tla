----------------------------- MODULE Interrupts -----------------------------
(***************************************************************************)
(* Interrupt delivery in HavenOS: the descriptor-table initialisation, the *)
(* assembly stubs of interrupt.s, the two C dispatchers of isr.c and the   *)
(* table of callbacks, run against a pair of cascaded 8259 interrupt       *)
(* controllers.                                                            *)
(*                                                                         *)
(* The controllers and the devices are hardware.  They are modelled from   *)
(* the way interrupt_table.c programs them: ICW1 = 0x11 selects            *)
(* edge-triggered inputs and a cascade, ICW3 = 0x04/0x02 puts the slave on *)
(* input 2, ICW4 = 0x01 leaves the end of interrupt to software, and the   *)
(* masks are cleared.  A device therefore interrupts only by raising a     *)
(* line that was low; the controller latches the edge in irr.              *)
(***************************************************************************)
EXTENDS Integers, FiniteSets, Sequences

CONSTANTS
  Lines,         (* the IRQ lines that have a device                       *)
  Pulsed,        (* lines whose device drops the line by itself (the PIT); *)
                 (* any other device holds it until its driver reads it    *)
  Spurious,      (* the spurious interrupts the controllers may signal     *)
  Exceptions,    (* the CPU exceptions and traps kmain may raise           *)
  Callbacks,     (* the functions given to register_interrupt_handler      *)
  NoHandler,     (* the null pointer of interrupt_handlers                 *)
  MaxNesting,    (* bound on the activations of stubs on the stack         *)
  EarlyDevices   (* may a device raise its line before a driver registers? *)

(***************************************************************************)
(* Input 2 is the cascade.  Vector 17 (alignment check) is excluded: the   *)
(* CPU raises it only outside ring 0 with CR0.AM set, and the kernel runs  *)
(* in ring 0 and never sets AM.                                            *)
(***************************************************************************)
ASSUME LinesAssumption ==
  /\ Lines \subseteq (0..15) \ {2}
  /\ Pulsed \subseteq Lines
  /\ Spurious \subseteq {7, 15}
  /\ Exceptions \subseteq (0..31) \ {17}
  /\ NoHandler \notin Callbacks
  /\ MaxNesting \in Nat
  /\ EarlyDevices \in BOOLEAN

IRQ0 == 32

Held == Lines \ Pulsed

Vectors == Exceptions \cup {IRQ0 + l : l \in Lines \cup Spurious}

VARIABLES
  pic,       (* have the controllers been initialised?                     *)
  IFlag,     (* the interrupt flag of the CPU                              *)
  handlers,  (* interrupt_handlers                                         *)
  level,     (* the lines that are high                                    *)
  irr,       (* the edges the controllers have latched                     *)
  mISR,      (* in-service inputs of the master                            *)
  sISR,      (* in-service inputs of the slave                             *)
  stack      (* activations of the stubs, the running one first            *)

vars == <<pic, IFlag, handlers, level, irr, mISR, sISR, stack>>

picVars == <<irr, mISR, sISR>>

Init ==
  /\ pic = FALSE
  /\ IFlag = FALSE
  /\ handlers = [v \in Vectors |-> NoHandler]
  /\ level = {}
  /\ irr = {}
  /\ mISR = {}
  /\ sISR = {}
  /\ stack = <<>>

-----------------------------------------------------------------------------
(* The controllers.                                                        *)

(* The master input on which line l arrives. *)
MasterInput(l) == IF l < 8 THEN l ELSE 2

(***************************************************************************)
(* A non-specific end of interrupt clears the in-service input of highest  *)
(* priority, that is, of lowest number.                                    *)
(***************************************************************************)
EndOfInterrupt(S) == {x \in S : \E y \in S : y < x}

(* Fully nested mode: only an input of higher priority than all those in   *)
(* service gets through, on the master and, for its lines, on the slave.   *)
Unblocked(l) ==
  /\ \A i \in mISR : MasterInput(l) < i
  /\ l >= 8 => \A i \in sISR : l < i

HigherPriority(k, l) ==
  \/ MasterInput(k) < MasterInput(l)
  \/ MasterInput(k) = MasterInput(l) /\ k < l

(***************************************************************************)
(* A device raises its line, once the controllers are initialised, and the *)
(* edge is latched.                                                        *)
(***************************************************************************)
Raise(l) ==
  /\ pic
  /\ l \notin level
  /\ EarlyDevices \/ handlers[IRQ0 + l] # NoHandler
  /\ level' = level \cup {l}
  /\ irr' = irr \cup {l}
  /\ UNCHANGED <<pic, IFlag, handlers, mISR, sISR, stack>>

(* A pulsed device lowers its line by itself, once the edge is taken. *)
Lower(l) ==
  /\ l \in level
  /\ l \notin irr
  /\ level' = level \ {l}
  /\ UNCHANGED <<pic, IFlag, handlers, picVars, stack>>

-----------------------------------------------------------------------------
(* Initialisation and registration.                                        *)

(***************************************************************************)
(* init_idt programs the controllers, which clears their registers, and    *)
(* init_descriptor_tables then nullifies the callbacks.  kmain calls it    *)
(* once, first, with interrupts disabled.                                  *)
(***************************************************************************)
init_descriptor_tables ==
  /\ ~pic
  /\ pic' = TRUE
  /\ irr' = {}
  /\ mISR' = {}
  /\ sISR' = {}
  /\ handlers' = [v \in Vectors |-> NoHandler]
  /\ UNCHANGED <<IFlag, level, stack>>

(* Variant: the line number is used in place of the remapped vector. *)
RegisterByLine(n, handler) ==
  /\ IFlag
  /\ stack = <<>>
  /\ handlers' = [v \in DOMAIN handlers \cup {n % IRQ0} |->
                   IF v = n % IRQ0 THEN handler ELSE handlers[v]]
  /\ UNCHANGED <<pic, IFlag, level, picVars, stack>>

(* kmain's init_timer and init_keyboard call it, behind the sti. *)
register_interrupt_handler(n, handler) ==
  /\ IFlag
  /\ stack = <<>>
  /\ handlers' = [handlers EXCEPT ![n] = handler]
  /\ UNCHANGED <<pic, IFlag, level, picVars, stack>>

(* asm volatile("sti") of kmain. *)
Sti ==
  /\ pic
  /\ ~IFlag
  /\ stack = <<>>
  /\ IFlag' = TRUE
  /\ UNCHANGED <<pic, handlers, level, picVars, stack>>

-----------------------------------------------------------------------------
(* Gates and stubs.                                                        *)

(* Variant: the type nibble of a trap gate. *)
TrapGateFlags(v) == 143

(***************************************************************************)
(* Every gate is installed with flags 0x8E.  The low nibble, 0xE, is an    *)
(* interrupt gate: the CPU clears IF on entry.  A trap gate, 0xF, would    *)
(* leave it alone.                                                         *)
(***************************************************************************)
GateFlags(v) == 142

IsInterruptGate(flags) == flags % 16 = 14

(* The vectors for which the CPU pushes an error code. *)
PushesErrorCode == {8, 10, 11, 12, 13, 14, 17}

(* Variant: the page fault's stub written as an ISR_NOERRCODE. *)
NoErrCodeFor14 == {8} \cup (10..13)

(* The vectors whose stub is an ISR_ERRCODE, which pushes no dummy. *)
ErrCodeStubs == {8} \cup (10..14)

(***************************************************************************)
(* The CPU goes through the gate of vector v: it pushes EFLAGS, CS, EIP    *)
(* and perhaps an error code.  words counts the words on the stack.        *)
(***************************************************************************)
EnterGate(v) ==
  /\ stack' = <<[vec |-> v,
                 flags |-> IFlag,
                 pc |-> "stub",
                 words |-> IF v \in PushesErrorCode THEN 4 ELSE 3]>> \o stack
  /\ IFlag' = (IFlag /\ ~IsInterruptGate(GateFlags(v)))

TakeIrq(l) ==
  /\ IFlag
  /\ l \in irr
  /\ Unblocked(l)
  /\ ~\E k \in irr : HigherPriority(k, l) /\ Unblocked(k)
  /\ irr' = irr \ {l}
  /\ mISR' = mISR \cup {MasterInput(l)}
  /\ sISR' = IF l >= 8 THEN sISR \cup {l} ELSE sISR
  /\ EnterGate(IRQ0 + l)
  /\ UNCHANGED <<pic, handlers, level>>

(***************************************************************************)
(* A line that drops while the CPU acknowledges it makes the controller    *)
(* answer with its input 7 without putting it in service; a spurious       *)
(* interrupt of the slave does put the cascade in service on the master.   *)
(***************************************************************************)
TakeSpurious(l) ==
  /\ IFlag
  /\ pic
  /\ Unblocked(l)
  /\ mISR' = IF l >= 8 THEN mISR \cup {MasterInput(l)} ELSE mISR
  /\ EnterGate(IRQ0 + l)
  /\ UNCHANGED <<pic, handlers, level, irr, sISR>>

At(pc) == stack # <<>> /\ stack[1].pc = pc

(***************************************************************************)
(* An exception of kmain, such as its int $0x3, or of a callback, such as  *)
(* a page fault in keyboard_callback.  The stubs themselves cause none.    *)
(***************************************************************************)
RaiseException(v) ==
  /\ pic
  /\ Len(stack) < MaxNesting
  /\ stack # <<>> => At("dispatch") /\ handlers[stack[1].vec] # NoHandler
  /\ EnterGate(v)
  /\ UNCHANGED <<pic, handlers, level, picVars>>

(***************************************************************************)
(* The running activation moves to pc, with d more words on the stack.     *)
(***************************************************************************)
Goto(pc, d) ==
  stack' = [stack EXCEPT ![1] = [vec |-> @.vec, flags |-> @.flags,
                                 pc |-> pc, words |-> @.words + d]]

(* Variant: the guard of the slave's end of interrupt is off by one. *)
StubEnterLateSlave ==
  /\ At("stub")
  /\ IFlag' = FALSE
  /\ LET v == stack[1].vec
         dummy == IF v \in ErrCodeStubs THEN 0 ELSE 1
     IN  Goto(IF v < IRQ0 THEN "dispatch"
              ELSE IF v > 40 THEN "slave_eoi" ELSE "master_eoi",
              dummy + 1 + 8 + 1)
  /\ UNCHANGED <<pic, handlers, level, picVars>>

(***************************************************************************)
(* The isr and irq macros: cli, the dummy error code, the vector number;   *)
(* then the common stub: pusha and the data segment.                       *)
(***************************************************************************)
StubEnter ==
  /\ At("stub")
  /\ IFlag' = FALSE
  /\ LET v == stack[1].vec
         dummy == IF v \in ErrCodeStubs THEN 0 ELSE 1
     IN  Goto(IF v < IRQ0 THEN "dispatch"
              ELSE IF v >= 40 THEN "slave_eoi" ELSE "master_eoi",
              dummy + 1 + 8 + 1)
  /\ UNCHANGED <<pic, handlers, level, picVars>>

(* irq_handler: outb(0xA0, 0x20), for vectors from 40 up. *)
SendSlaveEoi ==
  /\ At("slave_eoi")
  /\ sISR' = EndOfInterrupt(sISR)
  /\ Goto("master_eoi", 0)
  /\ UNCHANGED <<pic, IFlag, handlers, level, irr, mISR>>

(* Variant: the master is signalled only for its own lines. *)
SendEitherEoi ==
  /\ At("master_eoi")
  /\ mISR' = IF stack[1].vec >= 40 THEN mISR ELSE EndOfInterrupt(mISR)
  /\ Goto("dispatch", 0)
  /\ UNCHANGED <<pic, IFlag, handlers, level, irr, sISR>>

(* irq_handler: outb(0x20, 0x20). *)
SendMasterEoi ==
  /\ At("master_eoi")
  /\ mISR' = EndOfInterrupt(mISR)
  /\ Goto("dispatch", 0)
  /\ UNCHANGED <<pic, IFlag, handlers, level, irr, sISR>>

(* Variant: irq_handler returns after the slave's end of interrupt. *)
DispatchMasterOnly ==
  /\ At("dispatch")
  /\ LET v == stack[1].vec
     IN  level' = IF handlers[v] # NoHandler /\ v < 40
                    THEN level \ ({v - IRQ0} \cap Held)
                    ELSE level
  /\ Goto("exit", 0)
  /\ UNCHANGED <<pic, IFlag, handlers, picVars>>

(***************************************************************************)
(* irq_handler and isr_handler: call the callback of the vector, if any.   *)
(* The callback of a held line reads the device, which lowers the line.    *)
(***************************************************************************)
Dispatch ==
  /\ At("dispatch")
  /\ LET v == stack[1].vec
     IN  level' = IF handlers[v] # NoHandler THEN level \ ({v - IRQ0} \cap Held)
                                             ELSE level
  /\ Goto("exit", 0)
  /\ UNCHANGED <<pic, IFlag, handlers, picVars>>

(* The end of the common stubs: pop the segment, popa, add esp, 8. *)
StubExit ==
  /\ At("exit")
  /\ Goto("iret", -(1 + 8 + 2))
  /\ UNCHANGED <<pic, IFlag, handlers, level, picVars>>

(* Variant: the sti of the stub takes effect, as with an instruction       *)
(* between it and an iret that did not reload EFLAGS.                      *)
StiReturn ==
  /\ At("iret")
  /\ IFlag' = TRUE
  /\ stack' = Tail(stack)
  /\ UNCHANGED <<pic, handlers, level, picVars>>

(***************************************************************************)
(* sti; iret.  An sti takes effect after the instruction that follows it,  *)
(* and that iret reloads EFLAGS: no interrupt fits between the two, and IF *)
(* becomes what it was when the gate was taken.                            *)
(***************************************************************************)
StiIret ==
  /\ At("iret")
  /\ IFlag' = stack[1].flags
  /\ stack' = Tail(stack)
  /\ UNCHANGED <<pic, handlers, level, picVars>>

Stub ==
  \/ StubEnter
  \/ SendSlaveEoi
  \/ SendMasterEoi
  \/ Dispatch
  \/ StubExit
  \/ StiIret

Next ==
  \/ init_descriptor_tables
  \/ Sti
  \/ \E n \in Vectors, h \in Callbacks : register_interrupt_handler(n, h)
  \/ \E l \in Lines : Raise(l)
  \/ \E l \in Pulsed : Lower(l)
  \/ \E l \in Lines : TakeIrq(l)
  \/ \E l \in Spurious : TakeSpurious(l)
  \/ \E v \in Exceptions : RaiseException(v)
  \/ Stub

(***************************************************************************)
(* The CPU executes (Stub), kmain and the callbacks get on after finitely  *)
(* many exceptions, and the controllers hand a latched edge to a CPU that  *)
(* keeps coming back to a state in which it can be taken.                  *)
(***************************************************************************)
Fairness ==
  /\ WF_vars(init_descriptor_tables)
  /\ SF_vars(Sti)
  /\ WF_vars(Stub)
  /\ \A k \in 1..MaxNesting : SF_vars(Dispatch /\ Len(stack) = k)
  /\ \A l \in Lines : SF_vars(TakeIrq(l))

Spec == Init /\ [][Next]_vars /\ Fairness

-----------------------------------------------------------------------------
(* Properties.                                                             *)

Frame ==
  [vec : Vectors,
   flags : BOOLEAN,
   pc : {"stub", "slave_eoi", "master_eoi", "dispatch", "exit", "iret"},
   words : Int]

(* The variables have their types: the callbacks table is total, latched   *)
(* and high lines are device lines, in-service inputs belong to their      *)
(* controller.                                                             *)
TypeOK ==
  /\ pic \in BOOLEAN
  /\ IFlag \in BOOLEAN
  /\ handlers \in [Vectors -> Callbacks \cup {NoHandler}]
  /\ level \subseteq Lines
  /\ irr \subseteq Lines
  /\ mISR \subseteq 0..7
  /\ sISR \subseteq 8..15
  /\ stack \in Seq(Frame)

(* Hardware interrupts never nest (interrupt gates, cli in the stubs, sti  *)
(* immediately before iret): while a stub or a callback runs interrupts    *)
(* are off, so an IRQ is always the outermost activation, and the          *)
(* callbacks of keyboard.c and timer.c are never interrupted, even after   *)
(* an exception inside them has gone through the sti of its own stub.      *)
NoNesting ==
  /\ IFlag => stack = <<>>
  /\ \A i \in 1..Len(stack) : stack[i].vec >= IRQ0 => i = Len(stack)

(* irq_handler's end-of-interrupt commands (isr.c:37-43) leave nothing in  *)
(* service: once they are sent, and whenever kmain runs, no input is       *)
(* blocked.  A bit left behind would silence its line and all lower ones.  *)
NothingLeftInService ==
  (stack = <<>> \/ stack[1].pc \in {"dispatch", "exit", "iret"})
    => mISR = {} /\ sISR = {}

(* The stubs of interrupt.s take off the stack what they and the CPU put   *)
(* there: at iret exactly EFLAGS, CS and EIP are left.                     *)
IretFrameIntact == At("iret") => stack[1].words = 3

(* A device that holds its line is never forgotten: its edge is latched or *)
(* an activation that will call its driver is running.  This is what the   *)
(* early end of interrupt of irq_handler must not break.                   *)
HeldLinePending ==
  \A l \in Held \cap level :
    \/ l \in irr
    \/ \E i \in 1..Len(stack) :
         /\ stack[i].vec = IRQ0 + l
         /\ stack[i].pc \in {"stub", "slave_eoi", "master_eoi", "dispatch"}

(* Before kmain's sti (kmain.c:50) no hardware interrupt is taken, even    *)
(* though kmain goes through the stub of int $0x3, which executes an sti   *)
(* of its own: only kmain's sti, or the return to code that ran with       *)
(* interrupts on, turns IF on.                                             *)
OnlyStiEnables ==
  [][(~IFlag /\ IFlag') => stack = <<>> \/ (Len(stack) = 1 /\ stack[1].flags)]_vars

(***************************************************************************)
(* The abstract service: a line is served from the moment the CPU takes    *)
(* its interrupt to the iret of its stub, the outermost activation.        *)
(***************************************************************************)
Service == INSTANCE InterruptService WITH
  Nobody <- -1,
  Before <- HigherPriority,
  pending <- irr,
  active <- IF stack # <<>> /\ stack[Len(stack)].vec >= IRQ0
              THEN stack[Len(stack)].vec - IRQ0 ELSE -1

(* The controllers, the stubs and isr.c together serve one line at a time, *)
(* the most urgent first, end each service, forget no edge and leave no    *)
(* line blocked, exceptions in between or inside notwithstanding.          *)
ImplementsService == Service!Spec

(* Edges of higher priority keep coming. *)
Starved(l) == []<>(\E k \in irr : HigherPriority(k, l))

(* Once its driver has registered (isr.h:35-37, registration of callbacks  *)
(* for IRQs), a device that waits with its line high is served, and lowers *)
(* the line, unless edges of higher priority keep coming.                  *)
RegisteredDriverCalled ==
  \A l \in Held :
    <>[](l \in level /\ handlers[IRQ0 + l] # NoHandler) => Starved(l)

=============================================================================
