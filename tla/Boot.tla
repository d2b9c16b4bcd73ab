-------------------------------- MODULE Boot --------------------------------
(***************************************************************************)
(* The end of kmain, kmain.c:53-55, and the keyboard driver on one screen. *)
(* Interrupts are enabled and the keyboard's callback is registered before *)
(* kmain clears the screen, moves the cursor and prints its prompt, so     *)
(* that a callback can run between any two instructions of these calls.    *)
(*                                                                         *)
(* kmain's calls are split where an interrupt can tell: the kernel is      *)
(* compiled without optimisation, so that cursor_pos is loaded and stored  *)
(* by different instructions, and the cursor goes to the CRT controller in *)
(* four writes to an index and a data port.  A callback is not interrupted *)
(* (NoNesting of Interrupts).  fb_scroll and fb_shift_down in kmain's call *)
(* are one step: they use no variable but the frame buffer.                *)
(*                                                                         *)
(* screen.crtc is the location in the controller, its high register times  *)
(* RegisterSize plus its low register.                                     *)
(***************************************************************************)
EXTENDS Keyboard

CONSTANT RegisterSize (* the number of values of a controller's register     *)

ASSUME BootAssumption ==
  /\ RegisterSize \in Nat \ {0}
  /\ RegisterSize * RegisterSize > ScreenSize + FB_NUM_COLUMNS

VARIABLES
  pc,        (* where kmain is                                             *)
  call,      (* the call kmain is in: fb_move_cursor or fb_print_cell      *)
  i,         (* the index of fb_clear's loops                              *)
  reg,       (* a value kmain has loaded and not used yet                  *)
  index,     (* the register that the controller's data port writes        *)
  raced      (* has a callback moved the cursor while kmain held the low   *)
             (* byte of its old location, and nobody written it since?     *)

bootVars == <<vars, pc, call, i, reg, index, raced>>

(* init_timer's message has left the cursor at the start of a row. *)
BootInit ==
  /\ screen = [cursor |-> FB_NUM_COLUMNS,
               crtc |-> FB_NUM_COLUMNS,
               fb |-> [chars |-> [c \in Cells |-> 0], attrs |-> [c \in Cells |-> <<1, 1>>]]]
  /\ KB_SHIFT = FALSE
  /\ KB_CTRL = FALSE
  /\ KB_ALT = FALSE
  /\ directory = 0
  /\ todo = <<>>
  /\ down = {}
  /\ events = 0
  /\ pc = "clear"
  /\ call = "move"
  /\ i = 0
  /\ reg = 0
  /\ index = "low"
  /\ raced = FALSE

-----------------------------------------------------------------------------
(* kmain.                                                                  *)

(* kmain runs when no callback does. *)
At(l) ==
  /\ pc = l
  /\ todo = <<>>
  /\ UNCHANGED <<KB_SHIFT, KB_CTRL, KB_ALT, directory, todo, down, events>>

(* fb_clear(0,15), cell by cell. *)
ClearCell ==
  /\ At("clear")
  /\ screen' = [screen EXCEPT !.fb = fb_write_cell(screen.fb, i, Blank, 0, 15)]
  /\ i' = i + 1
  /\ pc' = IF i' = ScreenSize THEN "move" ELSE "clear"
  /\ UNCHANGED <<call, reg, index, raced>>

(* fb_move_cursor(3): the assignment; the writes to the ports follow. *)
MoveCursor ==
  /\ At("move")
  /\ screen' = [screen EXCEPT !.cursor = 3]
  /\ call' = "move"
  /\ pc' = "select high"
  /\ UNCHANGED <<i, reg, index, raced>>

(* fb_print_cell('>',0,15): the argument cursor_pos of fb_write_cell... *)
PrintArgument ==
  /\ At("print")
  /\ reg' = screen.cursor
  /\ call' = "print"
  /\ pc' = "print write"
  /\ UNCHANGED <<screen, i, index, raced>>

(* ... and the cell it writes. *)
PrintWrite ==
  /\ At("print write")
  /\ screen' = [screen EXCEPT !.fb = fb_write_cell(screen.fb, reg, Prompt, 0, 15)]
  /\ pc' = "load"
  /\ UNCHANGED <<call, i, reg, index, raced>>

(* fb_offset_cursor(1): cursor_pos = cursor_pos + 1. *)
LoadCursor ==
  /\ At("load")
  /\ reg' = screen.cursor
  /\ pc' = "store"
  /\ UNCHANGED <<screen, call, i, index, raced>>

StoreCursor ==
  /\ At("store")
  /\ screen' = [screen EXCEPT !.cursor = reg + 1]
  /\ pc' = "above"
  /\ UNCHANGED <<call, i, reg, index, raced>>

(* Its loop while cursor_pos is behind the screen. *)
TestAbove ==
  /\ At("above")
  /\ pc' = IF screen.cursor > ScreenSize THEN "load row" ELSE "below"
  /\ UNCHANGED <<screen, call, i, reg, index, raced>>

LoadRow ==
  /\ At("load row")
  /\ reg' = screen.cursor
  /\ pc' = "store row"
  /\ UNCHANGED <<screen, call, i, index, raced>>

(* Variant: the loop does not take the cursor back. *)
StoreRowSame ==
  /\ At("store row")
  /\ screen' = [screen EXCEPT !.cursor = reg]
  /\ pc' = "scroll"
  /\ UNCHANGED <<call, i, reg, index, raced>>

StoreRow ==
  /\ At("store row")
  /\ screen' = [screen EXCEPT !.cursor = reg - FB_NUM_COLUMNS]
  /\ pc' = "scroll"
  /\ UNCHANGED <<call, i, reg, index, raced>>

Scroll ==
  /\ At("scroll")
  /\ screen' = [screen EXCEPT !.fb = fb_scroll(screen.fb)]
  /\ pc' = "above"
  /\ UNCHANGED <<call, i, reg, index, raced>>

(* Variant: the loop is missing. *)
TestNothing ==
  /\ At("below")
  /\ pc' = "select high"
  /\ UNCHANGED <<screen, call, i, reg, index, raced>>

(* Its loop while cursor_pos < 0: a callback that takes the cursor up      *)
(* between the test of the first loop and its subtraction leads here.      *)
TestBelow ==
  /\ At("below")
  /\ pc' = IF screen.cursor < 0 THEN "load below" ELSE "select high"
  /\ UNCHANGED <<screen, call, i, reg, index, raced>>

LoadBelow ==
  /\ At("load below")
  /\ reg' = screen.cursor
  /\ pc' = "store below"
  /\ UNCHANGED <<screen, call, i, index, raced>>

StoreBelow ==
  /\ At("store below")
  /\ screen' = [screen EXCEPT !.cursor = reg + FB_NUM_COLUMNS]
  /\ pc' = "shift"
  /\ UNCHANGED <<call, i, reg, index, raced>>

Shift ==
  /\ At("shift")
  /\ screen' = [screen EXCEPT !.fb = fb_shift_down(screen.fb, FB_NUM_ROWS)]
  /\ pc' = "below"
  /\ UNCHANGED <<call, i, reg, index, raced>>

-----------------------------------------------------------------------------
(* The four writes of a location to the controller, each of a data byte    *)
(* after its argument is computed.                                         *)

SelectHigh ==
  /\ At("select high")
  /\ index' = "high"
  /\ pc' = "high argument"
  /\ UNCHANGED <<screen, call, i, reg, raced>>

(* Variant: the location is not shifted down to its high byte. *)
HighUnshifted ==
  /\ At("high argument")
  /\ reg' = screen.cursor
  /\ pc' = "write high"
  /\ UNCHANGED <<screen, call, i, index, raced>>

HighArgument ==
  /\ At("high argument")
  /\ reg' = screen.cursor \div RegisterSize
  /\ pc' = "write high"
  /\ UNCHANGED <<screen, call, i, index, raced>>

(* outb(FB_DATA_PORT, v): the register is the one that index selects. *)
WriteData(v) ==
  screen' = [screen EXCEPT !.crtc =
               IF index = "high" THEN v * RegisterSize + (screen.crtc % RegisterSize)
                                 ELSE (screen.crtc \div RegisterSize) * RegisterSize + v]

WriteHigh ==
  /\ At("write high")
  /\ WriteData(reg)
  /\ pc' = "select low"
  /\ UNCHANGED <<call, i, reg, index, raced>>

(* Variant: the low register is not selected again. *)
SelectNothing ==
  /\ At("select low")
  /\ pc' = "low argument"
  /\ UNCHANGED <<screen, call, i, reg, index, raced>>

SelectLow ==
  /\ At("select low")
  /\ index' = "low"
  /\ pc' = "low argument"
  /\ UNCHANGED <<screen, call, i, reg, raced>>

LowArgument ==
  /\ At("low argument")
  /\ reg' = screen.cursor % RegisterSize
  /\ pc' = "write low"
  /\ raced' = FALSE
  /\ UNCHANGED <<screen, call, i, index>>

WriteLow ==
  /\ At("write low")
  /\ WriteData(reg)
  /\ pc' = IF call = "move" THEN "print" ELSE "idle"
  /\ UNCHANGED <<call, i, reg, index, raced>>

(* while(1) { ; } *)
Idle == At("idle") /\ UNCHANGED bootVars

kmain ==
  \/ ClearCell \/ MoveCursor \/ PrintArgument \/ PrintWrite
  \/ LoadCursor \/ StoreCursor \/ TestAbove \/ LoadRow \/ StoreRow \/ Scroll
  \/ TestBelow \/ LoadBelow \/ StoreBelow \/ Shift
  \/ SelectHigh \/ HighArgument \/ WriteHigh \/ SelectLow \/ LowArgument \/ WriteLow

-----------------------------------------------------------------------------
(* The callback.                                                           *)

(* Does the callback for byte call fb_offset_cursor or fb_move_cursor?     *)
MovesCursor(byte) ==
  LET k == read_scan_code(byte)
  IN  IF compute_key(k, KB_SHIFT) = NUL
        THEN k.is_tab \/ k.is \cap {BACKSPACE, RETURN, DELETE, ARROW_LEFT,
                                    ARROW_RIGHT, ARROW_UP, ARROW_DOWN} # {}
        ELSE ~k.released

(* The functions that move the cursor end with the low register selected,  *)
(* and with all of the location written.                                   *)
CallbackStep(moves) ==
  /\ index' = IF moves THEN "low" ELSE index
  /\ raced' = IF moves THEN pc = "write low" ELSE raced
  /\ UNCHANGED <<pc, call, i, reg>>

PressKey == \E key \in Keys : Press(key) /\ CallbackStep(MovesCursor(key))

ReleaseKey ==
  \E key \in Keys :
    Release(key) /\ CallbackStep(MovesCursor(key + KBD_RELEASE))

EscapeLine ==
  /\ PrintMessage \/ switch_page_directory
  /\ CallbackStep(TRUE)

BootNext == kmain \/ Idle \/ PressKey \/ ReleaseKey \/ EscapeLine

(* The CPU goes on with a callback, and with kmain when none runs. *)
Fairness == WF_bootVars(kmain) /\ WF_bootVars(EscapeLine)

BootSpec == BootInit /\ [][BootNext]_bootVars /\ Fairness

-----------------------------------------------------------------------------
(* Properties.                                                             *)

(* The variables of kmain and the controller have their types. *)
BootTypeOK ==
  /\ screen.cursor \in (-FB_NUM_COLUMNS)..(ScreenSize + FB_NUM_COLUMNS)
  /\ screen.crtc \in 0..(RegisterSize * RegisterSize - 1)
  /\ i \in 0..ScreenSize
  /\ reg \in (-FB_NUM_COLUMNS)..(ScreenSize + FB_NUM_COLUMNS)
  /\ index \in {"high", "low"}
  /\ call \in {"move", "print"}
  /\ raced \in BOOLEAN

(* When kmain is done, whatever the callbacks did between its tests, loads *)
(* and stores of cursor_pos (vga.c:58-73), the cursor is on the screen or  *)
(* on the row behind it, from where fb_write_cell stays in the memory of   *)
(* the adapter.  A callback between the test of the second loop and its    *)
(* addition can leave the cursor in that row.                              *)
CursorSettles == pc = "idle" => screen.cursor \in 0..(ScreenSize + FB_NUM_COLUMNS)

(* fb_move_cursor "Moves the cursor of the framebuffer to the given        *)
(* position" (vga.c:10): whenever kmain waits and no callback runs, the    *)
(* controller shows the cursor at cursor_pos.                              *)
HardwareFollows == pc = "idle" /\ todo = <<>> => screen.crtc = screen.cursor

(* A callback in the middle of kmain's port writes (vga.c:76-79) redirects *)
(* kmain's next data byte to the low register.  It can leave a stale low   *)
(* byte there, but never a wrong high byte: the cursor shown is on the     *)
(* right page of the screen even when it is not on the right cell.         *)
HighByteFollows ==
  pc = "idle" /\ todo = <<>>
    => screen.crtc \div RegisterSize = screen.cursor \div RegisterSize

(* One race alone leaves a stale low byte: unless a callback moved the     *)
(* cursor between kmain's load of cursor_pos for that byte (vga.c:79) and  *)
(* its outb, and none has since, the controller shows the cursor at        *)
(* cursor_pos.  All other interleavings of the eight port writes are       *)
(* harmless, those that send kmain's bytes to the wrong register too.      *)
StaleOnlyIfRaced == raced \/ HardwareFollows

(* kmain gets to its loop, however many callbacks interrupt it and         *)
(* wherever they leave the cursor.                                         *)
BootCompletes == <>(pc = "idle")

=============================================================================
