# Verification of HavenOS

HavenOS is a small 32-bit x86 kernel. GRUB loads it, `loader.s` calls `kmain`, and `kmain`
initialises the descriptor tables, paging, the serial port, the timer and the keyboard, prints a
prompt and spins. From then on everything happens in interrupt handlers: the keyboard driver edits
the text on the VGA screen.

This directory holds TLA+ modules that model the kernel's core, TLC configurations that check them
on small instances, and TLAPS proofs that establish the main properties for all instances.
`PROJECT.json` lists the runs, the theorems, the source lines behind each definition, the findings
and the hazards.

## Inventory

| part | source | state | operations | hard because | correct when |
|---|---|---|---|---|---|
| interrupt delivery | `interrupt_table.c`, `interrupt.s`, `isr.c` | IDT, `interrupt_handlers`, IF, in-service registers of two PICs, stack | `init_descriptor_tables`, stubs, `isr_handler`, `irq_handler`, `register_interrupt_handler` | asynchronous entry, early end of interrupt, `sti` inside the stubs, exceptions with and without error code | handlers never nest, everything is acknowledged, the stack is balanced, no device is forgotten |
| screen | `vga.c` | frame buffer, `cursor_pos`, CRT controller | 27 functions | boundaries, scrolling, off-by-one loops | the cursor stays on the screen, rows move as a whole, writes stay near the screen |
| keyboard | `keyboard.c` | `KB_SHIFT`, `KB_CTRL`, `KB_ALT` | `read_scan_code`, `compute_key`, `keyboard_callback` | signed bytes, long key sequences | flags follow the keys, a release does nothing, editing is consistent |
| kernel entry | `kmain.c` | shares the screen with the keyboard | `kmain` | interrupts on before the drivers are registered and before the last screen calls | the screen and the controller agree when `kmain` is done |
| placement allocator | `kmemory.c` | `placement_address` | `kmalloc`, `_a`, `_p`, `_ap` | alignment, wrap-around | chunks are disjoint, aligned and outside the image |
| paging | `paging.c`, `pager.s` | two directories, two tables, CR3, CR0 | `initialise_paging`, `switch_page_directory`, `page_fault` | the kernel must stay mapped across a switch; a fault handler that is never registered | the identity map covers what the kernel uses |
| timer | `timer.c` | `tick`, PIT divisor | `init_timer`, `timer_callback` | 16-bit divisor, byte order | the programmed rate is the one asked for |
| serial and log | `serial.c`, `log.c` | `serial_open`, UART registers | `serial_configure_*`, `serial_write`, `print_debug*` | busy wait, `length-1` | what is logged is what was given |
| strings, memory, panic | `string.c`, `common.c` | none | `strcmp`, `strcpy`, `strcat`, `int_to_str`, `memmove`, `PANIC`, ... | boundary values, loops | agree with a reference definition |
| segment table, port I/O, boot | `mem.c`, `gdt.s`, `io.s`, `loader.s` | - | - | - | - |

How they interact: `kmain` calls everything once; after `sti` the controllers interrupt it, the
stubs call `irq_handler`, which calls the callback a driver has registered; the keyboard's callback
calls the screen's functions and, for the Escape key, `switch_page_directory`. `cursor_pos`, the
frame buffer and the CRT controller are shared by `kmain` and the callback, without any lock.

## Modules

| module | models | extends / instantiates |
|---|---|---|
| `InterruptService` | abstract: requests of lines are served one at a time, the most urgent first | |
| `Interrupts` | interrupt delivery against two cascaded 8259 controllers | implements `InterruptService` |
| `Vga` | the functions of `vga.c` as operators on a record of cursor, controller and frame buffer | |
| `Screen` | any sequence of calls of the screen's functions | extends `Vga` |
| `Keyboard` | the keyboard's callback and a user who presses and releases keys | extends `Vga` |
| `Boot` | the end of `kmain`, instruction by instruction, interrupted by the keyboard's callback | extends `Keyboard` |
| `Allocator` | abstract: an allocator that never frees | |
| `KMemory` | the placement allocator | implements `Allocator` |
| `Paging` | `initialise_paging`, the MMU, the switch of directories, with allocations before and after | extends `KMemory` |
| `LogChannel` | abstract: a log that loses, doubles and reorders nothing | |
| `Serial` | the port writes of `serial.c`, the lengths of `log.c`, a 16550 UART | |
| `Timer` | the port writes of `init_timer`, an 8253 timer | |
| `Startup` | `kmain` configures the port, logs and starts the timer; the devices run beside it | extends `Serial`, `Timer`; implements `LogChannel` |
| `Strings` | the functions of `string.c` and the block functions of `common.c` on a memory of bytes | |
| `Library` | any sequence of calls of them; `page_fault`'s message | extends `Strings` |
| `MC...` | constants for TLC | the module it is named after |
| `InterruptsProofs`, `ScreenProofs`, `KeyboardProofs`, `BootProofs`, `StartupProofs`, `LibraryProofs` | theorems and proofs | the module they are named after |
| `VgaProofs` | lemmas about the operators of `Vga` | extended by `ScreenProofs` and `KeyboardProofs`, and this by `BootProofs` |
| `MemoryProofs` | theorems and proofs about `KMemory` and `Paging` | extends `Paging` |

### Interrupts

`stack` is the sequence of activations of the stubs, the running one first. An activation has the
vector, the interrupt flag saved in EFLAGS, a program counter and the number of words it has on the
stack. The steps are the CPU going through a gate (`EnterGate`), the stub's prologue (`StubEnter`:
`cli`, dummy error code, vector, `pusha`, `ds`), the two end-of-interrupt commands in
`irq_handler`'s order (`SendSlaveEoi`, `SendMasterEoi`), the callback (`Dispatch`), the epilogue
(`StubExit`) and `sti; iret` (`StiIret`), which is one step because `sti` takes effect after the
next instruction. The controllers are hardware: their edge latch, priorities, spurious interrupts
and non-specific end of interrupt are modelled from the way `init_idt` programs them. A device
either drops its line by itself (`Pulsed`, the PIT) or holds it until its driver reads it (`Held`,
the keyboard). Lines rise once the controllers are set up, and the drivers register behind `kmain`'s
`sti`, as `init_timer` and `init_keyboard` do. An exception may be raised by `kmain` or inside a
callback.

`InterruptService` has a set of pending lines and at most one that is being served. `Interrupts`
implements it: the latched edges are pending, and the line of the outermost activation is served
from the acknowledge cycle to `iret`. The refinement says that nothing the stubs do loses an edge
or lets a second service begin, and its fairness that a line which is the most urgent again and
again gets its turn.

### Vga, Screen

A cell is a character and an attribute of two nibbles. `fb_copy_row` is modelled with its extra
iteration and with the attributes it copies one cell askew; `fb_offset_cursor` with both its loops,
of which `LoopCount` gives the number of iterations. The operators were compared with the compiled
C functions on random sequences of calls and agree. `Cells` includes the memory behind the screen that the driver also
writes. Format strings are sequences of pieces. `Screen` starts with a different character in each
cell, which shows where every cell comes from; `PANIC` ends the sequence of calls.

### Keyboard

`read_scan_code` decodes with C's signed `char`: a flag `scancode == X || scancode == X + 0x80`
becomes the membership of X in the set `is`. `KeyChar` stands for the character tables. A callback
is one step, because callbacks are not interrupted (`NoNesting`); the line that Escape prints goes
to the screen piece by piece, while no other callback can begin. The user may press, hold and
release any key in `Keys`, and the keyboard may send its prefix byte. The extra Shift codes that a
keyboard sends with Num Lock around the extended keys are not modelled.

### Boot

The kernel is compiled without optimisation, so `kmain`'s calls are split where a callback can tell:
`cursor_pos` is loaded into `reg` and stored in another step, the argument of `outb` is computed
before the port is written, the index port and the data port are written separately. `screen.crtc`
is the value of the controller's two registers. The two bytes of a cell, `fb_scroll` and
`fb_shift_down` are written in one step: callbacks write the same attribute, and no property is
about the contents of the cells. A callback may run between any two steps.

`kmain` only moves the cursor forward, but both loops of `fb_offset_cursor` matter. The first tests
`cursor_pos` and then subtracts a row; a callback in between that takes the cursor to the top of the
screen makes the difference negative, and the second loop brings it back. That loop, too, tests
before it adds: a callback in between leaves the cursor up to a row behind the screen, where it
stays until the next key. `kmain` writes no cell while the cursor is negative; a character typed at
that moment goes to memory in front of the frame buffer, which the model leaves out. `raced` is a history variable: it is set when a
callback moves the cursor while `kmain` holds the low byte of the old location in a register, and
cleared when the location is next computed or written as a whole.

### KMemory, Allocator, Paging

Addresses are words (`% WordSize`); `wrapped` remembers that one has passed the end of the address
space. `chunks` is the history of results. `Allocator` has a set of owned addresses and may give
out any region that nobody owns; `KMemory` implements it with the image and the extents of all
chunks as the owned addresses, and a wrap-around as exhaustion.

`Paging` writes the directories and tables word by word in `initialise_paging`'s order, with the
flags in the low bits of an entry. `Translate` is the MMU: it walks whatever words `cr3` points to.
Allocations come before `initialise_paging` and after it, and the Escape key switches directories
at any time after it. The delays and the printed lines are left out.

### Serial, Timer, Startup, LogChannel

A call of `kmain` is the sequence of its port writes; each write, each poll of the status register,
each character the UART sends and each tick is a step. The UART's data port is the divisor latch
while DLAB is set, a character written to a full FIFO is lost, and enabling the FIFO clears it; the
timer takes a low and a high byte and keeps its period until it has both. Texts are logged by any
function of `log.c` between any two of `kmain`'s calls, so also before the port is open.
`LogChannel` is what a reader of the log should be able to rely on: lines come complete, in order and
once, and everything logged is sent. The characters in the FIFO and those that `serial_write` has
still to send are the pending ones. `WholeLog` is the channel with every line whole (`LogLines`),
which `Startup` does not implement, because `print_debug_dec` drops a digit; `Channel` also has
lines whose number is cut short (`CutLines`), and that one it implements.

### Strings, Library

A memory is a function from addresses to bytes, and the copying functions go byte by byte, so that
overlaps and appends in place do what the C loops do. `int_to_str` divides as C does, and negates
as the machine does. `Library` calls the functions with every argument for which they stay in
memory. `page_fault` needs 64 bytes and is modelled by the lengths of what it appends: the string's
length and the highest index written, which `AppendsInPlace` justifies.

Definitions whose comment begins with "Variant:" are what the code would be with a plausible bug.
They are used by no specification; `PROJECT.json` pairs each with a property that it breaks.

## Runs

| run | checks | bounds, and why they are enough |
|---|---|---|
| `interrupts` | handlers do not nest, nothing stays in service, the stack is balanced at `iret`, only `kmain`'s `sti` enables; `Interrupts` implements `InterruptService`, fairness included; a waiting device's registered driver is called | PIT, keyboard and RTC lines (both controllers, pulsed and held), both spurious interrupts, `int 3` and a page fault nested two deep; devices wait for their driver (the theorems about the first four are for devices that do not, too) |
| `interrupts_early` | violation: the same with devices that do not wait | the keyboard's line alone: one key before `init_keyboard` is enough |
| `screen` | cursor range, scrolling, shifting down, writes behind the screen | 3 rows of 4 cells, 4 calls: a row above, between and below; a text as wide as a row |
| `screen_shift` | violation: first characters lost by `fb_shift_down` | as `screen` |
| `keyboard` | cursor range, Shift, releases, Backspace | 2 rows of 4 cells, 18 keys of every kind, 4 events: enough to wrap over both ends of the screen and to interleave both Shift keys |
| `keyboard_ctrl` | violation: KB_CTRL stuck | two events |
| `boot` | cursor range, high byte of the hardware cursor, a stale low byte only after a callback between the load of `cursor_pos` and the `outb` of that byte, termination of `kmain` | 3 key events anywhere in `kmain`; 2 rows of 3 cells, so that three keys take `kmain` into both loops of `fb_offset_cursor`; registers of 4 values, so that a page ends within a row |
| `boot_race` | violation: the hardware cursor follows `cursor_pos` without exception | as `boot` |
| `memory` | allocations are disjoint, aligned, without needless gaps, and implement `Allocator`; the first pages are mapped to themselves, no others are, in both directories; `*phys` is physical | 25 pages of 4 bytes, 5 of them mapped, sizes from 0 to enough to wrap, 3 allocations around `initialise_paging`: chunks below, across and above the mapped pages |
| `startup` | `Startup` implements `LogChannel`, but for the last digits of numbers; rate and format of everything sent; the timer's period at every moment; `kmain` gets through | registers of 4 values and a FIFO of 2, so that a line is longer than the FIFO and a divisor has two bytes; 2 calls of `log.c` at any point; divisors of 0, 1, one byte, two bytes, the largest and too large |
| `startup_dec` | violation: `Startup` implements `LogChannel` with whole numbers | as `startup`, one call of `log.c` |
| `library` | moves with overlap, appends in place, slices and comparison, numbers, the fault message | every content of 8 bytes over three characters, enough for an append in place with all its bytes; 8-bit ints around every change of digits and sign |

`CHECK_DEADLOCK FALSE` is set where the only end is the bound on calls or events (`Screen`,
`Keyboard`, `Paging`, `Startup`). In `Boot` deadlock is checked: `kmain` has a step in every state in which no callback
runs.

Fairness. `Interrupts`: weak fairness of the stubs and of `init_descriptor_tables` (the CPU goes on
executing), strong fairness of `kmain`'s `sti` and of the callbacks' progress (each exception
inside them returns, and there are finitely many), strong fairness of taking an edge (the
controller keeps its INT output up until the CPU, which keeps returning to `kmain`, takes it).
`Boot`: weak fairness of `kmain` and of the callback in progress. `Startup`:
weak fairness of `kmain` (interrupt handlers return) and of the UART, which sends what it holds on
its own clock. No fairness is assumed of users and other devices, nor of logging.

### Findings

The five violation runs are disagreements between the code and its own comments:

1. A key pressed before `init_keyboard` has registered its callback silences the keyboard for good
   (`interrupts_early`): the interrupt, taken behind `kmain`'s `sti`, is acknowledged, and the byte
   is not read.
2. `fb_shift_down` loses the first character of the rows it moves (`screen_shift`).
3. `KB_CTRL` (and, in the same way, `KB_ALT`) is never cleared, because `char` is signed (`keyboard_ctrl`).
4. A key during `kmain`'s last call can leave the hardware cursor on a stale cell (`boot_race`).
   The `boot` run shows that only the low byte can be wrong, and that this one interleaving is the
   only way to it.
5. `serial_write` sends `length - 1` characters, although `serial.c:95` calls `length` the length of
   the string to write; `print_debug_dec` passes `strlen(buffer)` (`log.c:24`), and the last digit of
   the number is not sent (`startup_dec`). `LogLines` is what should be sent for each call.
   `CutLines` has the numbers cut short as well, and with it `Startup` does implement the channel.

Limits that the models show and that no run is spent on:

- A character printed while the cursor rests on the cell behind the screen is not shown
  (`CursorInRange` allows that cell), and the allocator wraps around silently, after which chunks may
  overlap (`ImplementsAllocator` and `DisjointUntilWrap` promise nothing from then on).
- `kmain` passes `sizeof(boot_message)` to `print_debug`, which sends the NUL too.
- Both bytes of the baud divisor go to the same register; only divisors below 256 work.
- `int_to_str` prints the least int with characters below `'0'` (`NumbersPrinted`). `strcmp` never returns -1 (`string.c:100-101`
  says it should), and `strcpy` copies no terminator (`string.c:122`); neither matters to a caller.
- `strcat` in place clears a byte that lies behind the string by the length of what was appended.
  The 64 bytes of `page_fault` suffice for it for every fault in ring 0; they would not for a
  write from user mode to a page that is not present, but the kernel has no user mode, and
  nothing registers `page_fault`.
- `strslice` writes one byte more than `fb_fprint_str`'s `typeHint` has (`vga.c:387-389`):
  `HintsRecognised` asks for `to - from + 2` bytes and says that the last one is written.
- `strcat` with an empty string runs on behind it (`strw_flo`'s loop copies before it tests), so
  that `AppendsInPlace` is about nonempty strings, which is what `page_fault` has.

## Proofs

All theorems hold for every value of the constants that satisfies the modules' named assumptions.

**InterruptsProofs.** `NoNesting`, `NothingLeftInService` and `IretFrameIntact` are not inductive.
`IInv` adds, for every activation, the exact number of words on the stack at each point
(`WordsAt`); that only the running activation is anywhere but at the call of its callback; that
only the outermost one can have been entered with interrupts on or be an IRQ's; and that the
controllers have in service at most what the running activation has yet to acknowledge. The lemmas
`PushFrame`, `MoveFrame` and `PopFrame` say what the three operations on the stack do, and the proof
has one step per action. `HeldLinesServed` needs `~EarlyDevices`, and a second invariant: a line is
high only if its driver is registered.

The refinement (`ServiceImplemented`) needs one more fact, that the controllers latch nothing before
they are initialised: `init_descriptor_tables` would forget it. `ServingAfterPush`, `ServingAfterMove`
and `ServingAfterPop` say what the three operations on the stack do to the line that is served.

**VgaProofs.** What each function of `vga.c` makes of a screen, for every size of it. Loops are
recursive functions in the model, and TLAPS has no usable induction principle for them; the module
proves one. `Least` (every nonempty set of naturals has a least element, from the library's
well-foundedness of `<`) gives `SetInduction` and `Induction`, and `Recursion` shows that a function
with given equations exists, so that the `CHOOSE` behind a recursive definition finds it. All four
are about sets and functions rather than operators, which the provers can instantiate. On them rest
`ScrollCopies` and `ShiftDownCopies` (the state of the frame buffer after k rows), `ScrollIs` and
`ShiftDownIs` (what the two functions do to all rows), `ScrolledIs` and `ShiftedDownIs` (any number
of scrolls), and `FormatIs` (`fb_fprint_str` for any format). `OffsetOnScreen` is the arithmetic of
`fb_offset_cursor` for *any* offset.

**ScreenProofs.** `ScreenInv` says that the screen is one of `Screens(BootFb)`: the cursor in range,
every cell with a character and two nibbles, and the cells further behind the screen than any function
reaches still those of boot. It implies `TypeOK`, `CursorInRange` and `WritesNearScreen`;
`ScrollMovesUp` and `ShiftDownMovesRows` hold of every frame buffer that it allows. The proof needs
what the callers guarantee and `ScreenAssumption` now states: texts no longer than a row,
rectangles within the screen, pieces of a format of a kind that `fb_fprint_str` knows.

**KeyboardProofs.** The invariant is again that the screen is one of `Screens`, and that what is left
of the Escape key's line is made of pieces `PrintPiece` knows. `ShiftNeverStuck` and
`ReleasesEditNothing` rest on what `read_scan_code` makes of make and break codes (`MakeCode`,
`BreakCode`). `BackspaceUndoes` follows one character through `fb_print_cell` and Backspace's two
moves; where neither scrolls, `OffsetStays` says that the frame buffer is left alone.

**BootProofs.** A callback either leaves the cursor and the controller alone, or leaves the cursor on
the screen, the controller showing it and the low register selected (`EditMoves`, `PieceShown`,
`LineEndShown`). `BootInv` gives, for each instruction of `kmain`, the range of the cursor and of the
value in `reg` that such callbacks can lead to (`Ranges`), and how far the controller follows the
cursor (`Ports`): before the high byte is written either the high register is selected and `reg` is
right, or a callback has selected the low one and shown the whole location. Number and place of
callbacks do not matter any more then. `Registers` and `Location` are the arithmetic of two
registers. The only assumption is that a location on the screen or on the row behind it fits both.

**StartupProofs.** `Inv` follows `kmain` from port write to port write: which calls and which writes of
the current call are left (`Phase`), what the UART's and the timer's registers hold by then
(`UartInv`, `PitInv`), and what `serial_write` has yet to send (`LogInv`). `LogImplemented` maps the
FIFO and the rest of the current call's characters to the channel's pending ones; it is about
`CutLines`, and `TextsLoggedWhole` adds that the log is whole where no numbers are logged. `StartupAssumption`
asks for a baud-rate divisor of one byte, as `kmain`'s is (both bytes go to one register),
and for texts whose length with a terminator is a word.

**MemoryProofs.** `DisjointUntilWrap` says nothing of where the next chunk goes; `Bounded` adds that
all chunks lie below `placement_address` and that the last one ends there. `AlignIs` is the
arithmetic of rounding up. `AllocatorImplemented` is the refinement of `Allocator`: a call that does
not wrap takes a region above everything `Bounded` says is taken, and `ExtentIs` says that such a
region is an interval; a call that wraps maps to `Exhaust`. For paging, the invariant says how far
each loop of `initialise_paging` has filled which array, and that nobody writes them afterwards;
`TranslateIs` then follows the MMU's walk. `AllocatorUnchanged` carries the allocator's theorems over
to the composition.

**LibraryProofs.** For memories of every size, with any contents, and strings of every length (for
`strcat` nonempty ones). The
invariant is small (memory is a function on its addresses; `Building` gives, for what `page_fault` has
yet to append, the length its message can have): the work is in what the loops compute. `MemcpyIs`,
`BackwardsIs` and `MemmoveIs` follow a copy byte by byte, by induction as in `VgaProofs`; `StrlenIs`
and `LengthUnique` make `strlen` the one length a string has; `ReadsAhead` says that the loops of
`strcpy`, `strslice` and `strw_flo` never look at a byte they have overwritten, so that `FirstIs` finds
where they end. `BothParts` and `StrcatIs` put the two halves of `strcat` together, in place too,
where its last index is computed from a string that has grown by then. What callers must
guarantee is in the guards of `Library`'s actions.

`NumbersArePrinted` is for ints of every width that is a multiple of four bits. `Digits` recurs on a
number and `Value` on a string; neither has a bound, so each gets an explicit function that satisfies
its equations, and a proof that no other does. `Quotients` is what is left of every number after k
rounds of `int_to_str`'s loop: it has a value for each k by `Recursion`, shrinks (`Shrinks`), so that
the loop ends (`Finished`), and is odd (`Mirror`), which is C's division of negative numbers. `Count`
is the number of rounds; `DigitsAre` says that the loop writes the remainders of these quotients, and
`ValueIs` (Horner's rule) goes back from the remainders to the number, in base 10 and 16 alike, and
from the negative remainders of the least int too.
`CountWidest` says that no int, the least one included, has more digits than the greatest: the least
is no multiple of ten (`LastDigit`), so that the two have the same quotient. The only assumption is
`RoomAssumption`, a buffer for the widest number, its sign and a null character: the callers have 12
and 32 bytes for 11 characters (`log.c:22`, `vga.c:394`), and 9 for eight hexadecimal digits
(`paging.c:155`, `vga.c:408`).

Proof attempts changed the model in three places. `ShiftDownMovesRows` had a `CASE` whose arms
overlapped, which TLC resolves and the logic does not; it is two implications now. And `Boot` had
no second loop of `fb_offset_cursor`, which three keys on TLC's former screen could not reach: its
invariant was not inductive there. `Strings` has `Power` in place of `^`, of which the provers know
no equation.

Only model-checked: liveness (`RegisteredDriverCalled`, `BootCompletes`, `StartupCompletes`, the
fairness in `ImplementsService` and `ImplementsChannel`), because the prover does not handle fairness.
Every invariant and every action property that a run checks is proved.

## Not modelled

`init_gdt` and `idt_set_gate` pack constants into the bytes of descriptors, once, with interrupts
off; `loader.s` calls `kmain`; the instructions of `io.s` are the port writes of `Serial`, `Timer`
and `Boot`. The three parts of `kmain` are separate specifications (`Interrupts`, `Startup`,
`Boot`): together they have too many states, and they share no variable. `load_idt_c`,
`enable_paging`, `asm_enable_paging`, `asm_load_page_directory` and `get_is_pad` have no caller.
`delay` only takes time.

`grub-0.97/` is the source of the GNU GRUB boot loader, unchanged, and `iso/`, `bochs/` and the
images are its binaries, an emulator's configuration and disk images. They are third-party code
that the kernel's build only copies, and are nearly all of the repository's lines; the kernel itself has
about 2,800. `loader-old.s` and `link old.ld` are unused.

## Plan

1. An abstract line editor that `Keyboard` implements while it does not scroll.
2. The layout of the descriptors that `gdt_set_gate` and `idt_set_gate` write, decoded as the CPU
   does.
