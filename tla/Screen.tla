------------------------------- MODULE Screen -------------------------------
(***************************************************************************)
(* The screen driver as the rest of the kernel uses it: any sequence of    *)
(* calls of the functions of vga.h, with arguments in the ranges that the  *)
(* callers in keyboard.c, paging.c, timer.c, common.c and kmain.c use:     *)
(* positions, rectangles and texts that fit, offsets of at most a row.     *)
(*                                                                         *)
(* What a cell holds at boot stands for where a character comes from: cell *)
(* i starts with a character and an attribute of its own.  The driver      *)
(* moves cells without looking at them, so what holds of these contents    *)
(* holds of all contents.                                                  *)
(***************************************************************************)
EXTENDS Vga

CONSTANTS
  Chars,     (* characters that are printed                                *)
  Positions, (* arguments of fb_move_cursor and fb_write_cell              *)
  Offsets,   (* arguments of fb_offset_cursor                              *)
  Texts,     (* strings                                                    *)
  Formats,   (* format strings, as sequences of pieces                     *)
  Rects,     (* rectangles <<x, y, width, height>>                         *)
  MaxCalls   (* bound on the number of calls                               *)

(* The characters at boot are none of the printed ones. *)
BootChar(i) == 1000 + i

BootAttr(i) == <<(i \div 16) % 16, i % 16>>

ASSUME ScreenAssumption ==
  /\ Chars \subseteq 0..255
  /\ Positions \subseteq Visible
  /\ Offsets \subseteq (-FB_NUM_COLUMNS)..FB_NUM_COLUMNS
  /\ Texts \subseteq Seq(Int)
  /\ \A t \in Texts : Len(t) <= FB_NUM_COLUMNS
  /\ Formats \subseteq Seq([kind : {"char", "number", "newline", "unknown"}, text : Seq(Int)])
  /\ \A f \in Formats : \A i \in 1..Len(f) :
       /\ Len(f[i].text) <= FB_NUM_COLUMNS
       /\ f[i].kind = "char" => Len(f[i].text) = 1
  /\ Rects \subseteq Nat \X Nat \X Nat \X Nat
  /\ \A r \in Rects : r[1] + r[3] <= FB_NUM_COLUMNS /\ r[2] + r[4] <= FB_NUM_ROWS
  /\ MaxCalls \in Nat

VARIABLES
  screen,
  halted,    (* is the kernel in the loop that ends PANIC?                 *)
  calls

vars == <<screen, halted, calls>>

Init ==
  /\ screen = [cursor |-> 0,
               crtc |-> 0,
               fb |-> [chars |-> [i \in Cells |-> BootChar(i)],
                       attrs |-> [i \in Cells |-> BootAttr(i)]]]
  /\ halted = FALSE
  /\ calls = 0

(* A call that ends, or never returns, with the screen s. *)
CallOf(s, ends) ==
  /\ calls < MaxCalls
  /\ ~halted
  /\ halted' = ~ends
  /\ calls' = calls + 1
  /\ screen' = s

Call(s) == CallOf(s, TRUE)

CallFb(fb) == Call([screen EXCEPT !.fb = fb])

MoveCursor == \E pos \in Positions : Call(fb_move_cursor(screen, pos))

MoveCursorColRow ==
  \E pos \in Positions :
    Call(fb_move_cursor_col_row(screen, pos % FB_NUM_COLUMNS, fb_get_row(pos)))

MoveToStartOfRow == Call(fb_move_cursor_to_start_of_row(screen))

OffsetCursor == \E n \in Offsets : Call(fb_offset_cursor(screen, n))

PrintCell == \E c \in Chars : Call(fb_print_cell(screen, c, 0, 15))

PrintStr == \E t \in Texts : Call(fb_print_str(screen, t, 0, 15))

FprintStr == \E f \in Formats : Call(fb_fprint_str(screen, f, 0, 4))

WriteCell ==
  \E pos \in Positions, c \in Chars : CallFb(fb_write_cell(screen.fb, pos, c, 0, 15))

WriteStr ==
  \E pos \in Positions, t \in Texts : CallFb(fb_write_str(screen.fb, pos, t, 1, 1))

Clear == CallFb(fb_clear(screen.fb, 0, 15))

ClearRow == \E r \in 0..(FB_NUM_ROWS - 1) : CallFb(fb_clear_row(screen.fb, r, 0, 1))

Scroll == CallFb(fb_scroll(screen.fb))

ShiftDown == CallFb(fb_shift_down(screen.fb, fb_get_current_row(screen)))

DrawRect ==
  \E r \in Rects, c \in Chars :
    \/ CallFb(fb_write_frect(screen.fb, c, r[1], r[2], r[3], r[4], 0, 15))
    \/ CallFb(fb_write_rect(screen.fb, c, r[1], r[2], r[3], r[4], 0, 15))
    \/ CallFb(fb_clear_rect(screen.fb, r[1], r[2], r[3], r[4], 4))

(***************************************************************************)
(* The banners fb_inform_isr_done and fb_inform_irq_done, of any text; the *)
(* delay that follows is left out.                                         *)
(***************************************************************************)
InformIsrDone ==
  \E t \in Texts :
    Call(fb_print_str(fb_move_cursor([screen EXCEPT !.fb = fb_clear(screen.fb, 1, 1)], 0),
                      t, 0, 1))

InformIrqDone ==
  \E t \in Texts : Call(fb_print_str(fb_move_cursor_col_row(screen, 0, 1), t, 0, 1))

(* The text goes to the middle of a red screen (color 4).  "if (!col)" is  *)
(* no test of a negative column; these texts fit a row.                    *)
PANIC ==
  \E t \in Texts :
    LET red == [screen EXCEPT !.fb = fb_clear(fb_clear(screen.fb, 0, 0), 4, 4)]
        col == (FB_NUM_COLUMNS \div 2) - ((Len(t) + 1) \div 2)
    IN  CallOf(fb_print_str(fb_move_cursor_col_row(red, col, FB_NUM_ROWS \div 2), t, 4, 0),
               FALSE)

Next ==
  \/ MoveCursor \/ MoveCursorColRow \/ MoveToStartOfRow \/ OffsetCursor
  \/ PrintCell \/ PrintStr \/ FprintStr
  \/ WriteCell \/ WriteStr
  \/ Clear \/ ClearRow
  \/ Scroll \/ ShiftDown
  \/ DrawRect
  \/ InformIsrDone \/ InformIrqDone \/ PANIC

Spec == Init /\ [][Next]_vars

-----------------------------------------------------------------------------
(* Properties.                                                             *)

(* Every cell has a character and an attribute of two nibbles; reading     *)
(* behind the modelled memory would be an error.                           *)
TypeOK ==
  /\ screen.cursor \in Int
  /\ screen.crtc \in Int
  /\ screen.fb.chars \in [Cells -> Int]
  /\ screen.fb.attrs \in [Cells -> (0..15) \X (0..15)]
  /\ halted \in BOOLEAN
  /\ calls \in 0..MaxCalls

(* fb_offset_cursor (vga.c:67-74) brings the cursor back to the screen or  *)
(* to the cell just behind it, whatever was called before: a position from *)
(* which fb_write_cell stays in the memory of the adapter.                 *)
CursorInRange == screen.cursor \in 0..ScreenSize

(* fb_scroll (vga.c:350-361), with the extra cell that each fb_copy_row    *)
(* copies and the attributes it copies askew, moves every visible row up   *)
(* by one and blanks the last.  The attribute of the first cell of the     *)
(* screen stays, whatever the character that moves there.                  *)
ScrollMovesUp ==
  LET old == screen.fb
      new == fb_scroll(old)
  IN  \A i \in Visible :
        IF i + FB_NUM_COLUMNS \in Visible
          THEN /\ new.chars[i] = old.chars[i + FB_NUM_COLUMNS]
               /\ new.attrs[i] = old.attrs[IF i = 0 THEN 0 ELSE i + FB_NUM_COLUMNS]
          ELSE new.chars[i] = Blank

(* fb_shift_down (vga.c:338-344) leaves the rows up to its argument alone  *)
(* and, behind the first column, moves the rows below it down by one, for  *)
(* every row fb_get_current_row can return.                                *)
ShiftDownMovesRows ==
  \A from \in 0..FB_NUM_ROWS :
    LET old == screen.fb.chars
        new == fb_shift_down(screen.fb, from).chars
    IN  \A i \in Visible :
          /\ fb_get_row(i) <= from => new[i] = old[i]
          /\ fb_get_row(i) > from /\ i % FB_NUM_COLUMNS # 0
               => new[i] = old[i - FB_NUM_COLUMNS]

(* fb_shift_down shifts "the contents of buffer down" (vga.c:339): every   *)
(* visible row below the cursor's becomes the row that was above it.       *)
ShiftDownMovesContents ==
  [][ShiftDown => \A i \in Visible :
       fb_get_row(i) > fb_get_current_row(screen)
         => screen'.fb.chars[i] = screen.fb.chars[i - FB_NUM_COLUMNS]]_vars

(* No call, and no chain of scrolls and shifts, writes further behind the  *)
(* screen than one row and two cells: fb_copy_row's check of its arguments *)
(* (vga.c:324) and the callers' ranges keep the writes near the screen.    *)
WritesNearScreen ==
  \A i \in Cells :
    i > ScreenSize + FB_NUM_COLUMNS + 1
      => /\ screen.fb.chars[i] = BootChar(i)
         /\ screen.fb.attrs[i] = BootAttr(i)

=============================================================================
