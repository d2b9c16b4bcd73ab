-------------------------------- MODULE Vga ---------------------------------
(***************************************************************************)
(* The text screen driver, vga.c, as operators.  A screen s is a record:   *)
(*                                                                         *)
(*   cursor  cursor_pos                                                    *)
(*   crtc    the cursor location in the CRT controller                     *)
(*   fb      the frame buffer: for each cell a character and an attribute, *)
(*           the pair of nibbles <<high, low>> of the attribute byte       *)
(*                                                                         *)
(* An operator has the name of the C function it models.  Functions that   *)
(* use only the frame buffer map a frame buffer to a frame buffer.         *)
(*                                                                         *)
(* The memory behind the visible cells belongs to the adapter too, and the *)
(* driver writes to some of it; Cells goes far enough to see where.        *)
(***************************************************************************)
EXTENDS Integers, Sequences

CONSTANTS FB_NUM_COLUMNS, FB_NUM_ROWS

ASSUME VgaAssumption ==
  /\ FB_NUM_COLUMNS \in Nat /\ FB_NUM_COLUMNS >= 3
  /\ FB_NUM_ROWS \in Nat /\ FB_NUM_ROWS >= 1

ScreenSize == FB_NUM_COLUMNS * FB_NUM_ROWS

Visible == 0..(ScreenSize - 1)

Cells == 0..(ScreenSize + 2 * FB_NUM_COLUMNS + 3)

(* The ASCII codes of the two characters the driver prints itself. *)
Blank == 32

QuestionMark == 63

-----------------------------------------------------------------------------
(* Cells and rows.                                                         *)

fb_get_row(i) == i \div FB_NUM_COLUMNS

fb_get_current_row(s) == fb_get_row(s.cursor)

fb_row_column_to_index(column, row) == row * FB_NUM_COLUMNS + column

(* Variant: the colors are not reduced to nibbles. *)
UnmaskedAttribute(fg, bg) == <<fg, bg>>

(* The attribute byte: fg in the high nibble, bg in the low one. *)
Attribute(fg, bg) == <<fg % 16, bg % 16>>

(* Write c with attribute a to every cell of a set. *)
Fill(fb, cells, c, a) ==
  [chars |-> [i \in Cells |-> IF i \in cells THEN c ELSE fb.chars[i]],
   attrs |-> [i \in Cells |-> IF i \in cells THEN a ELSE fb.attrs[i]]]

fb_write_cell(fb, i, c, fg, bg) == Fill(fb, {i}, c, Attribute(fg, bg))

(* str is the sequence of the length characters that are written. *)
fb_write_lstr(fb, i, str, fg, bg) ==
  [chars |-> [k \in Cells |-> IF k - i \in 0..(Len(str) - 1) THEN str[k - i + 1]
                                                             ELSE fb.chars[k]],
   attrs |-> [k \in Cells |-> IF k - i \in 0..(Len(str) - 1) THEN Attribute(fg, bg)
                                                             ELSE fb.attrs[k]]]

(* The same loop, up to the null character. *)
fb_write_str(fb, i, str, fg, bg) == fb_write_lstr(fb, i, str, fg, bg)

fb_clear_row(fb, r, fg, bg) ==
  Fill(fb, {FB_NUM_COLUMNS * r + col : col \in 0..(FB_NUM_COLUMNS - 1)},
       Blank, Attribute(fg, bg))

fb_clear(fb, fg, bg) == Fill(fb, Visible, Blank, Attribute(fg, bg))

-----------------------------------------------------------------------------
(* Rectangles.                                                             *)

RectCells(x, y, width, height) ==
  {fb_row_column_to_index(x + cx, y + cy) : cx \in 0..(width - 1), cy \in 0..(height - 1)}

(* cx and cy are unsigned: height - 1 of an empty rectangle is never met. *)
PerimeterCells(x, y, width, height) ==
  {fb_row_column_to_index(x + p[1], y + p[2]) :
     p \in {q \in (0..(width - 1)) \X (0..(height - 1)) :
              q[2] \in {0, height - 1} \/ q[1] \in {0, width - 1}}}

fb_write_frect(fb, c, x, y, width, height, fg, bg) ==
  Fill(fb, RectCells(x, y, width, height), c, Attribute(fg, bg))

fb_write_rect(fb, c, x, y, width, height, fg, bg) ==
  Fill(fb, PerimeterCells(x, y, width, height), c, Attribute(fg, bg))

fb_clear_rect(fb, x, y, width, height, color) ==
  fb_write_frect(fb, Blank, x, y, width, height, color, color)

-----------------------------------------------------------------------------
(* Moving rows.                                                            *)

(* Variant: the loop stops a cell short of the row. *)
CopyShortRow(fb, from, to) ==
  LET in == fb_row_column_to_index(0, from)
      out == fb_row_column_to_index(0, to)
  IN  IF from < 0 \/ from > FB_NUM_ROWS \/ to < 0 \/ to > FB_NUM_ROWS
        THEN fb
        ELSE [chars |-> [k \in Cells |-> IF k - out \in 0..(FB_NUM_COLUMNS - 2)
                                           THEN fb.chars[k - out + in]
                                           ELSE fb.chars[k]],
              attrs |-> [k \in Cells |-> IF k - out - 1 \in 0..(FB_NUM_COLUMNS - 2)
                                           THEN fb.attrs[k - out + in]
                                           ELSE fb.attrs[k]]]

(* Variant: the destination is not checked. *)
CopyUncheckedRow(fb, from, to) ==
  LET in == fb_row_column_to_index(0, from)
      out == fb_row_column_to_index(0, to)
      Source(i) == IF to = from + 1 /\ i = FB_NUM_COLUMNS THEN in ELSE in + i
  IN  [chars |-> [k \in Cells |-> IF k - out \in 0..FB_NUM_COLUMNS
                                     THEN fb.chars[Source(k - out)]
                                     ELSE fb.chars[k]],
       attrs |-> [k \in Cells |-> IF k - out - 1 \in 0..FB_NUM_COLUMNS
                                     THEN fb.attrs[Source(k - out - 1) + 1]
                                     ELSE fb.attrs[k]]]

(***************************************************************************)
(* The loop runs FB_NUM_COLUMNS + 1 times.  It copies the characters of    *)
(* the cells 0 .. FB_NUM_COLUMNS of the row and, because both indices are  *)
(* incremented between the two assignments, the attributes of the cells    *)
(* 1 .. FB_NUM_COLUMNS + 1.  When the destination is the next row, the     *)
(* last cell it reads is the first one it wrote.                           *)
(***************************************************************************)
fb_copy_row(fb, from, to) ==
  LET in == fb_row_column_to_index(0, from)
      out == fb_row_column_to_index(0, to)
      Source(i) == IF to = from + 1 /\ i = FB_NUM_COLUMNS THEN in ELSE in + i
  IN  IF from < 0 \/ from > FB_NUM_ROWS \/ to < 0 \/ to > FB_NUM_ROWS
        THEN fb
        ELSE [chars |-> [k \in Cells |-> IF k - out \in 0..FB_NUM_COLUMNS
                                           THEN fb.chars[Source(k - out)]
                                           ELSE fb.chars[k]],
              attrs |-> [k \in Cells |-> IF k - out - 1 \in 0..FB_NUM_COLUMNS
                                           THEN fb.attrs[Source(k - out - 1) + 1]
                                           ELSE fb.attrs[k]]]

(* Variant: from the top down, so that each row is copied over the next. *)
ShiftDownAscending(fb, from) ==
  LET upto[row \in (from - 1)..FB_NUM_ROWS] ==
        IF row < from THEN fb ELSE fb_copy_row(upto[row - 1], row, row + 1)
  IN  upto[FB_NUM_ROWS]

(* From the row behind the screen up to row from, each to the row below. *)
fb_shift_down(fb, from) ==
  LET below[row \in from..(FB_NUM_ROWS + 1)] ==
        IF row > FB_NUM_ROWS THEN fb ELSE fb_copy_row(below[row + 1], row, row + 1)
  IN  below[from]

(***************************************************************************)
(* The last row is cleared with the last cell's attribute byte for both    *)
(* colors, of which fb_write_cell keeps the low nibble, twice.             *)
(***************************************************************************)
fb_scroll(fb) ==
  LET upto[row \in 0..(FB_NUM_ROWS - 1)] ==
        IF row = 0 THEN fb ELSE fb_copy_row(upto[row - 1], row, row - 1)
      moved == upto[FB_NUM_ROWS - 1]
      last == moved.attrs[ScreenSize - 1]
      color == 16 * last[1] + last[2]
  IN  fb_clear_row(moved, FB_NUM_ROWS - 1, color, color)

-----------------------------------------------------------------------------
(* The cursor.                                                             *)

fb_move_cursor(s, pos) == [cursor |-> pos, crtc |-> pos, fb |-> s.fb]

fb_move_cursor_col_row(s, pos_x, pos_y) ==
  fb_move_cursor(s, fb_row_column_to_index(pos_x, pos_y))

fb_move_cursor_to_start_of_row(s) ==
  fb_move_cursor_col_row(s, 0, fb_get_current_row(s))

(* How often a loop runs that takes FB_NUM_COLUMNS off x while x > 0. *)
LoopCount(x) ==
  CHOOSE k \in 0..(IF x > 0 THEN x ELSE 0) :
    /\ k * FB_NUM_COLUMNS >= x
    /\ k = 0 \/ (k - 1) * FB_NUM_COLUMNS < x

(* The screen after n scrolls, and after n shifts below the last row. *)
Scrolled(fb, n) ==
  LET after[k \in 0..n] == IF k = 0 THEN fb ELSE fb_scroll(after[k - 1])
  IN  after[n]

ShiftedDown(fb, n) ==
  LET after[k \in 0..n] == IF k = 0 THEN fb ELSE fb_shift_down(after[k - 1], FB_NUM_ROWS)
  IN  after[n]

(* Variant: the bound of the scrolling loop is one row too late. *)
OffsetLate(s, offset) ==
  LET p == s.cursor + offset
      scrolls == LoopCount(p - ScreenSize - FB_NUM_COLUMNS)
      c == p - scrolls * FB_NUM_COLUMNS + LoopCount(-p) * FB_NUM_COLUMNS
  IN  [cursor |-> c, crtc |-> c, fb |-> Scrolled(s.fb, scrolls)]

(***************************************************************************)
(* The two loops: above the screen's size the screen scrolls, below 0 the  *)
(* rows from FB_NUM_ROWS on are shifted down, and each time the cursor     *)
(* comes back by a row.                                                    *)
(***************************************************************************)
fb_offset_cursor(s, offset) ==
  LET p == s.cursor + offset
      scrolls == LoopCount(p - ScreenSize)
      shifts == LoopCount(-p)
      c == p - scrolls * FB_NUM_COLUMNS + shifts * FB_NUM_COLUMNS
  IN  [cursor |-> c,
       crtc |-> c,
       fb |-> ShiftedDown(Scrolled(s.fb, scrolls), shifts)]

-----------------------------------------------------------------------------
(* Printing at the cursor.                                                 *)

fb_print_cell(s, c, fg, bg) ==
  fb_offset_cursor([s EXCEPT !.fb = fb_write_cell(s.fb, s.cursor, c, fg, bg)], 1)

fb_print_lstr(s, str, fg, bg) ==
  fb_offset_cursor([s EXCEPT !.fb = fb_write_lstr(s.fb, s.cursor, str, fg, bg)], Len(str))

(* fb_print_lstr for the length strlen(str). *)
fb_print_str(s, str, fg, bg) == fb_print_lstr(s, str, fg, bg)

(* The hint {%\n}, and the way paging.c ends a line of its own with n. *)
NewLine(s, n) == fb_move_cursor_to_start_of_row(fb_offset_cursor(s, n))

(***************************************************************************)
(* A format is a sequence of pieces: a character, a number (what {%d} and  *)
(* {%h} expand to), a new line, or a hint that is none of these and is     *)
(* printed after a question mark.                                          *)
(***************************************************************************)
PrintPiece(s, piece, fg, bg) ==
  CASE piece.kind = "char"    -> fb_print_cell(s, piece.text[1], fg, bg)
    [] piece.kind = "number"  -> fb_print_lstr(s, piece.text, fg, bg)
    [] piece.kind = "newline" -> NewLine(s, FB_NUM_COLUMNS)
    [] piece.kind = "unknown" -> fb_print_lstr(fb_print_cell(s, QuestionMark, fg, bg),
                                               piece.text, fg, bg)

fb_fprint_str(s, format, fg, bg) ==
  LET after[k \in 0..Len(format)] ==
        IF k = 0 THEN s ELSE PrintPiece(after[k - 1], format[k], fg, bg)
  IN  after[Len(format)]

=============================================================================
