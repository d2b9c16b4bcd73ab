---------------------------- MODULE ScreenProofs ----------------------------
(***************************************************************************)
(* Proofs about Screen, for every size of the screen, every set of         *)
(* arguments in the callers' ranges and any number of calls: from the      *)
(* lemmas of VgaProofs about each function, that every call leaves the     *)
(* screen one of Screens(BootFb).                                          *)
(***************************************************************************)
EXTENDS Screen, VgaProofs

(* The frame buffer that the kernel finds. *)
BootFb == [chars |-> [i \in Cells |-> BootChar(i)], attrs |-> [i \in Cells |-> BootAttr(i)]]

(***************************************************************************)
(* The inductive invariant: the cursor is where fb_write_cell may write,   *)
(* the frame buffer is whole, and its cells far behind the screen are      *)
(* those of boot.                                                          *)
(***************************************************************************)
ScreenInv ==
  /\ screen \in Screens(BootFb)
  /\ halted \in BOOLEAN
  /\ calls \in 0..MaxCalls

LEMMA InitHolds == Init => ScreenInv
<1> SUFFICES ASSUME Init PROVE ScreenInv
  OBVIOUS
<1>1. \A i \in Cells : BootChar(i) \in Int /\ BootAttr(i) \in Nibbles
  BY SizeBound, VgaAssumption DEF Cells, BootChar, BootAttr, Nibbles
<1>2. BootFb \in Near(BootFb)
  <2> DEFINE c == [i \in Cells |-> BootChar(i)]
             a == [i \in Cells |-> BootAttr(i)]
  <2>1. c \in [Cells -> Int] /\ a \in [Cells -> Nibbles]
    BY <1>1
  <2>2. BootFb = [chars |-> c, attrs |-> a] /\ BootFb.chars = c /\ BootFb.attrs = a
    BY DEF BootFb
  <2> HIDE DEF c, a
  <2> QED BY <2>1, <2>2, NearIs
<1>3. 0 \in 0..ScreenSize /\ 0 \in Int
  BY SizeBound
<1>4. [cursor |-> 0, crtc |-> 0, fb |-> BootFb] \in Screens(BootFb)
  BY <1>2, <1>3 DEF Screens
<1>5. screen = [cursor |-> 0, crtc |-> 0, fb |-> BootFb]
  BY DEF Init, BootFb
<1>6. halted \in BOOLEAN
  BY DEF Init
<1>7. calls \in 0..MaxCalls
  BY ScreenAssumption DEF Init
<1> QED BY <1>4, <1>5, <1>6, <1>7 DEF ScreenInv

(* What a call does to the state, besides the screen. *)
LEMMA CallIs ==
  ASSUME ScreenInv, NEW s \in Screens(BootFb), NEW ends \in BOOLEAN, CallOf(s, ends)
  PROVE  ScreenInv'
<1>1. screen' = s /\ halted' = ~ends /\ calls' = calls + 1 /\ calls < MaxCalls
  BY DEF CallOf
<1>2. calls' \in 0..MaxCalls
  BY <1>1, ScreenAssumption DEF ScreenInv
<1>3. Screens(BootFb)' = Screens(BootFb)
  BY DEF Screens, Near, Far, FbType, Nibbles, Cells, ScreenSize, BootFb, BootChar, BootAttr
<1> QED BY <1>1, <1>2, <1>3 DEF ScreenInv

LEMMA CallFbIs ==
  ASSUME ScreenInv, NEW fb \in Near(BootFb), CallFb(fb)
  PROVE  ScreenInv'
<1>1. [screen EXCEPT !.fb = fb] \in Screens(BootFb)
  BY ScreenIs DEF ScreenInv
<1> QED BY <1>1, CallIs DEF CallFb, Call

(* fb_print_str, as the actions call it. *)
LEMMA PrintsText ==
  ASSUME NEW s, s = [cursor |-> s.cursor, crtc |-> s.crtc, fb |-> s.fb],
         s.cursor \in Int, s.cursor <= ScreenSize, s.fb \in Near(BootFb),
         NEW t \in Texts, NEW fg \in Int, NEW bg \in Int
  PROVE  fb_print_str(s, t, fg, bg) \in Screens(BootFb)
<1>1. t \in Seq(Int) /\ Len(t) <= FB_NUM_COLUMNS + 1
  BY ScreenAssumption, VgaAssumption
<1> QED BY <1>1, PrintStrIs DEF fb_print_str

LEMMA Colors == /\ 0 \in Int /\ 1 \in Int /\ 4 \in Int /\ 15 \in Int
                /\ 0 \in 0..ScreenSize /\ \A c \in Chars : c \in Int
  BY SizeBound, ScreenAssumption

(* Every call keeps the invariant. *)
LEMMA NextHolds == ScreenInv /\ [Next]_vars => ScreenInv'
<1> SUFFICES ASSUME ScreenInv, [Next]_vars PROVE ScreenInv'
  OBVIOUS
<1> DEFINE Good == Screens(BootFb)
<1>1. /\ screen \in Good /\ screen.fb \in Near(BootFb)
      /\ screen.cursor \in Int /\ screen.cursor <= ScreenSize /\ screen.cursor \in 0..ScreenSize
      /\ screen = [cursor |-> screen.cursor, crtc |-> screen.crtc, fb |-> screen.fb]
  BY ScreenIs DEF ScreenInv, OnScreen
<1>2. ASSUME NEW pos \in Positions PROVE pos \in 0..ScreenSize /\ pos \in Nat
  BY ScreenAssumption, SizeBound DEF Visible
<1>3. CASE MoveCursor
  <2>1. PICK pos \in Positions : Call(fb_move_cursor(screen, pos))
    BY <1>3 DEF MoveCursor
  <2>2. fb_move_cursor(screen, pos) \in Good
    BY <1>1, <1>2, MoveIs
  <2> QED BY <2>1, <2>2, CallIs DEF Call
<1>4. CASE MoveCursorColRow
  <2>1. PICK pos \in Positions :
          Call(fb_move_cursor_col_row(screen, pos % FB_NUM_COLUMNS, fb_get_row(pos)))
    BY <1>4 DEF MoveCursorColRow
  <2>2. fb_row_column_to_index(pos % FB_NUM_COLUMNS, fb_get_row(pos)) = pos
    <3> DEFINE q == pos \div FB_NUM_COLUMNS
               r == pos % FB_NUM_COLUMNS
    <3>1. pos \in Nat /\ FB_NUM_COLUMNS \in Nat /\ FB_NUM_COLUMNS > 0
      BY <1>2, VgaAssumption
    <3>2. pos = FB_NUM_COLUMNS * q + r /\ q \in Int
      BY <3>1
    <3> HIDE DEF q, r
    <3>3. pos = q * FB_NUM_COLUMNS + r
      BY <3>1, <3>2
    <3> QED BY <3>3 DEF q, r, fb_row_column_to_index, fb_get_row
  <2>3. fb_move_cursor_col_row(screen, pos % FB_NUM_COLUMNS, fb_get_row(pos)) \in Good
    BY <1>1, <1>2, <2>2, MoveIs DEF fb_move_cursor_col_row
  <2> QED BY <2>1, <2>3, CallIs DEF Call
<1>5. CASE MoveToStartOfRow
  <2>1. fb_move_cursor_to_start_of_row(screen) \in Good
    BY <1>1, Colors, MoveIs
  <2> QED BY <1>5, <2>1, CallIs DEF MoveToStartOfRow, Call
<1>6. CASE OffsetCursor
  <2>1. PICK n \in Offsets : Call(fb_offset_cursor(screen, n))
    BY <1>6 DEF OffsetCursor
  <2>2. n \in Int
    BY ScreenAssumption
  <2>3. fb_offset_cursor(screen, n) \in Good
    BY <1>1, <2>2, OffsetIs
  <2> QED BY <2>1, <2>3, CallIs DEF Call
<1>7. CASE PrintCell
  <2>1. PICK c \in Chars : Call(fb_print_cell(screen, c, 0, 15))
    BY <1>7 DEF PrintCell
  <2>2. fb_print_cell(screen, c, 0, 15) \in Good
    BY <1>1, Colors, PrintCellIs
  <2> QED BY <2>1, <2>2, CallIs DEF Call
<1>8. CASE PrintStr
  <2>1. PICK t \in Texts : Call(fb_print_str(screen, t, 0, 15))
    BY <1>8 DEF PrintStr
  <2>2. fb_print_str(screen, t, 0, 15) \in Good
    BY <1>1, Colors, PrintsText
  <2> QED BY <2>1, <2>2, CallIs DEF Call
<1>9. CASE FprintStr
  <2>1. PICK f \in Formats : Call(fb_fprint_str(screen, f, 0, 4))
    BY <1>9 DEF FprintStr
  <2>2. f \in Seq(Pieces)
    <3> DEFINE Kinds == [kind : {"char", "number", "newline", "unknown"}, text : Seq(Int)]
    <3>1. /\ f \in Seq(Kinds)
          /\ \A i \in 1..Len(f) : /\ Len(f[i].text) <= FB_NUM_COLUMNS
                                  /\ f[i].kind = "char" => Len(f[i].text) = 1
      BY ScreenAssumption
    <3>2. ASSUME NEW i \in 1..Len(f) PROVE f[i] \in Pieces
      <4>1. f[i] \in Kinds
        <5> HIDE DEF Kinds
        <5> QED BY <3>1, ElementOfSeq
      <4> QED BY <3>1, <4>1 DEF Pieces
    <3> HIDE DEF Kinds
    <3>3. Len(f) \in Nat /\ f = [i \in 1..Len(f) |-> f[i]]
      BY <3>1, LenProperties
    <3> QED BY <3>2, <3>3, IsASeq
  <2>3. fb_fprint_str(screen, f, 0, 4) \in Good
    BY <1>1, <2>2, Colors, FormatIs
  <2> QED BY <2>1, <2>3, CallIs DEF Call
<1>10. CASE WriteCell
  <2>1. PICK pos \in Positions, c \in Chars : CallFb(fb_write_cell(screen.fb, pos, c, 0, 15))
    BY <1>10 DEF WriteCell
  <2>2. fb_write_cell(screen.fb, pos, c, 0, 15) \in Near(BootFb)
    BY <1>1, <1>2, Colors, WriteCellNear
  <2> QED BY <2>1, <2>2, CallFbIs
<1>11. CASE WriteStr
  <2>1. PICK pos \in Positions, t \in Texts : CallFb(fb_write_str(screen.fb, pos, t, 1, 1))
    BY <1>11 DEF WriteStr
  <2>2. /\ pos \in Int /\ pos <= ScreenSize
        /\ t \in Seq(Int) /\ Len(t) <= FB_NUM_COLUMNS + 1
    BY <1>2, ScreenAssumption, SizeBound, VgaAssumption
  <2>3. fb_write_str(screen.fb, pos, t, 1, 1) \in Near(BootFb)
    BY <1>1, <2>2, Colors, WriteStrNear DEF fb_write_str
  <2> QED BY <2>1, <2>3, CallFbIs
<1>12. CASE Clear
  <2>1. fb_clear(screen.fb, 0, 15) \in Near(BootFb)
    BY <1>1, Colors, ClearIs
  <2> QED BY <1>12, <2>1, CallFbIs DEF Clear
<1>13. CASE ClearRow
  <2>1. PICK r \in 0..(FB_NUM_ROWS - 1) : CallFb(fb_clear_row(screen.fb, r, 0, 1))
    BY <1>13 DEF ClearRow
  <2>2. fb_clear_row(screen.fb, r, 0, 1) \in Near(BootFb)
    BY <1>1, Colors, ClearRowNear
  <2> QED BY <2>1, <2>2, CallFbIs
<1>14. CASE Scroll
  <2>1. fb_scroll(screen.fb) \in Near(BootFb)
    BY <1>1, ScrollIs
  <2> QED BY <1>14, <2>1, CallFbIs DEF Scroll
<1>15. CASE ShiftDown
  <2>1. fb_get_current_row(screen) \in 0..FB_NUM_ROWS
    BY <1>1, CurrentRowIs
  <2>2. fb_shift_down(screen.fb, fb_get_current_row(screen)) \in Near(BootFb)
    BY <1>1, <2>1, ShiftDownIs
  <2> QED BY <1>15, <2>2, CallFbIs DEF ShiftDown
<1>16. CASE DrawRect
  <2>1. PICK r \in Rects, c \in Chars :
          \/ CallFb(fb_write_frect(screen.fb, c, r[1], r[2], r[3], r[4], 0, 15))
          \/ CallFb(fb_write_rect(screen.fb, c, r[1], r[2], r[3], r[4], 0, 15))
          \/ CallFb(fb_clear_rect(screen.fb, r[1], r[2], r[3], r[4], 4))
    BY <1>16 DEF DrawRect
  <2>2. /\ r[1] \in Nat /\ r[2] \in Nat /\ r[3] \in Nat /\ r[4] \in Nat
        /\ r[1] + r[3] <= FB_NUM_COLUMNS /\ r[2] + r[4] <= FB_NUM_ROWS
    BY ScreenAssumption
  <2>3. Blank \in Int
    BY DEF Blank
  <2>4. /\ fb_write_frect(screen.fb, c, r[1], r[2], r[3], r[4], 0, 15) \in Near(BootFb)
        /\ fb_write_rect(screen.fb, c, r[1], r[2], r[3], r[4], 0, 15) \in Near(BootFb)
        /\ fb_clear_rect(screen.fb, r[1], r[2], r[3], r[4], 4) \in Near(BootFb)
    BY <1>1, <2>2, <2>3, Colors, RectIs DEF fb_clear_rect
  <2> QED BY <2>1, <2>4, CallFbIs
<1>17. CASE InformIsrDone
  <2> DEFINE cleared == [screen EXCEPT !.fb = fb_clear(screen.fb, 1, 1)]
             s == fb_move_cursor(cleared, 0)
  <2>1. PICK t \in Texts : Call(fb_print_str(s, t, 0, 1))
    BY <1>17 DEF InformIsrDone
  <2>2. cleared \in Good
    BY <1>1, Colors, ClearIs, ScreenIs
  <2> HIDE DEF cleared
  <2>3. s \in Good
    BY <2>2, Colors, MoveIs
  <2> HIDE DEF s
  <2>4. fb_print_str(s, t, 0, 1) \in Good
    BY <2>3, Colors, ScreenIs, PrintsText DEF OnScreen
  <2> QED BY <2>1, <2>4, CallIs DEF Call
<1>18. CASE InformIrqDone
  <2> DEFINE s == fb_move_cursor_col_row(screen, 0, 1)
  <2>1. PICK t \in Texts : Call(fb_print_str(s, t, 0, 1))
    BY <1>18 DEF InformIrqDone
  <2>2. fb_row_column_to_index(0, 1) \in 0..ScreenSize
    BY VgaAssumption, SizeBound DEF fb_row_column_to_index
  <2>3. s \in Good
    BY <1>1, <2>2, MoveIs DEF fb_move_cursor_col_row
  <2> HIDE DEF s
  <2>4. fb_print_str(s, t, 0, 1) \in Good
    BY <2>3, Colors, ScreenIs, PrintsText DEF OnScreen
  <2> QED BY <2>1, <2>4, CallIs DEF Call
<1>19. CASE PANIC
  <2> DEFINE red == [screen EXCEPT !.fb = fb_clear(fb_clear(screen.fb, 0, 0), 4, 4)]
             C == FB_NUM_COLUMNS
             half == FB_NUM_ROWS \div 2
  <2>1. PICK t \in Texts :
          CallOf(fb_print_str(fb_move_cursor_col_row(red, (C \div 2) - ((Len(t) + 1) \div 2), half),
                              t, 4, 0), FALSE)
    BY <1>19 DEF PANIC
  <2> DEFINE col == (C \div 2) - ((Len(t) + 1) \div 2)
             s == fb_move_cursor_col_row(red, col, half)
             p == half * C + col
  <2>2. red.fb \in Near(BootFb)
    <3>1. fb_clear(fb_clear(screen.fb, 0, 0), 4, 4) \in Near(BootFb)
      BY <1>1, Colors, ClearIs
    <3> QED BY <1>1, <3>1
  <2> HIDE DEF red
  <2>3. p \in Int /\ p <= ScreenSize
    <3>1. t \in Seq(Int)
      BY ScreenAssumption
    <3>2. Len(t) \in Nat
      BY <3>1
    <3>3. (Len(t) + 1) \div 2 \in Nat /\ C \div 2 \in Nat /\ C \div 2 <= C
          /\ half \in Nat /\ half <= FB_NUM_ROWS - 1
      BY <3>2, VgaAssumption
    <3>4. (half + 1) * C \in 0..ScreenSize
      <4>1. half + 1 \in 0..FB_NUM_ROWS
        BY <3>3, VgaAssumption
      <4> HIDE DEF half
      <4> QED BY <4>1, RowStart
    <3>5. (half + 1) * C = half * C + C /\ half * C \in Nat /\ C \in Nat
      BY <3>3, VgaAssumption
    <3> HIDE DEF half, C
    <3> QED BY <3>3, <3>4, <3>5, SizeBound
  <2>4. s = [cursor |-> p, crtc |-> p, fb |-> red.fb]
    BY DEF fb_move_cursor_col_row, fb_move_cursor, fb_row_column_to_index
  <2>5. /\ s = [cursor |-> s.cursor, crtc |-> s.crtc, fb |-> s.fb]
        /\ s.cursor = p /\ s.fb = red.fb
    <3> HIDE DEF p, s
    <3> QED BY <2>4
  <2>6. CallOf(fb_print_str(s, t, 4, 0), FALSE)
    BY <2>1, Zenon
  <2> HIDE DEF s, p
  <2>7. fb_print_str(s, t, 4, 0) \in Good
    BY <2>2, <2>3, <2>5, Colors, PrintsText
  <2> QED BY <2>6, <2>7, CallIs
<1>20. CASE UNCHANGED vars
  <2>1. Screens(BootFb)' = Screens(BootFb)
    BY DEF Screens, Near, Far, FbType, Nibbles, Cells, ScreenSize, BootFb, BootChar, BootAttr
  <2> QED BY <1>20, <2>1 DEF vars, ScreenInv
<1> QED BY <1>3, <1>4, <1>5, <1>6, <1>7, <1>8, <1>9, <1>10, <1>11, <1>12, <1>13, <1>14,
           <1>15, <1>16, <1>17, <1>18, <1>19, <1>20 DEF Next

(* The screen after any sequence of calls of the functions of vga.h. *)
THEOREM ScreenInvariant == Spec => []ScreenInv
  BY InitHolds, NextHolds, PTL DEF Spec

(* Every cell keeps a character and two nibbles: no function of vga.c      *)
(* reads behind the row and the four cells that follow the screen's next   *)
(* row, on a screen of any size.                                           *)
THEOREM ScreenTypes == Spec => []TypeOK
<1>1. ScreenInv => TypeOK
  <2> SUFFICES ASSUME ScreenInv PROVE TypeOK
    OBVIOUS
  <2>1. /\ screen.cursor \in Int /\ screen.crtc \in Int /\ screen.fb \in Near(BootFb)
    BY ScreenIs DEF ScreenInv
  <2>2. screen.fb.chars \in [Cells -> Int] /\ screen.fb.attrs \in [Cells -> Nibbles]
    BY <2>1, NearFields
  <2> QED BY <2>1, <2>2 DEF TypeOK, ScreenInv, Nibbles
<1> QED BY <1>1, ScreenInvariant, PTL

(* fb_offset_cursor's two loops (vga.c:67-74) leave the cursor on the      *)
(* screen or on the cell behind it, after any sequence of calls.           *)
THEOREM CursorStaysInRange == Spec => []CursorInRange
<1>1. ScreenInv => CursorInRange
  BY ScreenIs DEF ScreenInv, CursorInRange
<1> QED BY <1>1, ScreenInvariant, PTL

(* fb_scroll (vga.c:350-361) moves every row of every reachable screen up  *)
(* by one and blanks the last row.                                         *)
THEOREM ScrollMovesRowsUp == Spec => []ScrollMovesUp
<1>1. ScreenInv => ScrollMovesUp
  <2> SUFFICES ASSUME ScreenInv PROVE ScrollMovesUp
    OBVIOUS
  <2>1. screen.fb \in Near(BootFb)
    BY ScreenIs DEF ScreenInv
  <2> QED BY <2>1, ScrollIs, Zenon DEF ScrollMovesUp
<1> QED BY <1>1, ScreenInvariant, PTL

(* fb_shift_down (vga.c:338-344), from any row of every reachable screen,  *)
(* leaves the rows up to it alone and moves the others down, but for their *)
(* first column.                                                           *)
THEOREM ShiftMovesRowsDown == Spec => []ShiftDownMovesRows
<1>1. ScreenInv => ShiftDownMovesRows
  <2> SUFFICES ASSUME ScreenInv PROVE ShiftDownMovesRows
    OBVIOUS
  <2>1. screen.fb \in Near(BootFb)
    BY ScreenIs DEF ScreenInv
  <2> QED BY <2>1, ShiftDownIs, Zenon DEF ShiftDownMovesRows
<1> QED BY <1>1, ScreenInvariant, PTL

(* No sequence of calls writes further behind the screen than a row and    *)
(* two cells, whatever the screen's size.                                  *)
THEOREM WritesStayNear == Spec => []WritesNearScreen
<1>1. ScreenInv => WritesNearScreen
  <2> SUFFICES ASSUME ScreenInv PROVE WritesNearScreen
    OBVIOUS
  <2>1. screen.fb \in Near(BootFb)
    BY ScreenIs DEF ScreenInv
  <2>2. \A k \in Cells : Far(k) => /\ screen.fb.chars[k] = BootFb.chars[k]
                                   /\ screen.fb.attrs[k] = BootFb.attrs[k]
    BY <2>1, NearFields
  <2>3. \A k \in Cells : BootFb.chars[k] = BootChar(k) /\ BootFb.attrs[k] = BootAttr(k)
    BY DEF BootFb
  <2> QED BY <2>2, <2>3, Zenon DEF WritesNearScreen, Far
<1> QED BY <1>1, ScreenInvariant, PTL


=============================================================================
