--------------------------- MODULE KeyboardProofs ---------------------------
(***************************************************************************)
(* Proofs about the keyboard driver, for every size of the screen, every   *)
(* set of keys, every message and every number of key events.              *)
(*                                                                         *)
(* The invariant is that the screen is one of Screens (VgaProofs): the     *)
(* cursor in range and the frame buffer whole.  It needs to know that what *)
(* is left of the Escape key's line is made of pieces that PrintPiece      *)
(* knows.                                                                  *)
(***************************************************************************)
EXTENDS Keyboard, VgaProofs

-----------------------------------------------------------------------------
(* The callback.                                                           *)

(* Each editing key of keyboard_callback ends on a screen. *)
LEMMA EditingIs ==
  ASSUME NEW old, NEW s \in Screens(old)
  PROVE  /\ Backspace(s) \in Screens(old)
         /\ Return(s) \in Screens(old)
         /\ Tab(s) \in Screens(old)
         /\ Delete(s) \in Screens(old)
         /\ fb_offset_cursor(s, -1) \in Screens(old)
         /\ fb_offset_cursor(s, 1) \in Screens(old)
         /\ fb_offset_cursor(s, -FB_NUM_COLUMNS) \in Screens(old)
         /\ fb_offset_cursor(s, FB_NUM_COLUMNS) \in Screens(old)
<1>1. ASSUME NEW t \in Screens(old), NEW n \in Int
      PROVE  fb_offset_cursor(t, n) \in Screens(old)
  BY ScreenIs, OffsetIs
<1>2. Blank \in Int /\ 0 \in Int /\ 15 \in Int
  BY DEF Blank
<1>3. /\ -1 \in Int /\ 1 \in Int
      /\ FB_NUM_COLUMNS \in Int /\ -FB_NUM_COLUMNS \in Int
  BY VgaAssumption
<1>4. fb_print_cell(fb_offset_cursor(s, -1), Blank, 0, 15) \in Screens(old)
  BY <1>1, <1>2, <1>3, PrintCellIs
<1>5. Backspace(s) \in Screens(old) /\ Delete(s) \in Screens(old)
  BY <1>1, <1>3, <1>4 DEF Backspace, Delete
<1>6. Return(s) \in Screens(old)
  <2> DEFINE t == fb_offset_cursor(s, FB_NUM_COLUMNS)
             u == [t EXCEPT !.fb = fb_shift_down(t.fb, fb_get_current_row(t))]
  <2>1. t \in Screens(old)
    BY <1>1, <1>3
  <2> HIDE DEF t
  <2>2. fb_shift_down(t.fb, fb_get_current_row(t)) \in Near(old)
    BY <2>1, CurrentRowIs, ScreenIs, ShiftDownIs
  <2>3. u \in Screens(old)
    BY <2>1, <2>2, ScreenIs
  <2>4. Return(s) = fb_move_cursor_to_start_of_row(u)
    BY DEF Return, t
  <2>5. 0 \in 0..ScreenSize
    BY SizeBound
  <2> HIDE DEF u
  <2> QED BY <2>3, <2>4, <2>5, MoveIs
<1>7. Tab(s) \in Screens(old)
  <2> DEFINE str == <<Blank, Blank, Blank, Blank>>
  <2>1. str \in Seq(Int) /\ Len(str) = 4
    BY <1>2
  <2>2. Len(str) <= FB_NUM_COLUMNS + 1
    BY <2>1, VgaAssumption
  <2>3. /\ s = [cursor |-> s.cursor, crtc |-> s.crtc, fb |-> s.fb]
        /\ s.cursor \in Int /\ s.cursor <= ScreenSize /\ s.fb \in Near(old)
    BY ScreenIs DEF OnScreen
  <2> HIDE DEF str
  <2>4. fb_print_lstr(s, str, 0, 15) \in Screens(old)
    BY <1>2, <2>1, <2>2, <2>3, PrintStrIs
  <2> QED BY <2>4 DEF Tab, fb_print_str, str
<1> QED BY <1>1, <1>3, <1>5, <1>6, <1>7

(* compute_key returns a character. *)
LEMMA KeyIsInt ==
  ASSUME NEW k, k.rscancode \in Int, NEW shift
  PROVE  compute_key(k, shift) \in Int
<1>1. \A key \in Int : KeyChar(key, shift) \in Int
  BY DEF KeyChar
<1>2. NUL \in Int /\ Blank \in Int
  BY DEF NUL, Blank
<1>3. scancode_to_char(k.rscancode, shift) \in Int
  BY <1>1, <1>2 DEF scancode_to_char
<1>4. ASSUME k.is \cap Punctuation # {}
      PROVE  PunctuationChar(CHOOSE key \in k.is \cap Punctuation : TRUE, shift) \in Int
  <2> DEFINE key == CHOOSE key \in k.is \cap Punctuation : TRUE
  <2>1. key \in Punctuation
    BY <1>4
  <2>2. key \in Int /\ SLASH \in Int
    <3>1. Punctuation \subseteq Int /\ SLASH \in Int
      BY DEF Punctuation, SLASH, QUOTE
    <3> HIDE DEF key
    <3> QED BY <2>1, <3>1
  <2> HIDE DEF key
  <2> QED BY <1>1, <2>2 DEF PunctuationChar, key
<1> QED BY <1>1, <1>2, <1>3, <1>4 DEF compute_key

(* keyboard_callback ends on a screen, for every byte. *)
LEMMA EditIs ==
  ASSUME NEW old, NEW s \in Screens(old), NEW k, k.rscancode \in Int, NEW shift
  PROVE  Edit(s, k, shift) \in Screens(old)
<1> DEFINE t == ShowShift(s, k)
           ch == compute_key(k, shift)
           c == IF ShiftAfter(k, FALSE) THEN ShiftOn ELSE ShiftOff
<1>1. c \in Int /\ 0 \in Int /\ 15 \in Int /\ 1 \in 0..ScreenSize
  BY SizeBound, VgaAssumption DEF ShiftOn, ShiftOff
<1>2. t \in Screens(old)
  <2>1. fb_write_cell(s.fb, 1, c, 0, 15) \in Near(old)
    <3> HIDE DEF c
    <3> QED BY <1>1, ScreenIs, WriteCellNear
  <2>2. [s EXCEPT !.fb = fb_write_cell(s.fb, 1, c, 0, 15)] \in Screens(old)
    <3> HIDE DEF c
    <3> QED BY <2>1, ScreenIs
  <2> QED BY <2>2 DEF ShowShift
<1>3. ch \in Int
  BY KeyIsInt
<1> HIDE DEF t, ch
<1>4. SpecialKey(t, k) \in Screens(old)
  BY <1>2, EditingIs DEF SpecialKey
<1>5. fb_print_cell(t, ch, 0, 15) \in Screens(old)
  BY <1>1, <1>2, <1>3, PrintCellIs
<1> QED BY <1>2, <1>4, <1>5 DEF Edit, t, ch

(* The frame buffer that kmain finds. *)
Memory == [chars |-> [i \in Cells |-> NUL], attrs |-> [i \in Cells |-> <<0, 0>>]]

(* What is left of the Escape key's line. *)
Load == [kind |-> "load", text |-> <<>>]

Line == {p \in Pieces : p.kind \in {"char", "number"}} \cup {Load}

(* The inductive invariant. *)
KeyboardInv ==
  /\ screen \in Screens(Memory)
  /\ KB_SHIFT \in BOOLEAN
  /\ KB_CTRL \in BOOLEAN
  /\ KB_ALT \in BOOLEAN
  /\ directory \in 0..1
  /\ todo \in Seq(Line)
  /\ todo = <<>> \/ todo[Len(todo)].kind = "load"
  /\ down \subseteq Keys
  /\ events \in 0..MaxEvents

LEMMA ScreensConstant == Screens(Memory)' = Screens(Memory)
  BY DEF Screens, Near, Far, FbType, Nibbles, Cells, ScreenSize, Memory, NUL

(* kmain leaves the cursor behind the prompt. *)
LEMMA KeyboardInit == Init => KeyboardInv
<1> SUFFICES ASSUME Init PROVE KeyboardInv
  OBVIOUS
<1>1. Memory \in Near(Memory)
  <2> DEFINE c == [i \in Cells |-> NUL]
             a == [i \in Cells |-> <<0, 0>>]
  <2>1. c \in [Cells -> Int] /\ a \in [Cells -> Nibbles]
    BY DEF NUL, Nibbles
  <2>2. Memory = [chars |-> c, attrs |-> a] /\ Memory.chars = c /\ Memory.attrs = a
    BY DEF Memory
  <2> HIDE DEF c, a
  <2> QED BY <2>1, <2>2, NearIs
<1> DEFINE cleared == [cursor |-> 0, crtc |-> 0, fb |-> fb_clear(Memory, 0, 15)]
           moved == fb_move_cursor(cleared, 3)
<1>2. 0 \in Int /\ 15 \in Int /\ Prompt \in Int /\ 0 \in 0..ScreenSize /\ 3 \in 0..ScreenSize
  BY VgaAssumption, SizeBound DEF Prompt
<1>3. cleared \in Screens(Memory)
  <2>1. fb_clear(Memory, 0, 15) \in Near(Memory)
    BY <1>1, <1>2, ClearIs
  <2> QED BY <1>2, <2>1 DEF Screens
<1> HIDE DEF cleared
<1>4. moved \in Screens(Memory)
  BY <1>2, <1>3, MoveIs
<1> HIDE DEF moved
<1>5. fb_print_cell(moved, Prompt, 0, 15) \in Screens(Memory)
  BY <1>2, <1>4, PrintCellIs
<1>6. screen = fb_print_cell(moved, Prompt, 0, 15)
  BY DEF Init, BootScreen, moved, cleared, Memory
<1>7. todo = <<>> /\ todo \in Seq(Line)
  BY DEF Init
<1>8. events \in 0..MaxEvents /\ directory \in 0..1 /\ down \subseteq Keys
  BY KeyboardAssumption DEF Init
<1>9. KB_SHIFT \in BOOLEAN /\ KB_CTRL \in BOOLEAN /\ KB_ALT \in BOOLEAN
  BY DEF Init
<1> QED BY <1>5, <1>6, <1>7, <1>8, <1>9, Zenon DEF KeyboardInv

(* read_scan_code reduces a byte to the code of a key. *)
LEMMA CodeIsInt ==
  ASSUME NEW byte \in Int
  PROVE  read_scan_code(byte).rscancode \in Int
<1>1. byte % 128 \in Int /\ TAB \in Int
  BY DEF TAB
<1> QED BY <1>1 DEF read_scan_code

(* The callback leaves nothing to print, or the Escape key's whole line. *)
LEMMA LineIs ==
  ASSUME NEW byte, keyboard_callback(byte)
  PROVE  /\ todo' \in Seq(Line)
         /\ todo' = <<>> \/ todo'[Len(todo')].kind = "load"
<1>1. Message \in Seq(Line)
  <2> DEFINE Kinds == [kind : {"char", "number"}, text : Seq(Int)]
  <2>1. /\ Message \in Seq(Kinds)
        /\ \A j \in 1..Len(Message) :
             /\ Len(Message[j].text) <= FB_NUM_COLUMNS
             /\ Message[j].kind = "char" => Len(Message[j].text) = 1
    BY KeyboardAssumption
  <2>2. ASSUME NEW j \in 1..Len(Message) PROVE Message[j] \in Line
    <3>1. Message[j] \in Kinds
      <4> HIDE DEF Kinds
      <4> QED BY <2>1, ElementOfSeq
    <3> QED BY <2>1, <3>1 DEF Line, Pieces
  <2> HIDE DEF Kinds
  <2>3. Len(Message) \in Nat /\ Message = [j \in 1..Len(Message) |-> Message[j]]
    BY <2>1, LenProperties
  <2> QED BY <2>2, <2>3, IsASeq
<1> DEFINE all == Message \o <<Load>>
<1>2. Load \in Line /\ Load.kind = "load"
  BY DEF Line, Load
<1>3. all \in Seq(Line) /\ Len(all) = Len(Message) + 1 /\ all[Len(Message) + 1] = Load
  <2> HIDE DEF Load
  <2> QED BY <1>1, <1>2
<1>4. todo' = all \/ todo' = <<>>
  BY DEF keyboard_callback, Load
<1> HIDE DEF all
<1>5. <<>> \in Seq(Line) /\ all[Len(all)].kind = "load"
  BY <1>2, <1>3
<1> QED BY <1>3, <1>4, <1>5, Zenon

(* Every key event, and every piece of the Escape key's line, keeps the    *)
(* invariant.                                                              *)
LEMMA KeyboardNext == KeyboardInv /\ [Next]_vars => KeyboardInv'
<1> SUFFICES ASSUME KeyboardInv, [Next]_vars PROVE KeyboardInv'
  OBVIOUS
<1>1. ASSUME NEW byte \in Int, keyboard_callback(byte), down' \subseteq Keys PROVE KeyboardInv'
  <2> DEFINE k == read_scan_code(byte)
  <2>1. screen' \in Screens(Memory)
    <3>1. screen' = Edit(screen, k, KB_SHIFT) /\ k.rscancode \in Int
      BY <1>1, CodeIsInt DEF keyboard_callback
    <3> HIDE DEF k
    <3> QED BY <3>1, EditIs DEF KeyboardInv
  <2>2. /\ todo' \in Seq(Line)
        /\ todo' = <<>> \/ todo'[Len(todo')].kind = "load"
    BY <1>1, LineIs
  <2>3. KB_SHIFT' \in BOOLEAN /\ KB_CTRL' \in BOOLEAN /\ KB_ALT' \in BOOLEAN
    <3>1. /\ KB_SHIFT' = ShiftAfter(k, KB_SHIFT) /\ KB_CTRL' = CtrlAfter(k, KB_CTRL)
          /\ KB_ALT' = AltAfter(k, KB_ALT)
      BY <1>1 DEF keyboard_callback
    <3> HIDE DEF k
    <3> QED BY <3>1 DEF ShiftAfter, CtrlAfter, AltAfter, KeyboardInv
  <2>4. directory' \in 0..1 /\ events' \in 0..MaxEvents
    BY <1>1, KeyboardAssumption DEF keyboard_callback, KeyboardInv
  <2> QED BY <1>1, <2>1, <2>2, <2>3, <2>4, ScreensConstant DEF KeyboardInv
<1>2. \A key \in Keys : key \in Int /\ key + KBD_RELEASE \in Int
  BY KeyboardAssumption DEF KBD_RELEASE
<1>3. ASSUME NEW key \in Keys, Press(key) PROVE KeyboardInv'
  BY <1>1, <1>2, <1>3 DEF Press, KeyboardInv
<1>4. ASSUME NEW key \in Keys, Release(key) PROVE KeyboardInv'
  BY <1>1, <1>2, <1>4 DEF Release, KeyboardInv
<1>5. CASE Prefix
  BY <1>1, <1>5 DEF Prefix, EXTENDED, KeyboardInv
<1>6. ASSUME todo # <<>>
      PROVE  /\ Head(todo) \in Line
             /\ Tail(todo) \in Seq(Line)
             /\ Tail(todo) = <<>> \/ Tail(todo)[Len(Tail(todo))].kind = "load"
  <2>1. todo \in Seq(Line) /\ todo[Len(todo)].kind = "load"
    BY <1>6 DEF KeyboardInv
  <2>2. Head(todo) \in Line /\ Tail(todo) \in Seq(Line) /\ Len(Tail(todo)) = Len(todo) - 1
        /\ Len(todo) \in Nat
        /\ \A j \in 1..Len(Tail(todo)) : Tail(todo)[j] = todo[j + 1]
    BY <1>6, <2>1, HeadTailProperties
  <2>3. CASE Len(Tail(todo)) = 0
    <3>1. Tail(todo) = <<>>
      BY <2>2, <2>3, EmptySeq
    <3> QED BY <2>2, <3>1
  <2>4. CASE Len(Tail(todo)) # 0
    <3>1. Len(Tail(todo)) \in 1..Len(Tail(todo)) /\ Len(Tail(todo)) + 1 = Len(todo)
      BY <2>2, <2>4
    <3> QED BY <2>1, <2>2, <3>1, Zenon
  <2> QED BY <2>3, <2>4
<1>7. CASE PrintMessage
  <2>1. Head(todo) \in Pieces
    <3>1. Head(todo) # Load
      BY <1>7 DEF PrintMessage, Load
    <3> QED BY <1>6, <1>7, <3>1 DEF PrintMessage, Line
  <2>2. PrintPiece(screen, Head(todo), 0, 15) \in Screens(Memory)
    BY <2>1, PieceIs DEF KeyboardInv
  <2>3. screen' \in Screens(Memory)
    BY <1>7, <2>2 DEF PrintMessage
  <2> QED BY <1>6, <1>7, <2>3, ScreensConstant DEF PrintMessage, KeyboardInv
<1>8. CASE switch_page_directory
  <2>1. fb_offset_cursor(screen, FB_NUM_COLUMNS - 1) \in Screens(Memory)
    <3>1. FB_NUM_COLUMNS - 1 \in Int
      BY VgaAssumption
    <3> QED BY <3>1, ScreenIs, OffsetIs DEF KeyboardInv
  <2>2. NewLine(screen, FB_NUM_COLUMNS - 1) \in Screens(Memory)
    <3>1. 0 \in 0..ScreenSize
      BY SizeBound
    <3> QED BY <2>1, <3>1, MoveIs DEF NewLine
  <2>3. screen' \in Screens(Memory) /\ directory' \in 0..1
    BY <1>8, <2>2 DEF switch_page_directory
  <2> QED BY <1>6, <1>8, <2>3, ScreensConstant DEF switch_page_directory, KeyboardInv
<1>9. CASE UNCHANGED vars
  BY <1>9, ScreensConstant DEF vars, KeyboardInv
<1> QED BY <1>3, <1>4, <1>5, <1>7, <1>8, <1>9 DEF Next

(* The screen stays whole under any sequence of keys: no key, and no piece *)
(* of the Escape key's line, reads behind the memory or leaves a cell      *)
(* without a character or an attribute.                                    *)
THEOREM KeyboardTypes == Spec => []TypeOK
<1>1. KeyboardInv => TypeOK
  <2> SUFFICES ASSUME KeyboardInv PROVE TypeOK
    OBVIOUS
  <2>1. screen.cursor \in Int /\ screen.fb \in Near(Memory)
    BY ScreenIs DEF KeyboardInv
  <2>2. screen.fb.chars \in [Cells -> Int] /\ screen.fb.attrs \in [Cells -> Nibbles]
    BY <2>1, NearFields
  <2> QED BY <2>1, <2>2 DEF TypeOK, KeyboardInv, Nibbles
<1> QED BY <1>1, KeyboardInit, KeyboardNext, PTL DEF Spec

(* No sequence of keys, and no message of the Escape key, takes the cursor *)
(* further off the screen than the one cell that fb_offset_cursor (vga.c)  *)
(* tolerates, on a screen of any size.                                     *)
THEOREM CursorStays == Spec => []CursorInRange
<1>1. KeyboardInv => CursorInRange
  BY ScreenIs DEF KeyboardInv, CursorInRange
<1> QED BY <1>1, KeyboardInit, KeyboardNext, PTL DEF Spec

-----------------------------------------------------------------------------
(* Decoding.                                                               *)

(* The fields of read_scan_code's event, but for the tab key. *)
LEMMA EventFields ==
  ASSUME NEW byte, byte \notin {TAB, 128}
  PROVE  LET k == read_scan_code(byte)
         IN  /\ k.scancode = byte
             /\ k.rscancode = byte % 128
             /\ k.released = (byte >= KBD_RELEASE)
             /\ k.is = {x \in 0..127 : Char(byte) \in {x, x + KBD_RELEASE}}
             /\ k.is_tab = FALSE
             /\ k.is_shift = (byte % 128 \in Shifts)
<1> DEFINE tab == byte \in {TAB, 128}
           rscancode == IF tab THEN TAB ELSE byte % 128
           released == byte >= KBD_RELEASE
           is == {x \in 0..127 : Char(byte) \in {x, x + KBD_RELEASE}}
           is_numeric == rscancode \in Numeric
           is_shift == rscancode \in Shifts
<1>1. read_scan_code(byte) =
        [released |-> released, scancode |-> byte, rscancode |-> rscancode, is |-> is,
         is_tab |-> tab, is_numeric |-> is_numeric, is_shift |-> is_shift]
  BY DEF read_scan_code
<1>2. tab = FALSE /\ rscancode = byte % 128 /\ is_shift = (byte % 128 \in Shifts)
  OBVIOUS
<1> HIDE DEF tab, rscancode, is, is_numeric, is_shift, released
<1>3. LET k == read_scan_code(byte)
      IN  /\ k.scancode = byte
          /\ k.rscancode = rscancode
          /\ k.released = released
          /\ k.is = is
          /\ k.is_tab = tab
          /\ k.is_shift = is_shift
  BY <1>1
<1> QED BY <1>2, <1>3 DEF is, released

(* What read_scan_code makes of the make code of a key. *)
LEMMA MakeCode ==
  ASSUME NEW key \in 1..127, key \notin Shifts
  PROVE  ~read_scan_code(key).is_shift
<1>1. CASE key # TAB
  <2>1. key % 128 = key /\ key \notin {TAB, 128}
    BY <1>1
  <2>2. read_scan_code(key).is_shift = (key % 128 \in Shifts)
    BY <2>1, EventFields
  <2> QED BY <2>1, <2>2, Zenon
<1>2. CASE key = TAB
  <2>1. TAB \notin Shifts
    BY DEF TAB, Shifts, LEFT_SHIFT, RIGHT_SHIFT
  <2>2. read_scan_code(TAB).is_shift = (TAB \in Shifts)
    BY Zenon DEF read_scan_code
  <2> QED BY <1>2, <2>1, <2>2, Zenon
<1> QED BY <1>1, <1>2

(* What read_scan_code makes of the break code of a key: char is signed,   *)
(* so that no comparison of it with an int of 0 or more holds, and none of *)
(* the flags is set but the ones that are computed from rscancode.         *)
LEMMA BreakCode ==
  ASSUME NEW key \in 1..127
  PROVE  LET k == read_scan_code(key + KBD_RELEASE)
         IN  /\ k.scancode = key + KBD_RELEASE
             /\ k.released
             /\ k.is = {}
             /\ ~k.is_tab
             /\ k.is_shift = (key \in Shifts)
<1> DEFINE byte == key + KBD_RELEASE
<1>1. byte \in 129..255 /\ byte % 128 = key /\ byte >= KBD_RELEASE
  BY DEF KBD_RELEASE
<1>2. byte \notin {TAB, 128}
  BY <1>1 DEF TAB
<1>3. {x \in 0..127 : Char(byte) \in {x, x + KBD_RELEASE}} = {}
  BY <1>1 DEF Char, KBD_RELEASE
<1> HIDE DEF byte
<1>4. LET k == read_scan_code(byte)
      IN  /\ k.scancode = byte
          /\ k.released = (byte >= KBD_RELEASE)
          /\ k.is = {}
          /\ k.is_tab = FALSE
          /\ k.is_shift = (byte % 128 \in Shifts)
  BY <1>2, <1>3, EventFields
<1> QED BY <1>1, <1>4, Zenon DEF byte

(* The prefix of the extended keys is no Shift key. *)
LEMMA PrefixCode == ~read_scan_code(EXTENDED).is_shift
<1>1. EXTENDED \notin {TAB, 128} /\ EXTENDED % 128 \notin Shifts
  BY DEF EXTENDED, TAB, Shifts, LEFT_SHIFT, RIGHT_SHIFT
<1>2. read_scan_code(EXTENDED).is_shift = (EXTENDED % 128 \in Shifts)
  BY <1>1, EventFields
<1> QED BY <1>1, <1>2, Zenon

(* compute_key's Shift flag is never stuck: whatever the order in which    *)
(* the two Shift keys and the other keys go down and up, KB_SHIFT is set   *)
(* only while a Shift key is held.                                         *)
THEOREM ShiftNeverStuck == Spec => []ShiftMeansHeld
<1>1. Init => ShiftMeansHeld
  BY DEF Init, ShiftMeansHeld
<1>2. ShiftMeansHeld /\ [Next]_vars => ShiftMeansHeld'
  <2> SUFFICES ASSUME ShiftMeansHeld, [Next]_vars PROVE ShiftMeansHeld'
    OBVIOUS
  <2>1. ASSUME NEW key \in Keys, Press(key) PROVE ShiftMeansHeld'
    <3>1. KB_SHIFT' = ShiftAfter(read_scan_code(key), KB_SHIFT) /\ down' = down \cup {key}
      BY <2>1 DEF Press, keyboard_callback
    <3>2. key \in 1..127
      BY KeyboardAssumption
    <3>3. CASE key \in Shifts
      BY <3>1, <3>3 DEF ShiftMeansHeld
    <3>4. CASE key \notin Shifts
      <4>1. KB_SHIFT' = KB_SHIFT
        BY <3>1, <3>2, <3>4, MakeCode DEF ShiftAfter
      <4> QED BY <3>1, <4>1 DEF ShiftMeansHeld
    <3> QED BY <3>3, <3>4
  <2>2. ASSUME NEW key \in Keys, Release(key) PROVE ShiftMeansHeld'
    <3> DEFINE k == read_scan_code(key + KBD_RELEASE)
    <3>1. KB_SHIFT' = ShiftAfter(k, KB_SHIFT) /\ down' = down \ {key}
      BY <2>2 DEF Release, keyboard_callback
    <3>2. k.scancode = key + KBD_RELEASE /\ k.is_shift = (key \in Shifts)
      <4>1. key \in 1..127
        BY KeyboardAssumption
      <4> QED BY <4>1, BreakCode
    <3> HIDE DEF k
    <3>3. CASE key \in Shifts
      <4>1. ~KB_SHIFT'
        BY <3>1, <3>2, <3>3 DEF ShiftAfter
      <4> QED BY <4>1 DEF ShiftMeansHeld
    <3>4. CASE key \notin Shifts
      <4>1. KB_SHIFT' = KB_SHIFT
        BY <3>1, <3>2, <3>4 DEF ShiftAfter
      <4> QED BY <3>1, <3>4, <4>1 DEF ShiftMeansHeld
    <3> QED BY <3>3, <3>4
  <2>3. CASE Prefix
    <3>1. KB_SHIFT' = KB_SHIFT /\ down' = down
      BY <2>3, PrefixCode DEF Prefix, keyboard_callback, ShiftAfter
    <3> QED BY <3>1 DEF ShiftMeansHeld
  <2>4. CASE PrintMessage \/ switch_page_directory \/ UNCHANGED vars
    <3>1. KB_SHIFT' = KB_SHIFT /\ down' = down
      BY <2>4 DEF PrintMessage, switch_page_directory, vars
    <3> QED BY <3>1 DEF ShiftMeansHeld
  <2> QED BY <2>1, <2>2, <2>3, <2>4 DEF Next
<1> QED BY <1>1, <1>2, PTL DEF Spec

(* keyboard_callback on a break code: neither the cursor nor a cell of the *)
(* screen changes, but for cell 1 when the key is a Shift key.             *)
LEMMA BreakCodeEdits ==
  ASSUME NEW s, OnScreen(s), NEW key \in 1..127, NEW shift, NEW t,
         t = Edit(s, read_scan_code(key + KBD_RELEASE), shift)
  PROVE  /\ t.cursor = s.cursor
         /\ \A i \in Cells : t.fb.chars[i] # s.fb.chars[i] => i = 1 /\ key \in Shifts
<1> DEFINE k == read_scan_code(key + KBD_RELEASE)
<1>1. /\ k.released /\ k.is = {} /\ ~k.is_tab
      /\ k.is_shift = (key \in Shifts)
  BY BreakCode
<1> HIDE DEF k
<1>2. SpecialKey(ShowShift(s, k), k) = ShowShift(s, k)
  BY <1>1 DEF SpecialKey
<1>3. Edit(s, k, shift) = ShowShift(s, k)
  BY <1>1, <1>2 DEF Edit
<1>4. CASE key \notin Shifts
  BY <1>1, <1>3, <1>4 DEF ShowShift, k
<1>5. CASE key \in Shifts
  <2> DEFINE c == IF ShiftAfter(k, FALSE) THEN ShiftOn ELSE ShiftOff
             fb == fb_write_cell(s.fb, 1, c, 0, 15)
  <2>1. ShowShift(s, k) = [s EXCEPT !.fb = fb]
    BY <1>1, <1>5 DEF ShowShift
  <2>2. \A i \in Cells : fb.chars[i] # s.fb.chars[i] => i = 1
    BY DEF fb_write_cell, Fill
  <2> HIDE DEF fb
  <2>3. /\ [s EXCEPT !.fb = fb].cursor = s.cursor
        /\ [s EXCEPT !.fb = fb].fb = fb
    BY DEF OnScreen
  <2> QED BY <1>3, <1>5, <2>1, <2>2, <2>3 DEF k
<1> QED BY <1>4, <1>5

(* Releasing a key never edits the screen a second time: a break code does *)
(* not act as another Backspace, Return, Delete, arrow or Escape.          *)
THEOREM ReleasesEditNothing == Spec => ReleaseEditsNothing
<1> DEFINE Quiet == \A key \in Keys : Release(key) =>
                      /\ screen'.cursor = screen.cursor
                      /\ todo' = <<>>
                      /\ \A i \in Cells : screen'.fb.chars[i] # screen.fb.chars[i]
                                            => i = 1 /\ key \in Shifts
<1>1. KeyboardInv => Quiet
  <2> SUFFICES ASSUME KeyboardInv, NEW key \in Keys, Release(key)
               PROVE  /\ screen'.cursor = screen.cursor
                      /\ todo' = <<>>
                      /\ \A i \in Cells : screen'.fb.chars[i] # screen.fb.chars[i]
                                            => i = 1 /\ key \in Shifts
    OBVIOUS
  <2> DEFINE k == read_scan_code(key + KBD_RELEASE)
  <2>1. key \in 1..127
    BY KeyboardAssumption
  <2>2. screen' = Edit(screen, k, KB_SHIFT)
    BY DEF Release, keyboard_callback
  <2>3. k.is = {}
    BY <2>1, BreakCode
  <2>4. todo' = <<>>
    BY <2>3 DEF Release, keyboard_callback
  <2>5. OnScreen(screen)
    BY ScreenIs DEF KeyboardInv
  <2>6. screen'.cursor = screen.cursor
    BY <2>1, <2>2, <2>5, BreakCodeEdits
  <2>7. \A i \in Cells : screen'.fb.chars[i] # screen.fb.chars[i] => i = 1 /\ key \in Shifts
    BY <2>1, <2>2, <2>5, BreakCodeEdits
  <2> QED BY <2>4, <2>6, <2>7
<1>2. KeyboardInv /\ [Next]_vars => [Quiet]_vars
  BY <1>1
<1> HIDE DEF Quiet
<1>3. Spec => [][Quiet]_vars
  BY <1>2, KeyboardInit, KeyboardNext, PTL DEF Spec
<1> QED BY <1>3 DEF ReleaseEditsNothing, Quiet

-----------------------------------------------------------------------------
(* Typing and Backspace.                                                   *)

(* The event of a make code is that of one key. *)
LEMMA MakeEvent ==
  ASSUME NEW key \in 1..127, key # TAB, key \notin Shifts
  PROVE  LET k == read_scan_code(key)
         IN  /\ k.rscancode = key
             /\ ~k.released
             /\ k.is = {key}
             /\ ~k.is_tab
             /\ ~k.is_shift
             /\ k.is_numeric = (key \in Numeric)
<1>1. key \notin {TAB, 128} /\ key % 128 = key /\ ~(key >= KBD_RELEASE)
  BY DEF KBD_RELEASE
<1>2. {x \in 0..127 : Char(key) \in {x, x + KBD_RELEASE}} = {key}
  BY DEF Char, KBD_RELEASE
<1>3. LET k == read_scan_code(key)
      IN  /\ k.rscancode = key % 128
          /\ k.released = (key >= KBD_RELEASE)
          /\ k.is = {x \in 0..127 : Char(key) \in {x, x + KBD_RELEASE}}
          /\ k.is_tab = FALSE
          /\ k.is_shift = (key % 128 \in Shifts)
  BY <1>1, EventFields
<1>4. read_scan_code(key).is_numeric
        = ((IF key \in {TAB, 128} THEN TAB ELSE key % 128) \in Numeric)
  BY Zenon DEF read_scan_code
<1>5. read_scan_code(key).is_numeric = (key \in Numeric)
  BY <1>1, <1>4, Zenon
<1> QED BY <1>1, <1>2, <1>3, <1>5, Zenon

Typed == Letters \cup Numeric \cup Punctuation

(* A key of a letter, a digit or a sign types a character that is no blank *)
(* and not the null character.                                             *)
LEMMA TypedChar ==
  ASSUME NEW key \in Typed, NEW shift
  PROVE  LET k == read_scan_code(key)
         IN  /\ ~k.released /\ ~k.is_shift
             /\ compute_key(k, shift) \in Int
             /\ compute_key(k, shift) # NUL
             /\ compute_key(k, shift) # Blank
<1> DEFINE k == read_scan_code(key)
<1>1. Letters \cup Numeric \cup Punctuation \subseteq 1..127
  BY DEF Letters, Numeric, Punctuation, SLASH, QUOTE
<1>2. key \in 1..127
  BY <1>1, Zenon DEF Typed
<1>3. key # TAB /\ key \notin Shifts /\ key # CTRL /\ key # ALT /\ key # SPACE
  BY DEF Typed, Letters, Numeric, Punctuation, SLASH, QUOTE, TAB, Shifts, LEFT_SHIFT,
         RIGHT_SHIFT, CTRL, ALT, SPACE
<1>4. /\ k.rscancode = key /\ ~k.released /\ k.is = {key} /\ ~k.is_tab /\ ~k.is_shift
      /\ k.is_numeric = (key \in Numeric)
  BY <1>2, <1>3, MakeEvent
<1> HIDE DEF k
<1>5. ~(k.is_shift \/ CTRL \in k.is \/ ALT \in k.is) /\ ~(SPACE \in k.is)
  BY <1>3, <1>4
<1>6. \A x \in 1..127 : /\ KeyChar(x, shift) \in Int
                        /\ KeyChar(x, shift) # NUL /\ KeyChar(x, shift) # Blank
  BY DEF KeyChar, NUL, Blank
<1>7. compute_key(k, shift) =
        IF k.is_numeric THEN KeyChar(k.rscancode, shift)
        ELSE IF k.is \cap Punctuation # {}
          THEN PunctuationChar(CHOOSE x \in k.is \cap Punctuation : TRUE, shift)
        ELSE IF SPACE \in k.is THEN Blank
        ELSE IF k.is_tab THEN NUL
        ELSE scancode_to_char(k.rscancode, shift)
  BY <1>5 DEF compute_key
<1>8. \E x \in 1..127 : compute_key(k, shift) = KeyChar(x, shift)
  <2>1. CASE key \in Numeric
    <3>1. k.is_numeric
      BY <1>4, <2>1
    <3>2. compute_key(k, shift) = KeyChar(key, shift)
      BY <1>4, <1>7, <3>1
    <3> QED BY <1>2, <3>2
  <2>2. CASE key \notin Numeric /\ key \in Punctuation
    <3> DEFINE x == CHOOSE x \in k.is \cap Punctuation : TRUE
               y == IF x = QUOTE THEN SLASH ELSE x
    <3>1. k.is \cap Punctuation # {} /\ ~k.is_numeric
      BY <1>4, <2>2
    <3>2. x = key
      BY <1>4, <3>1
    <3>3. compute_key(k, shift) = PunctuationChar(x, shift)
      BY <1>7, <3>1, Zenon
    <3> HIDE DEF x
    <3>4. y \in 1..127
      BY <1>2, <3>2 DEF SLASH
    <3>5. compute_key(k, shift) = KeyChar(y, shift)
      BY <3>3 DEF PunctuationChar
    <3> HIDE DEF y
    <3> QED BY <3>4, <3>5
  <2>3. CASE key \notin Numeric /\ key \notin Punctuation
    <3>1. k.is \cap Punctuation = {} /\ ~k.is_numeric /\ key \in Letters
      BY <1>4, <2>3 DEF Typed
    <3>2. compute_key(k, shift) = scancode_to_char(key, shift)
      BY <1>4, <1>5, <1>7, <3>1, Zenon
    <3>3. compute_key(k, shift) = KeyChar(key, shift)
      BY <3>1, <3>2 DEF scancode_to_char
    <3> QED BY <1>2, <3>3
  <2> QED BY <2>1, <2>2, <2>3
<1>9. /\ compute_key(k, shift) \in Int
      /\ compute_key(k, shift) # NUL /\ compute_key(k, shift) # Blank
  BY <1>6, <1>8
<1> QED BY <1>4, <1>9 DEF k

(* Backspace types nothing: it is one of the special keys. *)
LEMMA BackspaceKey ==
  ASSUME NEW s, NEW shift
  PROVE  Edit(s, read_scan_code(BACKSPACE), shift) = Backspace(s)
<1> DEFINE k == read_scan_code(BACKSPACE)
<1>1. /\ BACKSPACE \in 1..127 /\ BACKSPACE # TAB /\ BACKSPACE \notin Shifts
      /\ BACKSPACE \notin Numeric /\ BACKSPACE \notin Punctuation /\ BACKSPACE \notin Letters
      /\ BACKSPACE # CTRL /\ BACKSPACE # ALT /\ BACKSPACE # SPACE
  BY DEF BACKSPACE, Letters, Numeric, Punctuation, SLASH, QUOTE, TAB, Shifts, LEFT_SHIFT,
         RIGHT_SHIFT, CTRL, ALT, SPACE
<1>2. /\ k.rscancode = BACKSPACE /\ k.is = {BACKSPACE} /\ ~k.is_tab /\ ~k.is_shift
      /\ k.is_numeric = (BACKSPACE \in Numeric)
  BY <1>1, MakeEvent
<1> HIDE DEF k
<1>3. /\ ~(k.is_shift \/ CTRL \in k.is \/ ALT \in k.is) /\ ~(SPACE \in k.is)
      /\ ~k.is_numeric /\ k.is \cap Punctuation = {} /\ ~k.is_tab
  BY <1>1, <1>2
<1>4. scancode_to_char(k.rscancode, shift) = NUL
  BY <1>1, <1>2 DEF scancode_to_char
<1>5. compute_key(k, shift) = NUL
  BY <1>3, <1>4 DEF compute_key
<1>6. ShowShift(s, k) = s
  BY <1>2 DEF ShowShift
<1>7. SpecialKey(s, k) = Backspace(s)
  BY <1>2 DEF SpecialKey
<1> QED BY <1>5, <1>6, <1>7 DEF Edit, k

(* fb_print_cell before the last cell of the screen: no row moves. *)
LEMMA PrintCellStays ==
  ASSUME NEW old, NEW s \in Screens(old), s.cursor < ScreenSize, NEW c \in Int
  PROVE  LET t == fb_print_cell(s, c, 0, 15)
         IN  /\ t \in Screens(old)
             /\ t.cursor = s.cursor + 1
             /\ t.fb.chars = [s.fb.chars EXCEPT ![s.cursor] = c]
<1> DEFINE fb == fb_write_cell(s.fb, s.cursor, c, 0, 15)
           u == [s EXCEPT !.fb = fb]
           t == fb_print_cell(s, c, 0, 15)
<1>1. fb \in Near(old)
  <2>1. s.fb \in Near(old) /\ s.cursor \in 0..ScreenSize /\ 0 \in Int /\ 15 \in Int
    BY ScreenIs
  <2> QED BY <2>1, WriteCellNear, Zenon
<1>2. t \in Screens(old)
  BY PrintCellIs
<1>3. fb.chars = [s.fb.chars EXCEPT ![s.cursor] = c]
  <2>1. s.fb.chars \in [Cells -> Int]
    BY ScreenIs, NearFields
  <2>2. fb.chars = [x \in Cells |-> IF x \in {s.cursor} THEN c ELSE s.fb.chars[x]]
    BY DEF fb_write_cell, Fill
  <2>3. [s.fb.chars EXCEPT ![s.cursor] = c]
          = [x \in Cells |-> IF x = s.cursor THEN c ELSE s.fb.chars[x]]
    BY <2>1
  <2>4. \A x : x \in {s.cursor} <=> x = s.cursor
    OBVIOUS
  <2> QED BY <2>2, <2>3, <2>4
<1> HIDE DEF fb
<1>4. u.cursor = s.cursor /\ u.fb = fb
  BY DEF Screens
<1>5. u.cursor \in Int /\ 1 \in Int /\ u.cursor + 1 \in 0..ScreenSize
  BY <1>4, ScreenIs, SizeBound
<1>6. t = fb_offset_cursor(u, 1)
  BY DEF fb_print_cell, fb
<1> HIDE DEF u
<1>7. fb_offset_cursor(u, 1) = [cursor |-> u.cursor + 1, crtc |-> u.cursor + 1, fb |-> u.fb]
  BY <1>1, <1>4, <1>5, OffsetStays
<1> HIDE DEF t
<1>8. t.cursor = s.cursor + 1 /\ t.fb = fb
  BY <1>4, <1>6, <1>7
<1> QED BY <1>2, <1>3, <1>8 DEF t

(* The cursor goes back by a cell. *)
LEMMA BackStays ==
  ASSUME NEW old, NEW s \in Screens(old), s.cursor > 0
  PROVE  LET t == fb_offset_cursor(s, -1)
         IN  t \in Screens(old) /\ t.cursor = s.cursor - 1 /\ t.fb = s.fb
<1>1. /\ s.cursor \in Int /\ s.fb \in Near(old) /\ -1 \in Int /\ s.cursor + (-1) \in 0..ScreenSize
      /\ s.cursor + (-1) = s.cursor - 1
  BY ScreenIs, SizeBound
<1>2. fb_offset_cursor(s, -1)
        = [cursor |-> s.cursor + (-1), crtc |-> s.cursor + (-1), fb |-> s.fb]
  BY <1>1, OffsetStays
<1>3. fb_offset_cursor(s, -1) \in Screens(old)
  BY <1>1, OffsetIs
<1> QED BY <1>1, <1>2, <1>3

(* Backspace (keyboard.c:363-368) undoes the last character typed, on a    *)
(* screen of any size and wherever the cursor is, the last cells of a row  *)
(* and of the screen included.                                             *)
THEOREM BackspaceUndoes == Spec => []BackspaceUndoesTyping
<1>1. KeyboardInv => BackspaceUndoesTyping
  <2> SUFFICES ASSUME KeyboardInv, NEW key \in Typed, screen.cursor < ScreenSize
               PROVE  LET typed == Edit(screen, read_scan_code(key), KB_SHIFT)
                          back == Edit(typed, read_scan_code(BACKSPACE), KB_SHIFT)
                      IN  /\ typed.fb.chars[screen.cursor] # Blank
                          /\ back.cursor = screen.cursor
                          /\ back.fb.chars = [screen.fb.chars EXCEPT ![screen.cursor] = Blank]
    BY Zenon DEF BackspaceUndoesTyping, Typed
  <2> DEFINE k == read_scan_code(key)
             ch == compute_key(k, KB_SHIFT)
             typed == Edit(screen, k, KB_SHIFT)
             left == fb_offset_cursor(typed, -1)
             blanked == fb_print_cell(left, Blank, 0, 15)
             back == fb_offset_cursor(blanked, -1)
             c == screen.cursor
  <2>1. ~k.released /\ ~k.is_shift /\ ch \in Int /\ ch # NUL /\ ch # Blank
    BY TypedChar
  <2>2. typed = fb_print_cell(screen, ch, 0, 15)
    BY <2>1 DEF Edit, ShowShift
  <2>3. screen \in Screens(Memory) /\ c \in Int /\ c >= 0 /\ c \in Cells
        /\ screen.fb.chars \in [Cells -> Int]
    <3>1. screen \in Screens(Memory)
      BY DEF KeyboardInv
    <3>2. c \in 0..ScreenSize /\ screen.fb \in Near(Memory)
      BY <3>1, ScreenIs
    <3> QED BY <3>1, <3>2, NearFields, SizeBound, VgaAssumption DEF Cells
  <2> HIDE DEF ch
  <2>4. /\ typed \in Screens(Memory) /\ typed.cursor = c + 1
        /\ typed.fb.chars = [screen.fb.chars EXCEPT ![c] = ch]
    BY <2>1, <2>2, <2>3, PrintCellStays
  <2> HIDE DEF typed
  <2>5. left \in Screens(Memory) /\ left.cursor = c /\ left.fb = typed.fb
    BY <2>3, <2>4, BackStays
  <2> HIDE DEF left
  <2>6. /\ blanked \in Screens(Memory) /\ blanked.cursor = c + 1
        /\ blanked.fb.chars = [left.fb.chars EXCEPT ![c] = Blank]
    <3>1. Blank \in Int
      BY DEF Blank
    <3> QED BY <2>5, <3>1, PrintCellStays
  <2> HIDE DEF blanked
  <2>7. back.cursor = c /\ back.fb = blanked.fb
    BY <2>3, <2>6, BackStays
  <2>8. Edit(typed, read_scan_code(BACKSPACE), KB_SHIFT) = back
    BY BackspaceKey DEF Backspace, back, blanked, left
  <2> HIDE DEF back
  <2>9. typed.fb.chars[c] # Blank
    BY <2>1, <2>3, <2>4
  <2>10. back.fb.chars = [screen.fb.chars EXCEPT ![c] = Blank]
    BY <2>3, <2>4, <2>5, <2>6, <2>7
  <2> QED BY <2>7, <2>8, <2>9, <2>10 DEF typed, k
<1> QED BY <1>1, KeyboardInit, KeyboardNext, PTL DEF Spec


=============================================================================
