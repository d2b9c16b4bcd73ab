------------------------------ MODULE Keyboard ------------------------------
(***************************************************************************)
(* The keyboard driver, keyboard.c: the callback of IRQ1 decodes one byte  *)
(* of scan code set 1, keeps the modifier flags and edits the screen.  The *)
(* user presses and releases keys in any order; a key that is held down    *)
(* repeats.  Handlers do not nest (Interrupts), so that a callback is one  *)
(* step, except that the line the Escape key prints goes to the screen one *)
(* piece at a time.                                                        *)
(*                                                                         *)
(* The characters of keys are abstract: KeyChar(key, shift) stands for the *)
(* character that compute_key and scancode_to_char have in their tables.   *)
(***************************************************************************)
EXTENDS Vga, FiniteSets

CONSTANTS
  Keys,      (* the keys the user has, by their make codes                 *)
  Message,   (* "Loading Page Directory {%h}", as a sequence of pieces     *)
  MaxEvents  (* bound on the number of bytes the keyboard sends            *)

ASSUME KeyboardAssumption ==
  /\ Keys \subseteq 1..127
  /\ Message \in Seq([kind : {"char", "number"}, text : Seq(Int)])
  /\ \A i \in 1..Len(Message) :
       /\ Len(Message[i].text) <= FB_NUM_COLUMNS
       /\ Message[i].kind = "char" => Len(Message[i].text) = 1
  /\ FB_NUM_COLUMNS * FB_NUM_ROWS > 4
  /\ MaxEvents \in Nat

-----------------------------------------------------------------------------
(* Scan codes.                                                             *)

KBD_RELEASE == 128

ESCAPE == 1        (* 0x01 *)
BACKSPACE == 14    (* 0x0E *)
TAB == 15          (* 0x0F *)
RETURN == 28       (* 0x1C *)
CTRL == 29         (* 0x1D *)
QUOTE == 40        (* 0x28 *)
LEFT_SHIFT == 42   (* 0x2A *)
SLASH == 53        (* 0x35 *)
RIGHT_SHIFT == 54  (* 0x36 *)
ALT == 56          (* 0x38 *)
SPACE == 57        (* 0x39 *)
ARROW_UP == 72     (* 0x48 *)
ARROW_LEFT == 75   (* 0x4B *)
ARROW_RIGHT == 77  (* 0x4D *)
ARROW_DOWN == 80   (* 0x50 *)
DELETE == 83       (* 0x53 *)
EXTENDED == 224    (* 0xE0, the prefix of the keys of the extended block *)

Shifts == {LEFT_SHIFT, RIGHT_SHIFT}

(* get_numeric(code) > -1 *)
Numeric == 2..11

(* - = / [ ] , . ; ' \ ` *)
Punctuation == {12, 13, SLASH, 26, 27, 51, 52, 39, QUOTE, 43, 41}

(* The cases of scancode_to_char. *)
Letters == (16..25) \cup (30..38) \cup (44..50)

NUL == 0

KeyChar(key, shift) == 256 + 2 * key + (IF shift THEN 1 ELSE 0)

(* The prompt's '>', and what a press and a release of Shift write. *)
Prompt == 62

ShiftOn == 83

ShiftOff == 115

-----------------------------------------------------------------------------
(* Decoding.                                                               *)

(* Variant: char is unsigned. *)
UnsignedChar(byte) == byte

(* char is signed: a byte with the top bit set is negative. *)
Char(byte) == IF byte < 128 THEN byte ELSE byte - 256

(***************************************************************************)
(* k.is is the set of codes X for which the flag is_<key> initialised with *)
(* scancode == X || scancode == (X + KBD_RELEASE) is set; scancode is a    *)
(* char there.  k.scancode and k.rscancode are unsigned.                   *)
(***************************************************************************)
read_scan_code(byte) ==
  LET tab == byte \in {TAB, 128}
      rscancode == IF tab THEN TAB ELSE byte % 128
  IN  [released |-> byte >= KBD_RELEASE,
       scancode |-> byte,
       rscancode |-> rscancode,
       is |-> {key \in 0..127 : Char(byte) \in {key, key + KBD_RELEASE}},
       is_tab |-> tab,
       is_numeric |-> rscancode \in Numeric,
       is_shift |-> rscancode \in Shifts]

scancode_to_char(code, shift) ==
  IF code \in Letters THEN KeyChar(code, shift) ELSE NUL

(* The quote key has the slash's characters. *)
PunctuationChar(key, shift) == KeyChar(IF key = QUOTE THEN SLASH ELSE key, shift)

(* The character compute_key returns, in the order of its tests. *)
compute_key(k, shift) ==
  CASE k.is_shift \/ CTRL \in k.is \/ ALT \in k.is -> NUL
    [] OTHER ->
       IF k.is_numeric THEN KeyChar(k.rscancode, shift)
       ELSE IF k.is \cap Punctuation # {}
         THEN PunctuationChar(CHOOSE key \in k.is \cap Punctuation : TRUE, shift)
       ELSE IF SPACE \in k.is THEN Blank
       ELSE IF k.is_tab THEN NUL
       ELSE scancode_to_char(k.rscancode, shift)

(* Variant: only the release of the left Shift key is recognised. *)
LeftShiftAfter(k, shift) ==
  IF k.is_shift THEN k.scancode # LEFT_SHIFT + KBD_RELEASE ELSE shift

(* What compute_key does to the modifiers: shift looks at the unsigned     *)
(* scancode, ctrl and alt at their flags.                                  *)
ShiftAfter(k, shift) ==
  IF k.is_shift THEN k.scancode \notin {key + KBD_RELEASE : key \in Shifts} ELSE shift

CtrlAfter(k, ctrl) ==
  IF ~k.is_shift /\ CTRL \in k.is THEN ~k.released ELSE ctrl

AltAfter(k, alt) ==
  IF ~k.is_shift /\ CTRL \notin k.is /\ ALT \in k.is THEN ~k.released ELSE alt

-----------------------------------------------------------------------------
(* Editing.                                                                *)

(* Variant: Backspace leaves the cursor behind the blank. *)
BackspaceOnce(s) == fb_print_cell(fb_offset_cursor(s, -1), Blank, 0, 15)

Backspace(s) ==
  fb_offset_cursor(fb_print_cell(fb_offset_cursor(s, -1), Blank, 0, 15), -1)

Return(s) ==
  LET t == fb_offset_cursor(s, FB_NUM_COLUMNS)
  IN  fb_move_cursor_to_start_of_row(
        [t EXCEPT !.fb = fb_shift_down(t.fb, fb_get_current_row(t))])

Tab(s) == fb_print_str(s, <<Blank, Blank, Blank, Blank>>, 0, 15)

Delete(s) == fb_print_cell(fb_offset_cursor(s, -1), Blank, 0, 15)

(* The branch of keyboard_callback for ch == 0. *)
SpecialKey(s, k) ==
  IF BACKSPACE \in k.is THEN Backspace(s)
  ELSE IF RETURN \in k.is THEN Return(s)
  ELSE IF k.is_tab THEN Tab(s)
  ELSE IF DELETE \in k.is THEN Delete(s)
  ELSE IF ARROW_LEFT \in k.is THEN fb_offset_cursor(s, -1)
  ELSE IF ARROW_RIGHT \in k.is THEN fb_offset_cursor(s, 1)
  ELSE IF ARROW_UP \in k.is THEN fb_offset_cursor(s, -FB_NUM_COLUMNS)
  ELSE IF ARROW_DOWN \in k.is THEN fb_offset_cursor(s, FB_NUM_COLUMNS)
  ELSE s

(* compute_key shows a change of Shift in cell 1. *)
ShowShift(s, k) ==
  IF k.is_shift
    THEN [s EXCEPT !.fb = fb_write_cell(s.fb, 1, IF ShiftAfter(k, FALSE) THEN ShiftOn
                                                                        ELSE ShiftOff, 0, 15)]
    ELSE s

(* keyboard_callback on the screen, but for the Escape key. *)
Edit(s, k, shift) ==
  LET ch == compute_key(k, shift)
      t == ShowShift(s, k)
  IN  IF ch = NUL THEN SpecialKey(t, k)
      ELSE IF k.released THEN t
      ELSE fb_print_cell(t, ch, 0, 15)

-----------------------------------------------------------------------------
(* The state machine.                                                      *)

VARIABLES
  screen,
  KB_SHIFT, KB_CTRL, KB_ALT,
  directory, (* the index of the page directory in CR3                     *)
  todo,      (* what is left of the line that the Escape key prints        *)
  down,      (* the keys that are held down                                *)
  events     (* the number of bytes so far                                 *)

vars == <<screen, KB_SHIFT, KB_CTRL, KB_ALT, directory, todo, down, events>>

(* kmain: fb_clear(0,15), fb_move_cursor(3), fb_print_cell('>',0,15). *)
BootScreen ==
  LET memory == [chars |-> [i \in Cells |-> NUL], attrs |-> [i \in Cells |-> <<0, 0>>]]
      cleared == [cursor |-> 0, crtc |-> 0, fb |-> fb_clear(memory, 0, 15)]
  IN  fb_print_cell(fb_move_cursor(cleared, 3), Prompt, 0, 15)

Init ==
  /\ screen = BootScreen
  /\ KB_SHIFT = FALSE
  /\ KB_CTRL = FALSE
  /\ KB_ALT = FALSE
  /\ directory = 0
  /\ todo = <<>>
  /\ down = {}
  /\ events = 0

keyboard_callback(byte) ==
  LET k == read_scan_code(byte)
  IN  /\ todo = <<>>
      /\ events < MaxEvents
      /\ events' = events + 1
      /\ screen' = Edit(screen, k, KB_SHIFT)
      /\ KB_SHIFT' = ShiftAfter(k, KB_SHIFT)
      /\ KB_CTRL' = CtrlAfter(k, KB_CTRL)
      /\ KB_ALT' = AltAfter(k, KB_ALT)
      /\ todo' = IF ESCAPE \in k.is THEN Message \o <<[kind |-> "load", text |-> <<>>]>>
                                    ELSE <<>>
      /\ UNCHANGED directory

(* A press, or the repeated code of a key that is held. *)
Press(key) ==
  /\ keyboard_callback(key)
  /\ down' = down \cup {key}

Release(key) ==
  /\ key \in down
  /\ keyboard_callback(key + KBD_RELEASE)
  /\ down' = down \ {key}

Prefix ==
  /\ keyboard_callback(EXTENDED)
  /\ UNCHANGED down

(* switch_page_directory, called by the callback: the message, piece by    *)
(* piece, and then the end of the line and CR3.                            *)
PrintMessage ==
  /\ todo # <<>>
  /\ Head(todo).kind # "load"
  /\ screen' = PrintPiece(screen, Head(todo), 0, 15)
  /\ todo' = Tail(todo)
  /\ UNCHANGED <<KB_SHIFT, KB_CTRL, KB_ALT, directory, down, events>>

switch_page_directory ==
  /\ todo # <<>>
  /\ Head(todo).kind = "load"
  /\ screen' = NewLine(screen, FB_NUM_COLUMNS - 1)
  /\ directory' = 1
  /\ todo' = Tail(todo)
  /\ UNCHANGED <<KB_SHIFT, KB_CTRL, KB_ALT, down, events>>

Next ==
  \/ \E key \in Keys : Press(key)
  \/ \E key \in Keys : Release(key)
  \/ Prefix
  \/ PrintMessage
  \/ switch_page_directory

Spec == Init /\ [][Next]_vars

-----------------------------------------------------------------------------
(* Properties.                                                             *)

(* The variables have their types. *)
TypeOK ==
  /\ screen.cursor \in Int
  /\ screen.fb.chars \in [Cells -> Int]
  /\ screen.fb.attrs \in [Cells -> (0..15) \X (0..15)]
  /\ KB_SHIFT \in BOOLEAN
  /\ KB_CTRL \in BOOLEAN
  /\ KB_ALT \in BOOLEAN
  /\ directory \in 0..1
  /\ todo = <<>> \/ todo[Len(todo)].kind = "load"
  /\ down \subseteq Keys
  /\ events \in 0..MaxEvents

(* No sequence of keys takes the cursor off the screen by more than the    *)
(* one cell that fb_offset_cursor (vga.c:67) tolerates, whatever the order *)
(* of backspaces, tabs, arrows, returns and the Escape key's message.      *)
CursorInRange == screen.cursor \in 0..ScreenSize

(* The flag that compute_key (keyboard.c:110-119) keeps is never stuck:    *)
(* letters are upper case only while a Shift key is held.                  *)
ShiftMeansHeld == KB_SHIFT => down \cap Shifts # {}

(* "shift, alt, or control keys" can be seen to be released                *)
(* (keyboard.c:410-411): KB_CTRL is set only while the Ctrl key is held.   *)
CtrlMeansHeld == KB_CTRL => CTRL \in down

(* The release of a key (keyboard.c:343-344, "the top bit of the byte")    *)
(* edits nothing: it neither moves the cursor nor touches a cell, except   *)
(* that cell 1 shows the release of Shift.  The same byte must not count   *)
(* as a second press of Backspace, Return, Delete or an arrow.             *)
ReleaseEditsNothing ==
  [][\A key \in Keys : Release(key) =>
       /\ screen'.cursor = screen.cursor
       /\ todo' = <<>>
       /\ \A i \in Cells : screen'.fb.chars[i] # screen.fb.chars[i]
                             => i = 1 /\ key \in Shifts]_vars

(* Typing a character and then Backspace (keyboard.c:363-368) takes the    *)
(* cursor back to where it was and leaves a blank there and nothing else   *)
(* changed, at the end of a row and at the end of the screen too.          *)
BackspaceUndoesTyping ==
  \A key \in Keys \cap (Letters \cup Numeric \cup Punctuation) :
    LET typed == Edit(screen, read_scan_code(key), KB_SHIFT)
        back == Edit(typed, read_scan_code(BACKSPACE), KB_SHIFT)
    IN  screen.cursor < ScreenSize
          => /\ typed.fb.chars[screen.cursor] # Blank
             /\ back.cursor = screen.cursor
             /\ back.fb.chars = [screen.fb.chars EXCEPT ![screen.cursor] = Blank]

=============================================================================
