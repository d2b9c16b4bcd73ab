----------------------------- MODULE BootProofs -----------------------------
(***************************************************************************)
(* Proofs about Boot, for every size of the screen and of the controller's *)
(* registers, every set of keys and any number of callbacks.               *)
(*                                                                         *)
(* A callback either leaves the cursor and the controller alone or leaves  *)
(* the cursor on the screen, the controller showing it and the low         *)
(* register selected (EditMoves).  The invariant says, for each place of   *)
(* kmain, where the cursor can be after such callbacks (Ranges) and how    *)
(* far the controller follows it (Ports).                                  *)
(***************************************************************************)
EXTENDS Boot, KeyboardProofs

-----------------------------------------------------------------------------
(* The inductive invariant.                                                *)

(* Before and after fb_offset_cursor's loops, and in them. *)
Early == {"clear", "move", "print", "print write", "load", "store"}

InLoops == {"above", "load row", "store row", "scroll",
            "below", "load below", "store below", "shift"}

PortPlaces == {"select high", "high argument", "write high",
               "select low", "low argument", "write low"}

Places == Early \cup InLoops \cup PortPlaces \cup {"idle"}

(* Where the cursor is, and what kmain has loaded. *)
Ranges ==
  LET C == FB_NUM_COLUMNS
      c == screen.cursor
  IN  /\ c \in (-C)..(ScreenSize + C)
      /\ pc \in Early => c \in 0..ScreenSize
      /\ pc \in PortPlaces => c >= 0 /\ (call = "move" => c <= ScreenSize)
      /\ pc = "idle" => c >= 0
      /\ pc = "above" => c <= ScreenSize + 1
      /\ pc \in {"load row", "store row"} => c \in 0..(ScreenSize + 1)
      /\ pc \in {"scroll", "load below", "store below"} => c <= ScreenSize
      /\ pc = "shift" => c >= 0
      /\ reg \in (-C)..(ScreenSize + C)
      /\ pc \in {"print write", "store"} => reg \in 0..ScreenSize
      /\ pc = "store row" => reg \in 0..(ScreenSize + 1)
      /\ pc = "store below" => reg <= ScreenSize
      /\ pc \in {"write high", "write low"} => reg \in 0..(RegisterSize - 1)
      /\ i \in 0..ScreenSize
      /\ pc = "clear" => i < ScreenSize
      /\ pc \in InLoops \cup {"print write", "load", "store"} => call = "print"

(* How far the controller follows the cursor. *)
HighFollows == screen.crtc \div RegisterSize = screen.cursor \div RegisterSize

Follows == screen.crtc = screen.cursor

Ports ==
  /\ pc = "high argument" => index = "high" \/ Follows
  /\ pc = "write high"
       => \/ index = "high" /\ reg = screen.cursor \div RegisterSize
          \/ index = "low" /\ Follows
  /\ pc \in {"select low", "low argument", "write low", "idle"} => HighFollows
  /\ pc \in {"low argument", "write low"} => index = "low"
  /\ pc = "write low" => raced \/ reg = screen.cursor % RegisterSize
  /\ pc = "idle" => raced \/ Follows

BootInv ==
  /\ screen = [cursor |-> screen.cursor, crtc |-> screen.crtc, fb |-> screen.fb]
  /\ screen.crtc \in 0..(RegisterSize * RegisterSize - 1)
  /\ todo \in Seq(Line)
  /\ pc \in Places
  /\ call \in {"move", "print"}
  /\ index \in {"high", "low"}
  /\ raced \in BOOLEAN
  /\ Ranges
  /\ Ports

-----------------------------------------------------------------------------
(* Arithmetic.                                                             *)

LEMMA Sizes ==
  /\ FB_NUM_COLUMNS \in Nat /\ FB_NUM_COLUMNS >= 3
  /\ ScreenSize \in Nat /\ ScreenSize >= FB_NUM_COLUMNS /\ ScreenSize > 4
  /\ RegisterSize \in Nat /\ RegisterSize >= 1
  /\ RegisterSize * RegisterSize \in Nat
  /\ RegisterSize * RegisterSize > ScreenSize + FB_NUM_COLUMNS
<1>1. ScreenSize > 4
  BY KeyboardAssumption DEF ScreenSize
<1> QED BY <1>1, VgaAssumption, SizeBound, BootAssumption

(* A cursor on the screen is in the ranges that the invariant speaks of. *)
LEMMA ShownRange ==
  ASSUME NEW c \in 0..ScreenSize
  PROVE  /\ c \in Int /\ c >= 0 /\ c <= ScreenSize /\ c <= ScreenSize + 1
         /\ c \in (-FB_NUM_COLUMNS)..(ScreenSize + FB_NUM_COLUMNS)
         /\ c \in 0..(RegisterSize * RegisterSize - 1)
         /\ c \in 0..(ScreenSize + 1)
<1> DEFINE S == ScreenSize
           RR == RegisterSize * RegisterSize
<1>1. S \in Nat /\ RR \in Nat /\ RR > S + FB_NUM_COLUMNS /\ FB_NUM_COLUMNS \in Nat
  BY Sizes
<1>2. c \in 0..S
  OBVIOUS
<1> HIDE DEF S, RR
<1>3. /\ c \in Int /\ c >= 0 /\ c <= S /\ c <= S + 1
      /\ c \in (-FB_NUM_COLUMNS)..(S + FB_NUM_COLUMNS)
      /\ c \in 0..(RR - 1) /\ c \in 0..(S + 1)
  BY <1>1, <1>2
<1> QED BY <1>3 DEF S, RR

(* A quotient is unique. *)
LEMMA Quotient ==
  ASSUME NEW m \in Nat, m >= 1, NEW a \in Nat, NEW b \in 0..(m - 1),
         NEW c \in Nat, NEW d \in 0..(m - 1), a * m + b = c * m + d
  PROVE  a = c /\ b = d
<1>1. ASSUME NEW x \in Nat, NEW y \in Nat, NEW u \in 0..(m - 1), NEW v \in 0..(m - 1),
             x * m + u = y * m + v, x < y
      PROVE  FALSE
  <2>1. y - x - 1 \in Nat /\ y = x + 1 + (y - x - 1)
    BY <1>1
  <2>2. PICK e \in Nat : y = x + 1 + e
    BY <2>1, Zenon
  <2>3. y * m = x * m + m + e * m /\ e * m \in Nat /\ x * m \in Nat
    BY <2>2
  <2> QED BY <1>1, <2>3
<1>2. ~(a < c)
  BY <1>1
<1>3. ~(c < a)
  BY <1>1
<1>4. a = c
  BY <1>2, <1>3
<1>5. a * m \in Nat
  OBVIOUS
<1> QED BY <1>4, <1>5

(* A location is its high register and its low register. *)
LEMMA Registers ==
  ASSUME NEW x \in 0..(RegisterSize * RegisterSize - 1)
  PROVE  /\ x \div RegisterSize \in 0..(RegisterSize - 1)
         /\ x % RegisterSize \in 0..(RegisterSize - 1)
         /\ x = (x \div RegisterSize) * RegisterSize + (x % RegisterSize)
<1> DEFINE R == RegisterSize
           q == x \div R
           r == x % R
<1>1. R \in Nat /\ R >= 1 /\ R * R \in Nat
  BY Sizes
<1>2. x \in Nat /\ x <= R * R - 1
  BY <1>1
<1> HIDE DEF R
<1>3. q \in Nat /\ r \in 0..(R - 1)
  BY <1>1, <1>2
<1>4. x = R * q + r
  BY <1>1, <1>2
<1> HIDE DEF q, r
<1>5. x = q * R + r /\ q * R \in Nat
  BY <1>1, <1>3, <1>4
<1>6. q <= R - 1
  <2> SUFFICES ASSUME q >= R PROVE FALSE
    BY <1>1, <1>3
  <2>1. PICK d \in Nat : q = R + d
    <3>1. q - R \in Nat /\ q = R + (q - R)
      BY <1>1, <1>3
    <3> QED BY <3>1, Zenon
  <2>2. q * R = R * R + d * R /\ d * R \in Nat
    BY <1>1, <2>1
  <2> QED BY <1>1, <1>2, <1>3, <1>5, <2>2
<1>7. q \in 0..(R - 1)
  BY <1>1, <1>3, <1>6
<1> QED BY <1>3, <1>5, <1>7 DEF q, r, R

(* The location of a high and a low byte. *)
LEMMA Location ==
  ASSUME NEW h \in 0..(RegisterSize - 1), NEW l \in 0..(RegisterSize - 1)
  PROVE  /\ h * RegisterSize + l \in 0..(RegisterSize * RegisterSize - 1)
         /\ (h * RegisterSize + l) \div RegisterSize = h
         /\ (h * RegisterSize + l) % RegisterSize = l
<1> DEFINE R == RegisterSize
           x == h * R + l
<1>1. R \in Nat /\ R >= 1 /\ R * R \in Nat /\ h \in Nat /\ l \in Nat
  BY Sizes
<1>2. h * R \in Nat /\ h * R <= R * R - R
  <2>1. PICK d \in Nat : R = h + 1 + d
    <3>1. R - h - 1 \in Nat /\ R = h + 1 + (R - h - 1)
      BY <1>1
    <3> QED BY <3>1, Zenon
  <2>2. R * R = h * R + R + d * R /\ d * R \in Nat /\ h * R \in Nat
    BY <1>1, <2>1
  <2> QED BY <1>1, <2>2
<1>3. x \in 0..(R * R - 1)
  BY <1>1, <1>2
<1> HIDE DEF x
<1>4. /\ x \div R \in 0..(R - 1) /\ x % R \in 0..(R - 1)
      /\ x = (x \div R) * R + (x % R)
  BY <1>3, Registers
<1> DEFINE q == x \div R
           r == x % R
<1>5. q \in Nat /\ r \in 0..(R - 1) /\ q * R + r = h * R + l
  BY <1>1, <1>4 DEF x
<1> HIDE DEF q, r, R
<1>6. q = h /\ r = l
  BY <1>1, <1>5, Quotient DEF R
<1> QED BY <1>3, <1>6 DEF q, r, x, R


-----------------------------------------------------------------------------
(* The callback.                                                           *)

(* Each editing key leaves the cursor on the screen and shown there, even  *)
(* if it finds the cursor where kmain's loops have put it.                 *)
LEMMA EditingShown ==
  ASSUME NEW s, s = [cursor |-> s.cursor, crtc |-> s.crtc, fb |-> s.fb], s.cursor \in Int
  PROVE  /\ Shown(Backspace(s))
         /\ Shown(Return(s))
         /\ Shown(Tab(s))
         /\ Shown(Delete(s))
         /\ Shown(fb_offset_cursor(s, -1))
         /\ Shown(fb_offset_cursor(s, 1))
         /\ Shown(fb_offset_cursor(s, -FB_NUM_COLUMNS))
         /\ Shown(fb_offset_cursor(s, FB_NUM_COLUMNS))
<1>1. ASSUME NEW t, Shown(t)
      PROVE  t.cursor \in Int /\ t = [cursor |-> t.cursor, crtc |-> t.crtc, fb |-> t.fb]
  BY <1>1, SizeBound DEF Shown, OnScreen
<1>2. /\ -1 \in Int /\ 1 \in Int
      /\ FB_NUM_COLUMNS \in Int /\ -FB_NUM_COLUMNS \in Int
  BY VgaAssumption
<1>3. /\ Shown(fb_offset_cursor(s, -1)) /\ Shown(fb_offset_cursor(s, 1))
      /\ Shown(fb_offset_cursor(s, -FB_NUM_COLUMNS)) /\ Shown(fb_offset_cursor(s, FB_NUM_COLUMNS))
  BY <1>2, OffsetOnScreen
<1>4. Shown(fb_print_cell(fb_offset_cursor(s, -1), Blank, 0, 15))
  <2> DEFINE t == fb_offset_cursor(s, -1)
  <2>1. Len(<<>>) \in Int
    OBVIOUS
  <2>2. t.cursor \in Int /\ t = [cursor |-> t.cursor, crtc |-> t.crtc, fb |-> t.fb]
    BY <1>1, <1>3
  <2> HIDE DEF t
  <2>3. Shown(fb_print_cell(t, Blank, 0, 15))
    BY <2>1, <2>2, PrintOnScreen
  <2> QED BY <2>3 DEF t
<1>5. Shown(Delete(s))
  BY <1>4 DEF Delete
<1>6. Shown(Backspace(s))
  <2> DEFINE t == fb_print_cell(fb_offset_cursor(s, -1), Blank, 0, 15)
  <2>1. t.cursor \in Int
    BY <1>1, <1>4
  <2> HIDE DEF t
  <2>2. Shown(fb_offset_cursor(t, -1))
    BY <1>2, <2>1, OffsetOnScreen
  <2> QED BY <2>2 DEF Backspace, t
<1>7. Shown(Return(s))
  <2> DEFINE t == fb_offset_cursor(s, FB_NUM_COLUMNS)
             u == [t EXCEPT !.fb = fb_shift_down(t.fb, fb_get_current_row(t))]
  <2>1. OnScreen(t)
    BY <1>3 DEF Shown
  <2> HIDE DEF t
  <2>2. OnScreen(u)
    BY <2>1, WriteOnScreen
  <2>3. Return(s) = fb_move_cursor_to_start_of_row(u)
    BY DEF Return, t
  <2> HIDE DEF u
  <2> QED BY <2>2, <2>3, StartOfRowOnScreen
<1>8. Shown(Tab(s))
  <2>1. Len(<<Blank, Blank, Blank, Blank>>) \in Int
    OBVIOUS
  <2> QED BY <2>1, PrintOnScreen DEF Tab, fb_print_str
<1> QED BY <1>3, <1>5, <1>6, <1>7, <1>8

(* keyboard_callback moves the cursor onto the screen and shows it there,  *)
(* or moves nothing: MovesCursor tells which.                              *)
LEMMA EditMoves ==
  ASSUME NEW s, s = [cursor |-> s.cursor, crtc |-> s.crtc, fb |-> s.fb], s.cursor \in Int,
         NEW byte
  PROVE  LET t == Edit(s, read_scan_code(byte), KB_SHIFT)
         IN  /\ MovesCursor(byte) => Shown(t)
             /\ ~MovesCursor(byte) => t = [cursor |-> s.cursor, crtc |-> s.crtc, fb |-> t.fb]
<1> DEFINE k == read_scan_code(byte)
           ch == compute_key(k, KB_SHIFT)
           t == ShowShift(s, k)
           Stays(u) == u = [cursor |-> s.cursor, crtc |-> s.crtc, fb |-> u.fb]
           Moving == {BACKSPACE, RETURN, DELETE, ARROW_LEFT, ARROW_RIGHT, ARROW_UP, ARROW_DOWN}
<1>1. MovesCursor(byte) <=> (IF ch = NUL THEN k.is_tab \/ k.is \cap Moving # {}
                                         ELSE ~k.released)
  BY Zenon DEF MovesCursor
<1> HIDE DEF k
<1>2. Stays(t)
  BY DEF ShowShift
<1>3. /\ t = [cursor |-> t.cursor, crtc |-> t.crtc, fb |-> t.fb]
      /\ t.cursor = s.cursor /\ t.cursor \in Int
  BY <1>2
<1> HIDE DEF ch, t
<1>4. CASE ch = NUL
  <2>1. Edit(s, k, KB_SHIFT) = SpecialKey(t, k)
    BY <1>4 DEF Edit, ch, t
  <2>2. CASE k.is_tab \/ k.is \cap Moving # {}
    <3>1. Shown(SpecialKey(t, k))
      <4>1. \/ k.is_tab \/ BACKSPACE \in k.is \/ RETURN \in k.is \/ DELETE \in k.is
            \/ ARROW_LEFT \in k.is \/ ARROW_RIGHT \in k.is \/ ARROW_UP \in k.is
            \/ ARROW_DOWN \in k.is
        BY <2>2
      <4>2. /\ Shown(Backspace(t)) /\ Shown(Return(t)) /\ Shown(Tab(t)) /\ Shown(Delete(t))
            /\ Shown(fb_offset_cursor(t, -1)) /\ Shown(fb_offset_cursor(t, 1))
            /\ Shown(fb_offset_cursor(t, -FB_NUM_COLUMNS))
            /\ Shown(fb_offset_cursor(t, FB_NUM_COLUMNS))
        BY <1>3, EditingShown
      <4> QED BY <4>1, <4>2 DEF SpecialKey
    <3> QED BY <1>1, <1>4, <2>1, <2>2, <3>1 DEF k
  <2>3. CASE ~(k.is_tab \/ k.is \cap Moving # {})
    <3>1. SpecialKey(t, k) = t
      BY <2>3 DEF SpecialKey
    <3> QED BY <1>1, <1>2, <1>4, <2>1, <2>3, <3>1 DEF k
  <2> QED BY <2>2, <2>3
<1>5. CASE ch # NUL /\ k.released
  <2>1. Edit(s, k, KB_SHIFT) = t
    BY <1>5 DEF Edit, ch, t
  <2> QED BY <1>1, <1>2, <1>5, <2>1 DEF k
<1>6. CASE ch # NUL /\ ~k.released
  <2>1. Edit(s, k, KB_SHIFT) = fb_print_cell(t, ch, 0, 15)
    BY <1>6 DEF Edit, ch, t
  <2>2. Len(<<>>) \in Int
    OBVIOUS
  <2>3. Shown(fb_print_cell(t, ch, 0, 15))
    BY <1>3, <2>2, PrintOnScreen
  <2> QED BY <1>1, <1>6, <2>1, <2>3 DEF k
<1> QED BY <1>4, <1>5, <1>6

(* A piece of the Escape key's line, *)
LEMMA PieceShown ==
  ASSUME NEW s, s = [cursor |-> s.cursor, crtc |-> s.crtc, fb |-> s.fb], s.cursor \in Int,
         NEW p \in Line, p.kind # "load"
  PROVE  Shown(PrintPiece(s, p, 0, 15))
<1>1. p \in Pieces /\ p.kind \in {"char", "number"}
  BY DEF Line, Load
<1>2. Len(p.text) \in Int
  BY <1>1 DEF Pieces
<1>3. Shown(fb_print_cell(s, p.text[1], 0, 15)) /\ Shown(fb_print_lstr(s, p.text, 0, 15))
  BY <1>2, PrintOnScreen
<1> QED BY <1>1, <1>3 DEF PrintPiece

(* and the end of the line. *)
LEMMA LineEndShown ==
  ASSUME NEW s, s.cursor \in Int
  PROVE  Shown(NewLine(s, FB_NUM_COLUMNS - 1))
<1>1. Shown(fb_offset_cursor(s, FB_NUM_COLUMNS - 1))
  BY OffsetOnScreen, VgaAssumption
<1> QED BY <1>1, StartOfRowOnScreen DEF Shown, NewLine


(* A callback that has left the cursor shown keeps the invariant: what     *)
(* kmain does next is right for the new cursor, or sends a byte of the old *)
(* one to the low register.                                                *)
LEMMA MovedKeeps ==
  ASSUME BootInv, Shown(screen'), todo' \in Seq(Line), index' = "low",
         raced' = (pc = "write low"), UNCHANGED <<pc, call, i, reg>>
  PROVE  BootInv'
<1> DEFINE c == screen'.cursor
<1>1. /\ screen' = [cursor |-> screen'.cursor, crtc |-> screen'.crtc, fb |-> screen'.fb]
      /\ c \in 0..ScreenSize /\ screen'.crtc = c
  BY DEF Shown, OnScreen
<1> HIDE DEF c
<1>2. /\ c \in Int /\ c >= 0 /\ c <= ScreenSize /\ c <= ScreenSize + 1
      /\ c \in (-FB_NUM_COLUMNS)..(ScreenSize + FB_NUM_COLUMNS)
      /\ c \in 0..(RegisterSize * RegisterSize - 1)
      /\ c \in 0..(ScreenSize + 1)
  BY <1>1, ShownRange
<1>3. Ranges'
  BY <1>1, <1>2 DEF BootInv, Ranges, c, ScreenSize
<1>4. Ports'
  BY <1>1 DEF BootInv, Ports, Follows, HighFollows, c
<1>5. /\ screen'.crtc \in 0..(RegisterSize * RegisterSize - 1)
      /\ pc' \in Places /\ call' \in {"move", "print"} /\ index' \in {"high", "low"}
  BY <1>1, <1>2 DEF BootInv
<1>6. raced' \in BOOLEAN
  OBVIOUS
<1> QED BY <1>1, <1>3, <1>4, <1>5, <1>6 DEF BootInv, Places, Early, InLoops, PortPlaces

(* So does one that has moved nothing. *)
LEMMA StayedKeeps ==
  ASSUME BootInv, todo' \in Seq(Line), UNCHANGED <<pc, call, i, reg, index, raced>>,
         screen' = [cursor |-> screen.cursor, crtc |-> screen.crtc, fb |-> screen'.fb]
  PROVE  BootInv'
<1>1. screen'.cursor = screen.cursor /\ screen'.crtc = screen.crtc
  OBVIOUS
<1>2. Ranges'
  BY <1>1 DEF BootInv, Ranges, ScreenSize
<1>3. Ports'
  BY <1>1 DEF BootInv, Ports, Follows, HighFollows
<1>4. screen' = [cursor |-> screen'.cursor, crtc |-> screen'.crtc, fb |-> screen'.fb]
  BY <1>1
<1> QED BY <1>1, <1>2, <1>3, <1>4 DEF BootInv, Places, Early, InLoops, PortPlaces

(* The callbacks. *)
LEMMA CallbackKeeps ==
  ASSUME BootInv, PressKey \/ ReleaseKey \/ EscapeLine
  PROVE  BootInv'
<1>1. /\ screen = [cursor |-> screen.cursor, crtc |-> screen.crtc, fb |-> screen.fb]
      /\ screen.cursor \in Int
      /\ todo \in Seq(Line)
  <2>1. screen.cursor \in (-FB_NUM_COLUMNS)..(ScreenSize + FB_NUM_COLUMNS)
    BY DEF BootInv, Ranges
  <2>2. screen.cursor \in Int
    BY <2>1, Sizes
  <2> QED BY <2>2, Zenon DEF BootInv
<1>2. ASSUME NEW byte, keyboard_callback(byte), CallbackStep(MovesCursor(byte))
      PROVE  BootInv'
  <2>1. todo' \in Seq(Line)
    BY <1>2, LineIs
  <2>2. screen' = Edit(screen, read_scan_code(byte), KB_SHIFT)
    BY <1>2 DEF keyboard_callback
  <2>3. CASE MovesCursor(byte)
    <3>1. Shown(screen')
      BY <1>1, <2>2, <2>3, EditMoves
    <3>2. /\ index' = "low" /\ raced' = (pc = "write low") /\ UNCHANGED <<pc, call, i, reg>>
      BY <1>2, <2>3 DEF CallbackStep
    <3> QED BY <2>1, <3>1, <3>2, MovedKeeps
  <2>4. CASE ~MovesCursor(byte)
    <3>1. screen' = [cursor |-> screen.cursor, crtc |-> screen.crtc, fb |-> screen'.fb]
      BY <1>1, <2>2, <2>4, EditMoves
    <3>2. UNCHANGED <<pc, call, i, reg, index, raced>>
      BY <1>2, <2>4 DEF CallbackStep
    <3> QED BY <2>1, <3>1, <3>2, StayedKeeps
  <2> QED BY <2>3, <2>4
<1>3. CASE PressKey
  BY <1>2, <1>3 DEF PressKey, Press
<1>4. CASE ReleaseKey
  BY <1>2, <1>4 DEF ReleaseKey, Release
<1>5. CASE EscapeLine
  <2>1. /\ todo # <<>> /\ todo' = Tail(todo)
        /\ index' = "low" /\ raced' = (pc = "write low") /\ UNCHANGED <<pc, call, i, reg>>
    BY <1>5 DEF EscapeLine, PrintMessage, switch_page_directory, CallbackStep
  <2>2. Head(todo) \in Line /\ todo' \in Seq(Line)
    BY <1>1, <2>1, HeadTailProperties
  <2>3. CASE PrintMessage
    <3>1. Shown(screen')
      BY <1>1, <2>2, <2>3, PieceShown DEF PrintMessage
    <3> QED BY <2>1, <2>2, <3>1, MovedKeeps
  <2>4. CASE switch_page_directory
    <3>1. Shown(screen')
      BY <1>1, <2>4, LineEndShown DEF switch_page_directory
    <3> QED BY <2>1, <2>2, <3>1, MovedKeeps
  <2> QED BY <1>5, <2>3, <2>4 DEF EscapeLine
<1> QED BY <1>3, <1>4, <1>5

LEMMA BootInitHolds == BootInit => BootInv
<1> SUFFICES ASSUME BootInit PROVE BootInv
  OBVIOUS
<1>1. /\ screen.cursor = FB_NUM_COLUMNS /\ screen.crtc = FB_NUM_COLUMNS
      /\ screen = [cursor |-> screen.cursor, crtc |-> screen.crtc, fb |-> screen.fb]
  BY DEF BootInit
<1>2. pc = "clear" /\ call = "move" /\ i = 0 /\ reg = 0 /\ index = "low" /\ raced = FALSE
      /\ todo = <<>>
  BY DEF BootInit
<1>3. Ranges
  <2>1. /\ FB_NUM_COLUMNS \in 0..ScreenSize /\ 0 \in 0..ScreenSize /\ 0 < ScreenSize
        /\ 0 \in (-FB_NUM_COLUMNS)..(ScreenSize + FB_NUM_COLUMNS)
        /\ FB_NUM_COLUMNS \in (-FB_NUM_COLUMNS)..(ScreenSize + FB_NUM_COLUMNS)
    BY Sizes
  <2> QED BY <1>1, <1>2, <2>1 DEF Ranges, Early, InLoops, PortPlaces
<1>4. Ports
  BY <1>2 DEF Ports
<1>5. screen.crtc \in 0..(RegisterSize * RegisterSize - 1)
  BY <1>1, Sizes
<1>6. todo \in Seq(Line)
  BY <1>2
<1> QED BY <1>1, <1>2, <1>3, <1>4, <1>5, <1>6 DEF BootInv, Places, Early


-----------------------------------------------------------------------------
(* kmain.                                                                  *)

(* What kmain's steps leave alone. *)
LEMMA AtKeeps ==
  ASSUME BootInv, NEW l, At(l)
  PROVE  /\ pc = l /\ todo' \in Seq(Line)
         /\ screen.crtc \in 0..(RegisterSize * RegisterSize - 1)
         /\ call \in {"move", "print"} /\ index \in {"high", "low"} /\ raced \in BOOLEAN
         /\ screen = [cursor |-> screen.cursor, crtc |-> screen.crtc, fb |-> screen.fb]
BY Zenon DEF BootInv, At

(* The steps that write the frame buffer leave the cursor alone. *)
LEMMA WriteKeeps ==
  ASSUME NEW s, NEW f, s = [cursor |-> s.cursor, crtc |-> s.crtc, fb |-> s.fb]
  PROVE  LET t == [s EXCEPT !.fb = f]
         IN  /\ t = [cursor |-> t.cursor, crtc |-> t.crtc, fb |-> t.fb]
             /\ t.cursor = s.cursor /\ t.crtc = s.crtc
OBVIOUS

(* fb_clear's loop. *)
LEMMA ClearKeeps ==
  ASSUME BootInv, ClearCell
  PROVE  BootInv'
<1>1. At("clear")
  BY DEF ClearCell
<1>2. /\ pc = "clear" /\ todo' \in Seq(Line)
      /\ screen.crtc \in 0..(RegisterSize * RegisterSize - 1)
      /\ call \in {"move", "print"} /\ index \in {"high", "low"} /\ raced \in BOOLEAN
      /\ screen = [cursor |-> screen.cursor, crtc |-> screen.crtc, fb |-> screen.fb]
  BY <1>1, AtKeeps
<1>3. /\ screen' = [cursor |-> screen'.cursor, crtc |-> screen'.crtc, fb |-> screen'.fb]
      /\ screen'.cursor = screen.cursor /\ screen'.crtc = screen.crtc
  BY <1>2, WriteKeeps DEF ClearCell
<1>4. /\ i' = i + 1 /\ pc' \in {"move", "clear"} /\ (pc' = "clear" => i' # ScreenSize)
      /\ UNCHANGED <<call, reg, index, raced>>
  BY DEF ClearCell
<1>5. /\ i \in 0..ScreenSize /\ i < ScreenSize
  BY <1>2 DEF BootInv, Ranges
<1>6. /\ i' \in 0..ScreenSize /\ (pc' = "clear" => i' < ScreenSize)
  BY <1>4, <1>5, Sizes
<1>7. Ranges'
  BY <1>2, <1>3, <1>4, <1>6 DEF BootInv, Ranges, Early, InLoops, PortPlaces, ScreenSize
<1>8. Ports'
  BY <1>4 DEF Ports
<1> QED BY <1>2, <1>3, <1>4, <1>7, <1>8 DEF BootInv, Places, Early

(* fb_move_cursor's assignment. *)
LEMMA MoveKeeps ==
  ASSUME BootInv, MoveCursor
  PROVE  BootInv'
<1>1. At("move")
  BY DEF MoveCursor
<1>2. /\ pc = "move" /\ todo' \in Seq(Line)
      /\ screen.crtc \in 0..(RegisterSize * RegisterSize - 1)
      /\ call \in {"move", "print"} /\ index \in {"high", "low"} /\ raced \in BOOLEAN
      /\ screen = [cursor |-> screen.cursor, crtc |-> screen.crtc, fb |-> screen.fb]
  BY <1>1, AtKeeps
<1>3. /\ screen' = [cursor |-> screen'.cursor, crtc |-> screen'.crtc, fb |-> screen'.fb]
      /\ screen'.cursor = 3 /\ screen'.crtc = screen.crtc
  BY <1>2 DEF MoveCursor
<1>4. pc' = "select high" /\ call' = "move" /\ UNCHANGED <<i, reg, index, raced>>
  BY DEF MoveCursor
<1>5. /\ 3 \in (-FB_NUM_COLUMNS)..(ScreenSize + FB_NUM_COLUMNS) /\ 3 <= ScreenSize
      /\ 3 >= 0
  BY Sizes
<1>6. Ranges'
  BY <1>2, <1>3, <1>4, <1>5 DEF BootInv, Ranges, Early, InLoops, PortPlaces, ScreenSize
<1>7. Ports'
  BY <1>4 DEF Ports
<1> QED BY <1>2, <1>3, <1>4, <1>6, <1>7 DEF BootInv, Places, PortPlaces


(* Until the writes to the ports, the invariant is Ranges. *)
LEMMA LoopKeeps ==
  ASSUME BootInv, NEW l, At(l), Ranges', UNCHANGED <<index, raced>>,
         pc' \in Early \cup InLoops \cup {"select high"}, call' \in {"move", "print"},
         screen' = [cursor |-> screen'.cursor, crtc |-> screen'.crtc, fb |-> screen'.fb],
         screen'.crtc = screen.crtc
  PROVE  BootInv'
<1>1. /\ todo' \in Seq(Line) /\ index \in {"high", "low"} /\ raced \in BOOLEAN
      /\ screen.crtc \in 0..(RegisterSize * RegisterSize - 1)
  BY AtKeeps
<1>2. Ports'
  BY DEF Ports, Early, InLoops
<1>3. pc' \in Places
  BY DEF Places, PortPlaces
<1> QED BY <1>1, <1>2, <1>3 DEF BootInv

(* fb_print_cell and fb_offset_cursor, before the writes to the ports. *)
LEMMA OffsetKeeps ==
  ASSUME BootInv,
         \/ PrintArgument \/ PrintWrite \/ LoadCursor \/ StoreCursor
         \/ TestAbove \/ LoadRow \/ StoreRow \/ Scroll
         \/ TestBelow \/ LoadBelow \/ StoreBelow \/ Shift
  PROVE  BootInv'
<1> DEFINE S == ScreenSize
           C == FB_NUM_COLUMNS
           x == screen.cursor
<1>1. /\ screen = [cursor |-> x, crtc |-> screen.crtc, fb |-> screen.fb]
      /\ call \in {"move", "print"}
      /\ x \in (-C)..(S + C) /\ reg \in (-C)..(S + C) /\ i \in 0..S
  BY DEF BootInv, Ranges
<1>2. S \in Nat /\ C \in Nat /\ C >= 3 /\ S >= C
  BY Sizes
<1>3. ScreenSize' = ScreenSize
  BY DEF ScreenSize
<1> USE DEF Early, InLoops, PortPlaces
<1>4. CASE PrintArgument
  <2>1. /\ At("print") /\ pc = "print"
        /\ screen' = screen /\ reg' = screen.cursor
        /\ pc' = "print write" /\ call' = "print" /\ UNCHANGED <<i, index, raced>>
    BY <1>4 DEF PrintArgument, At
  <2>2. /\ screen' = [cursor |-> screen'.cursor, crtc |-> screen'.crtc, fb |-> screen'.fb]
        /\ screen'.cursor = screen.cursor /\ screen'.crtc = screen.crtc
    BY <1>1, <2>1
  <2>3. x \in 0..S
    BY <2>1 DEF BootInv, Ranges
  <2>4. Ranges'
    BY <1>1, <1>2, <1>3, <2>1, <2>2, <2>3 DEF Ranges
  <2> QED BY <1>1, <2>1, <2>2, <2>4, LoopKeeps
<1>5. CASE PrintWrite
  <2>1. /\ At("print write") /\ pc = "print write"
        /\ screen' = [screen EXCEPT !.fb = fb_write_cell(screen.fb, reg, Prompt, 0, 15)] /\ reg' = reg
        /\ pc' = "load" /\ call' = call /\ UNCHANGED <<i, index, raced>>
    BY <1>5 DEF PrintWrite, At
  <2>2. /\ screen' = [cursor |-> screen'.cursor, crtc |-> screen'.crtc, fb |-> screen'.fb]
        /\ screen'.cursor = screen.cursor /\ screen'.crtc = screen.crtc
    BY <1>1, <2>1
  <2>3. x \in 0..S /\ reg \in 0..S /\ call = "print"
    BY <2>1 DEF BootInv, Ranges
  <2>4. Ranges'
    BY <1>1, <1>2, <1>3, <2>1, <2>2, <2>3 DEF Ranges
  <2> QED BY <1>1, <2>1, <2>2, <2>4, LoopKeeps
<1>6. CASE LoadCursor
  <2>1. /\ At("load") /\ pc = "load"
        /\ screen' = screen /\ reg' = screen.cursor
        /\ pc' = "store" /\ call' = call /\ UNCHANGED <<i, index, raced>>
    BY <1>6 DEF LoadCursor, At
  <2>2. /\ screen' = [cursor |-> screen'.cursor, crtc |-> screen'.crtc, fb |-> screen'.fb]
        /\ screen'.cursor = screen.cursor /\ screen'.crtc = screen.crtc
    BY <1>1, <2>1
  <2>3. x \in 0..S /\ call = "print"
    BY <2>1 DEF BootInv, Ranges
  <2>4. Ranges'
    BY <1>1, <1>2, <1>3, <2>1, <2>2, <2>3 DEF Ranges
  <2> QED BY <1>1, <2>1, <2>2, <2>4, LoopKeeps
<1>7. CASE StoreCursor
  <2>1. /\ At("store") /\ pc = "store"
        /\ screen' = [screen EXCEPT !.cursor = reg + 1] /\ reg' = reg
        /\ pc' = "above" /\ call' = call /\ UNCHANGED <<i, index, raced>>
    BY <1>7 DEF StoreCursor, At
  <2>2. /\ screen' = [cursor |-> screen'.cursor, crtc |-> screen'.crtc, fb |-> screen'.fb]
        /\ screen'.cursor = reg + 1 /\ screen'.crtc = screen.crtc
    BY <1>1, <2>1
  <2>3. reg \in 0..S /\ call = "print"
    BY <2>1 DEF BootInv, Ranges
  <2>4. Ranges'
    BY <1>1, <1>2, <1>3, <2>1, <2>2, <2>3 DEF Ranges
  <2> QED BY <1>1, <2>1, <2>2, <2>4, LoopKeeps
<1>8. CASE TestAbove
  <2>1. /\ At("above") /\ pc = "above"
        /\ screen' = screen /\ reg' = reg
        /\ pc' = (IF x > S THEN "load row" ELSE "below") /\ call' = call /\ UNCHANGED <<i, index, raced>>
    BY <1>8 DEF TestAbove, At
  <2>2. /\ screen' = [cursor |-> screen'.cursor, crtc |-> screen'.crtc, fb |-> screen'.fb]
        /\ screen'.cursor = screen.cursor /\ screen'.crtc = screen.crtc
    BY <1>1, <2>1
  <2>3. x <= S + 1 /\ call = "print"
    BY <2>1 DEF BootInv, Ranges
  <2>4. x > S => x \in 0..(S + 1)
    BY <1>1, <1>2, <2>2, <2>3
  <2>5. Ranges'
    BY <1>1, <1>2, <1>3, <2>1, <2>2, <2>3, <2>4 DEF Ranges
  <2> QED BY <1>1, <2>1, <2>2, <2>5, LoopKeeps
<1>9. CASE LoadRow
  <2>1. /\ At("load row") /\ pc = "load row"
        /\ screen' = screen /\ reg' = screen.cursor
        /\ pc' = "store row" /\ call' = call /\ UNCHANGED <<i, index, raced>>
    BY <1>9 DEF LoadRow, At
  <2>2. /\ screen' = [cursor |-> screen'.cursor, crtc |-> screen'.crtc, fb |-> screen'.fb]
        /\ screen'.cursor = screen.cursor /\ screen'.crtc = screen.crtc
    BY <1>1, <2>1
  <2>3. x \in 0..(S + 1) /\ call = "print"
    BY <2>1 DEF BootInv, Ranges
  <2>4. Ranges'
    BY <1>1, <1>2, <1>3, <2>1, <2>2, <2>3 DEF Ranges
  <2> QED BY <1>1, <2>1, <2>2, <2>4, LoopKeeps
<1>10. CASE StoreRow
  <2>1. /\ At("store row") /\ pc = "store row"
        /\ screen' = [screen EXCEPT !.cursor = reg - FB_NUM_COLUMNS] /\ reg' = reg
        /\ pc' = "scroll" /\ call' = call /\ UNCHANGED <<i, index, raced>>
    BY <1>10 DEF StoreRow, At
  <2>2. /\ screen' = [cursor |-> screen'.cursor, crtc |-> screen'.crtc, fb |-> screen'.fb]
        /\ screen'.cursor = reg - FB_NUM_COLUMNS /\ screen'.crtc = screen.crtc
    BY <1>1, <2>1
  <2>3. reg \in 0..(S + 1) /\ call = "print"
    BY <2>1 DEF BootInv, Ranges
  <2>4. screen'.cursor \in (-C)..(S + C) /\ screen'.cursor <= S
    BY <1>1, <1>2, <2>2, <2>3
  <2>5. Ranges'
    BY <1>1, <1>2, <1>3, <2>1, <2>2, <2>3, <2>4 DEF Ranges
  <2> QED BY <1>1, <2>1, <2>2, <2>5, LoopKeeps
<1>11. CASE Scroll
  <2>1. /\ At("scroll") /\ pc = "scroll"
        /\ screen' = [screen EXCEPT !.fb = fb_scroll(screen.fb)] /\ reg' = reg
        /\ pc' = "above" /\ call' = call /\ UNCHANGED <<i, index, raced>>
    BY <1>11 DEF Scroll, At
  <2>2. /\ screen' = [cursor |-> screen'.cursor, crtc |-> screen'.crtc, fb |-> screen'.fb]
        /\ screen'.cursor = screen.cursor /\ screen'.crtc = screen.crtc
    BY <1>1, <2>1
  <2>3. x <= S /\ call = "print"
    BY <2>1 DEF BootInv, Ranges
  <2>4. Ranges'
    BY <1>1, <1>2, <1>3, <2>1, <2>2, <2>3 DEF Ranges
  <2> QED BY <1>1, <2>1, <2>2, <2>4, LoopKeeps
<1>12. CASE TestBelow
  <2>1. /\ At("below") /\ pc = "below"
        /\ screen' = screen /\ reg' = reg
        /\ pc' = (IF x < 0 THEN "load below" ELSE "select high") /\ call' = call /\ UNCHANGED <<i, index, raced>>
    BY <1>12 DEF TestBelow, At
  <2>2. /\ screen' = [cursor |-> screen'.cursor, crtc |-> screen'.crtc, fb |-> screen'.fb]
        /\ screen'.cursor = screen.cursor /\ screen'.crtc = screen.crtc
    BY <1>1, <2>1
  <2>3. call = "print"
    BY <2>1 DEF BootInv, Ranges
  <2>4. (x < 0 => x <= S) /\ (~(x < 0) => x >= 0)
    BY <1>1, <1>2, <2>2, <2>3
  <2>5. Ranges'
    BY <1>1, <1>2, <1>3, <2>1, <2>2, <2>3, <2>4 DEF Ranges
  <2> QED BY <1>1, <2>1, <2>2, <2>5, LoopKeeps
<1>13. CASE LoadBelow
  <2>1. /\ At("load below") /\ pc = "load below"
        /\ screen' = screen /\ reg' = screen.cursor
        /\ pc' = "store below" /\ call' = call /\ UNCHANGED <<i, index, raced>>
    BY <1>13 DEF LoadBelow, At
  <2>2. /\ screen' = [cursor |-> screen'.cursor, crtc |-> screen'.crtc, fb |-> screen'.fb]
        /\ screen'.cursor = screen.cursor /\ screen'.crtc = screen.crtc
    BY <1>1, <2>1
  <2>3. x <= S /\ call = "print"
    BY <2>1 DEF BootInv, Ranges
  <2>4. Ranges'
    BY <1>1, <1>2, <1>3, <2>1, <2>2, <2>3 DEF Ranges
  <2> QED BY <1>1, <2>1, <2>2, <2>4, LoopKeeps
<1>14. CASE StoreBelow
  <2>1. /\ At("store below") /\ pc = "store below"
        /\ screen' = [screen EXCEPT !.cursor = reg + FB_NUM_COLUMNS] /\ reg' = reg
        /\ pc' = "shift" /\ call' = call /\ UNCHANGED <<i, index, raced>>
    BY <1>14 DEF StoreBelow, At
  <2>2. /\ screen' = [cursor |-> screen'.cursor, crtc |-> screen'.crtc, fb |-> screen'.fb]
        /\ screen'.cursor = reg + FB_NUM_COLUMNS /\ screen'.crtc = screen.crtc
    BY <1>1, <2>1
  <2>3. reg <= S /\ call = "print"
    BY <2>1 DEF BootInv, Ranges
  <2>4. screen'.cursor \in (-C)..(S + C) /\ screen'.cursor >= 0
    BY <1>1, <1>2, <2>2, <2>3
  <2>5. Ranges'
    BY <1>1, <1>2, <1>3, <2>1, <2>2, <2>3, <2>4 DEF Ranges
  <2> QED BY <1>1, <2>1, <2>2, <2>5, LoopKeeps
<1>15. CASE Shift
  <2>1. /\ At("shift") /\ pc = "shift"
        /\ screen' = [screen EXCEPT !.fb = fb_shift_down(screen.fb, FB_NUM_ROWS)] /\ reg' = reg
        /\ pc' = "below" /\ call' = call /\ UNCHANGED <<i, index, raced>>
    BY <1>15 DEF Shift, At
  <2>2. /\ screen' = [cursor |-> screen'.cursor, crtc |-> screen'.crtc, fb |-> screen'.fb]
        /\ screen'.cursor = screen.cursor /\ screen'.crtc = screen.crtc
    BY <1>1, <2>1
  <2>3. x >= 0 /\ call = "print"
    BY <2>1 DEF BootInv, Ranges
  <2>4. Ranges'
    BY <1>1, <1>2, <1>3, <2>1, <2>2, <2>3 DEF Ranges
  <2> QED BY <1>1, <2>1, <2>2, <2>4, LoopKeeps
<1> QED BY <1>4, <1>5, <1>6, <1>7, <1>8, <1>9, <1>10, <1>11, <1>12, <1>13, <1>14, <1>15



(* What a write to the data port leaves in the controller. *)
LEMMA DataIs ==
  ASSUME BootInv, NEW v \in 0..(RegisterSize - 1), WriteData(v)
  PROVE  /\ screen' = [cursor |-> screen'.cursor, crtc |-> screen'.crtc, fb |-> screen'.fb]
         /\ screen'.cursor = screen.cursor
         /\ screen'.crtc \in 0..(RegisterSize * RegisterSize - 1)
         /\ index = "high" => screen'.crtc \div RegisterSize = v
         /\ index # "high"
              => /\ screen'.crtc = (screen.crtc \div RegisterSize) * RegisterSize + v
                 /\ screen'.crtc \div RegisterSize = screen.crtc \div RegisterSize
<1> DEFINE R == RegisterSize
           h == screen.crtc \div RegisterSize
           l == screen.crtc % RegisterSize
           y == IF index = "high" THEN v * R + l ELSE h * R + v
<1>1. /\ screen = [cursor |-> screen.cursor, crtc |-> screen.crtc, fb |-> screen.fb]
      /\ screen.crtc \in 0..(R * R - 1)
  BY DEF BootInv
<1>2. screen' = [screen EXCEPT !.crtc = y]
  BY DEF WriteData
<1>3. h \in 0..(R - 1) /\ l \in 0..(R - 1)
  BY <1>1, Registers
<1> HIDE DEF h, l
<1>4. /\ v * R + l \in 0..(R * R - 1) /\ (v * R + l) \div R = v
      /\ h * R + v \in 0..(R * R - 1) /\ (h * R + v) \div R = h
  BY <1>3, Location
<1> HIDE DEF R
<1>5. /\ y \in 0..(R * R - 1)
      /\ index = "high" => y \div R = v
      /\ index # "high" => y = h * R + v /\ y \div R = h
  BY <1>4, Zenon
<1> HIDE DEF y
<1>6. /\ screen' = [cursor |-> screen'.cursor, crtc |-> screen'.crtc, fb |-> screen'.fb]
      /\ screen'.cursor = screen.cursor /\ screen'.crtc = y
  BY <1>1, <1>2
<1> QED BY <1>5, <1>6, Zenon DEF h, R

(* A byte of the cursor is in the registers' range, and in reg's. *)
LEMMA ByteRange ==
  ASSUME NEW x \in 0..(ScreenSize + FB_NUM_COLUMNS)
  PROVE  /\ x \div RegisterSize \in 0..(RegisterSize - 1)
         /\ x \div RegisterSize \in (-FB_NUM_COLUMNS)..(ScreenSize + FB_NUM_COLUMNS)
         /\ x % RegisterSize \in 0..(RegisterSize - 1)
         /\ x % RegisterSize \in (-FB_NUM_COLUMNS)..(ScreenSize + FB_NUM_COLUMNS)
         /\ x = (x \div RegisterSize) * RegisterSize + (x % RegisterSize)
<1> DEFINE R == RegisterSize
           RR == R * R
           q == x \div R
           r == x % R
           N == ScreenSize + FB_NUM_COLUMNS
           C == FB_NUM_COLUMNS
<1>1. R \in Nat /\ R >= 1 /\ RR \in Nat /\ RR > N /\ N \in Nat /\ C \in Nat
  BY Sizes
<1>2. x \in 0..N
  OBVIOUS
<1> HIDE DEF RR, N
<1>3. x \in 0..(RR - 1)
  BY <1>1, <1>2
<1>4. q \in 0..(R - 1) /\ r \in 0..(R - 1) /\ x = q * R + r
  BY <1>3, Registers DEF RR
<1> HIDE DEF q, r, R
<1>5. q \in Nat /\ r \in Nat
  BY <1>1, <1>4
<1>6. PICK d \in Nat : R = 1 + d
  <2>1. R - 1 \in Nat /\ R = 1 + (R - 1)
    BY <1>1
  <2> QED BY <2>1, Zenon
<1>7. q * R = q + q * d /\ q * d \in Nat
  BY <1>5, <1>6
<1>8. q <= x /\ r <= x
  BY <1>4, <1>5, <1>7
<1>9. q \in (-C)..N /\ r \in (-C)..N
  BY <1>1, <1>2, <1>5, <1>8
<1> QED BY <1>4, <1>9 DEF q, r, R, N

(* The writes to the ports. *)
LEMMA PortsKeep ==
  ASSUME BootInv,
         \/ SelectHigh \/ HighArgument \/ WriteHigh
         \/ SelectLow \/ LowArgument \/ WriteLow
  PROVE  BootInv'
<1> DEFINE S == ScreenSize
           C == FB_NUM_COLUMNS
           R == RegisterSize
           x == screen.cursor
<1>1. /\ screen = [cursor |-> x, crtc |-> screen.crtc, fb |-> screen.fb]
      /\ screen.crtc \in 0..(RegisterSize * RegisterSize - 1)
      /\ call \in {"move", "print"} /\ index \in {"high", "low"} /\ raced \in BOOLEAN
      /\ x \in (-C)..(S + C) /\ reg \in (-C)..(S + C) /\ i \in 0..S
  BY DEF BootInv, Ranges
<1>2. S \in Nat /\ C \in Nat
  BY Sizes
<1>3. ScreenSize' = ScreenSize
  BY DEF ScreenSize
<1>4. /\ pc \in PortPlaces /\ todo' \in Seq(Line)
      /\ call' = call /\ i' = i /\ screen'.cursor = x
      /\ screen' = [cursor |-> screen'.cursor, crtc |-> screen'.crtc, fb |-> screen'.fb]
      /\ screen'.crtc \in 0..(RegisterSize * RegisterSize - 1)
  <2>1. ASSUME WriteData(reg), pc \in {"write high", "write low"}
        PROVE  /\ screen' = [cursor |-> screen'.cursor, crtc |-> screen'.crtc, fb |-> screen'.fb]
               /\ screen'.cursor = x
               /\ screen'.crtc \in 0..(RegisterSize * RegisterSize - 1)
    <3>1. reg \in 0..(RegisterSize - 1)
      BY <2>1 DEF BootInv, Ranges
    <3> QED BY <2>1, <3>1, DataIs
  <2>2. CASE WriteHigh \/ WriteLow
    BY <2>1, <2>2, AtKeeps DEF WriteHigh, WriteLow, At, PortPlaces
  <2>3. CASE SelectHigh \/ HighArgument \/ SelectLow \/ LowArgument
    BY <1>1, <2>3, AtKeeps DEF SelectHigh, HighArgument, SelectLow, LowArgument, At, PortPlaces
  <2> QED BY <2>2, <2>3
<1>5. x \in 0..(S + C) /\ x >= 0 /\ (call = "move" => x <= S)
  <2>1. x >= 0 /\ (call = "move" => x <= S)
    BY <1>4 DEF BootInv, Ranges
  <2> QED BY <1>1, <1>2, <2>1
<1>6. SUFFICES /\ Ranges' /\ Ports'
               /\ pc' \in Places /\ index' \in {"high", "low"} /\ raced' \in BOOLEAN
  BY <1>1, <1>4 DEF BootInv
<1>7. /\ x \div R \in 0..(R - 1) /\ x \div R \in (-C)..(S + C)
      /\ x % R \in 0..(R - 1) /\ x % R \in (-C)..(S + C)
      /\ x = (x \div R) * R + (x % R)
  BY <1>5, ByteRange
<1>8. CASE SelectHigh
  <2>1. /\ pc = "select high" /\ pc' = "high argument" /\ index' = "high"
        /\ UNCHANGED <<screen, reg, raced>>
    BY <1>8 DEF SelectHigh, At
  <2>2. Ranges'
    BY <1>1, <1>3, <1>4, <1>5, <2>1 DEF Ranges, Early, InLoops, PortPlaces
  <2> QED BY <1>1, <2>1, <2>2 DEF Ports, Places, PortPlaces
<1>9. CASE HighArgument
  <2>1. /\ pc = "high argument" /\ pc' = "write high" /\ reg' = x \div R
        /\ UNCHANGED <<screen, index, raced>>
    BY <1>9 DEF HighArgument, At
  <2>2. Ranges'
    BY <1>1, <1>3, <1>4, <1>5, <1>7, <2>1 DEF Ranges, Early, InLoops, PortPlaces
  <2>3. index = "high" \/ (index = "low" /\ Follows)
    BY <1>1, <2>1 DEF BootInv, Ports
  <2>4. Ports'
    BY <2>1, <2>3 DEF Ports, Follows
  <2> QED BY <1>1, <2>1, <2>2, <2>4 DEF Places, PortPlaces
<1>10. CASE WriteHigh
  <2>1. /\ pc = "write high" /\ pc' = "select low" /\ WriteData(reg)
        /\ UNCHANGED <<reg, index, raced>>
    BY <1>10 DEF WriteHigh, At
  <2>2. Ranges'
    BY <1>1, <1>3, <1>4, <1>5, <2>1 DEF Ranges, Early, InLoops, PortPlaces
  <2>3. /\ reg \in 0..(RegisterSize - 1)
        /\ \/ index = "high" /\ reg = screen.cursor \div RegisterSize
           \/ index = "low" /\ Follows
    BY <2>1 DEF BootInv, Ranges, Ports
  <2>4. screen'.crtc \div RegisterSize = screen.cursor \div RegisterSize
    <3>1. /\ index = "high" => screen'.crtc \div RegisterSize = reg
          /\ index # "high" => screen'.crtc \div RegisterSize = screen.crtc \div RegisterSize
      BY <2>1, <2>3, DataIs
    <3> QED BY <2>3, <3>1 DEF Follows
  <2>5. Ports'
    BY <1>4, <2>1, <2>4 DEF Ports, HighFollows
  <2> QED BY <1>1, <2>1, <2>2, <2>5 DEF Places, PortPlaces
<1>11. CASE SelectLow
  <2>1. /\ pc = "select low" /\ pc' = "low argument" /\ index' = "low"
        /\ UNCHANGED <<screen, reg, raced>>
    BY <1>11 DEF SelectLow, At
  <2>2. Ranges'
    BY <1>1, <1>3, <1>4, <1>5, <2>1 DEF Ranges, Early, InLoops, PortPlaces
  <2>3. Ports'
    BY <2>1 DEF BootInv, Ports, HighFollows
  <2> QED BY <1>1, <2>1, <2>2, <2>3 DEF Places, PortPlaces
<1>12. CASE LowArgument
  <2>1. /\ pc = "low argument" /\ pc' = "write low" /\ reg' = x % R /\ raced' = FALSE
        /\ UNCHANGED <<screen, index>>
    BY <1>12 DEF LowArgument, At
  <2>2. Ranges'
    BY <1>1, <1>3, <1>4, <1>5, <1>7, <2>1 DEF Ranges, Early, InLoops, PortPlaces
  <2>3. Ports'
    BY <2>1 DEF BootInv, Ports, HighFollows
  <2> QED BY <1>1, <2>1, <2>2, <2>3 DEF Places, PortPlaces
<1>13. CASE WriteLow
  <2>1. /\ pc = "write low" /\ pc' = (IF call = "move" THEN "print" ELSE "idle")
        /\ WriteData(reg) /\ UNCHANGED <<reg, index, raced>>
    BY <1>13 DEF WriteLow, At
  <2>2. x \in 0..(S + C) /\ (call = "move" => x \in 0..S)
    BY <1>2, <1>5
  <2>3. Ranges'
    BY <1>1, <1>3, <1>4, <1>5, <2>1, <2>2 DEF Ranges, Early, InLoops, PortPlaces
  <2>4. /\ reg \in 0..(RegisterSize - 1) /\ index = "low" /\ HighFollows
        /\ raced \/ reg = screen.cursor % RegisterSize
    BY <2>1 DEF BootInv, Ranges, Ports
  <2>5. /\ screen'.crtc = (screen.cursor \div RegisterSize) * RegisterSize + reg
        /\ screen'.crtc \div RegisterSize = screen.cursor \div RegisterSize
    <3>1. /\ screen'.crtc = (screen.crtc \div RegisterSize) * RegisterSize + reg
          /\ screen'.crtc \div RegisterSize = screen.crtc \div RegisterSize
      BY <2>1, <2>4, DataIs
    <3> QED BY <2>4, <3>1 DEF HighFollows
  <2>6. raced \/ screen'.crtc = screen.cursor
    BY <1>7, <2>4, <2>5, Zenon
  <2>7. Ports'
    BY <1>4, <2>1, <2>5, <2>6 DEF Ports, HighFollows, Follows
  <2> QED BY <1>1, <2>1, <2>3, <2>7 DEF Places, Early, PortPlaces
<1> QED BY <1>8, <1>9, <1>10, <1>11, <1>12, <1>13

-----------------------------------------------------------------------------
(* The theorems.                                                           *)

LEMMA BootNextHolds == BootInv /\ [BootNext]_bootVars => BootInv'
<1> SUFFICES ASSUME BootInv, [BootNext]_bootVars PROVE BootInv'
  OBVIOUS
<1>1. CASE kmain
  BY <1>1, ClearKeeps, MoveKeeps, OffsetKeeps, PortsKeep DEF kmain
<1>2. CASE PressKey \/ ReleaseKey \/ EscapeLine
  BY <1>2, CallbackKeeps
<1>3. CASE Idle \/ UNCHANGED bootVars
  <2>1. UNCHANGED <<screen, todo, pc, call, i, reg, index, raced>>
    BY <1>3 DEF Idle, bootVars, vars
  <2>2. Ranges'
    BY <2>1 DEF BootInv, Ranges, ScreenSize
  <2>3. Ports'
    BY <2>1 DEF BootInv, Ports, Follows, HighFollows
  <2> QED BY <2>1, <2>2, <2>3 DEF BootInv
<1> QED BY <1>1, <1>2, <1>3 DEF BootNext

(* BootInv is an invariant: it says, for each place of kmain (kmain.c:53), *)
(* where cursor_pos can be and how far the controller follows it, whatever *)
(* callbacks have interrupted it.                                          *)
THEOREM BootInvariant == BootSpec => []BootInv
BY BootInitHolds, BootNextHolds, PTL DEF BootSpec

(* The variables of kmain and the controller keep their types: cursor_pos  *)
(* stays within one row of the screen in the middle of fb_offset_cursor    *)
(* (vga.c:58) too, and a byte for a register fits it.                      *)
THEOREM BootTypes == BootSpec => []BootTypeOK
<1>1. BootInv => BootTypeOK
  BY DEF BootInv, Ranges, BootTypeOK
<1> QED BY <1>1, BootInvariant, PTL

(* When kmain is done (kmain.c:55), the cursor is on the screen or on the  *)
(* row behind it, however often callbacks have moved it between the tests, *)
(* loads and stores of fb_offset_cursor (vga.c:58).                        *)
THEOREM CursorEndsNear == BootSpec => []CursorSettles
<1>1. BootInv => CursorSettles
  <2> SUFFICES ASSUME BootInv, pc = "idle"
               PROVE  screen.cursor \in 0..(ScreenSize + FB_NUM_COLUMNS)
    BY DEF CursorSettles
  <2>1. /\ screen.cursor \in (-FB_NUM_COLUMNS)..(ScreenSize + FB_NUM_COLUMNS)
        /\ screen.cursor >= 0
    BY DEF BootInv, Ranges
  <2> QED BY <2>1, Sizes
<1> QED BY <1>1, BootInvariant, PTL

(* The controller never shows the cursor on a wrong page of the screen:    *)
(* no interleaving of callbacks with kmain's port writes (vga.c:76) leaves *)
(* a wrong high byte.                                                      *)
THEOREM HighByteIsRight == BootSpec => []HighByteFollows
<1>1. BootInv => HighByteFollows
  BY DEF BootInv, Ports, HighFollows, HighByteFollows
<1> QED BY <1>1, BootInvariant, PTL

(* The cursor shown is wrong only if a callback has moved the cursor       *)
(* between kmain's computation of the low byte (vga.c:79) and its outb.    *)
THEOREM StaleOnlyAfterRace == BootSpec => []StaleOnlyIfRaced
<1>1. BootInv => StaleOnlyIfRaced
  BY DEF BootInv, Ports, Follows, StaleOnlyIfRaced, HardwareFollows
<1> QED BY <1>1, BootInvariant, PTL

=============================================================================
