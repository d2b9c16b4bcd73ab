------------------------------ MODULE VgaProofs -----------------------------
(***************************************************************************)
(* What the operators of Vga compute, for every size of the screen: where  *)
(* the cursor ends up, that no function reads behind the modelled memory   *)
(* or writes far behind the screen, and what fb_scroll and fb_shift_down   *)
(* make of the rows.                                                       *)
(*                                                                         *)
(* Loops are recursive functions.  A recursive function is the one that    *)
(* CHOOSE finds, so that a proof about one shows that there is a function  *)
(* with these equations, by induction on the number of rounds, and then,   *)
(* by induction again, what each value is.  Both inductions are lemmas     *)
(* about sets and functions (Recursion, Induction), so that they can be    *)
(* used without a higher-order step.                                       *)
(***************************************************************************)
EXTENDS Vga, SequenceTheorems, WellFoundedInduction, TLAPS

-----------------------------------------------------------------------------
(* Induction and recursion.                                                *)

LEMMA Least ==
  ASSUME NEW T, T \subseteq Nat, T # {}
  PROVE  \E x \in T : \A y \in T : x <= y
<1> DEFINE R == OpToRel(<, Nat)
<1>1. IsWellFoundedOn(R, Nat)
  BY NatLessThanWellFounded
<1>2. \A x, y \in Nat : <<y, x>> \in R <=> y < x
  BY DEF OpToRel
<1> HIDE DEF R
<1>3. PICK x \in T : \A y \in T : ~(<<y, x>> \in R)
  BY <1>1, WFMin
<1>4. ASSUME NEW y \in T PROVE x <= y
  <2>1. x \in Nat /\ y \in Nat
    BY <1>3
  <2>2. ~(y < x)
    BY <1>2, <1>3, <2>1
  <2> QED BY <2>1, <2>2
<1> QED BY <1>4

LEMMA SetInduction ==
  ASSUME NEW S, 0 \in S, \A n \in Nat : n \in S => n + 1 \in S
  PROVE  Nat \subseteq S
<1> DEFINE T == Nat \ S
<1> SUFFICES ASSUME T # {} PROVE FALSE
  OBVIOUS
<1>1. PICK x \in T : \A y \in T : x <= y
  <2> T \subseteq Nat OBVIOUS
  <2> HIDE DEF T
  <2> QED BY Least
<1>2. x # 0 /\ x - 1 \in Nat
  BY <1>1
<1>3. x - 1 \in S
  BY <1>1, <1>2
<1> QED BY <1>2, <1>3

(* The rounds of a loop: I[k] is what holds after k rounds. *)
LEMMA Induction ==
  ASSUME NEW n \in Nat, NEW f, NEW I, f[0] \in I[0],
         \A k \in 1..n : f[k - 1] \in I[k - 1] => f[k] \in I[k]
  PROVE  \A k \in 0..n : f[k] \in I[k]
<1> DEFINE S == {m \in Nat : m <= n => f[m] \in I[m]}
<1>1. 0 \in S
  OBVIOUS
<1>2. ASSUME NEW m \in Nat, m \in S PROVE m + 1 \in S
  <2>1. CASE m + 1 <= n
    <3>1. m + 1 \in 1..n /\ (m + 1) - 1 = m /\ m <= n
      BY <2>1
    <3>2. f[m] \in I[m]
      BY <1>2, <3>1
    <3>3. f[m + 1] \in I[m + 1]
      BY <3>1, <3>2
    <3> QED BY <3>3
  <2>2. CASE ~(m + 1 <= n)
    BY <2>2
  <2> QED BY <2>1, <2>2
<1> HIDE DEF S
<1>3. Nat \subseteq S
  BY <1>1, <1>2, SetInduction
<1>4. ASSUME NEW k \in 0..n PROVE f[k] \in I[k]
  <2>1. k \in S /\ k <= n
    BY <1>3
  <2> QED BY <2>1 DEF S
<1> QED BY <1>4

(* There is a function with the equations of a loop of n rounds on the set *)
(* A, if every round stays in A.                                           *)
Loop(step, A, n) == \A k \in 1..n : \A x \in A : step[k][x] \in A

Run(g, a, step, A, n) ==
  g \in [0..n -> A] /\ g[0] = a /\ \A k \in 1..n : g[k] = step[k][g[k - 1]]

LEMMA Recursion ==
  ASSUME NEW n \in Nat, NEW A, NEW step, Loop(step, A, n), NEW a \in A
  PROVE  \E g : Run(g, a, step, A, n)
<1>0. \A k \in 1..n : \A x \in A : step[k][x] \in A
  BY Zenon DEF Loop
<1> DEFINE P(m) == \E g \in [0..m -> A] :
                     g[0] = a /\ \A k \in 1..m : g[k] = step[k][g[k - 1]]
           S == {m \in Nat : m <= n => P(m)}
<1>1. 0 \in S
  <2> DEFINE g == [k \in 0..0 |-> a]
  <2>1. g \in [0..0 -> A] /\ g[0] = a /\ 1..0 = {}
    OBVIOUS
  <2> HIDE DEF g
  <2>2. P(0)
    BY <2>1
  <2> QED BY <2>2
<1>2. ASSUME NEW m \in Nat, m \in S PROVE m + 1 \in S
  <2> SUFFICES ASSUME m + 1 <= n PROVE P(m + 1)
    OBVIOUS
  <2>1. PICK g \in [0..m -> A] : g[0] = a /\ \A k \in 1..m : g[k] = step[k][g[k - 1]]
    BY <1>2
  <2> DEFINE h == [k \in 0..(m + 1) |-> IF k <= m THEN g[k] ELSE step[k][g[m]]]
  <2>2. step[m + 1][g[m]] \in A
    <3>1. m + 1 \in 1..n /\ m \in 0..m
      OBVIOUS
    <3>2. g[m] \in A
      BY <2>1, <3>1
    <3> QED BY <1>0, <3>1, <3>2
  <2>3. ASSUME NEW k \in 0..(m + 1)
        PROVE  (IF k <= m THEN g[k] ELSE step[k][g[m]]) \in A
    <3>1. CASE k <= m
      <4>1. k \in 0..m
        BY <3>1
      <4> QED BY <2>1, <3>1, <4>1
    <3>2. CASE ~(k <= m)
      <4>1. k = m + 1
        BY <3>2
      <4> QED BY <2>2, <3>2, <4>1
    <3> QED BY <3>1, <3>2
  <2>4. h \in [0..(m + 1) -> A]
    BY <2>3
  <2>5. h[0] = a
    BY <2>1
  <2>6. ASSUME NEW k \in 1..(m + 1) PROVE h[k] = step[k][h[k - 1]]
    <3>1. k - 1 \in 0..(m + 1) /\ k - 1 <= m /\ k \in 0..(m + 1)
      OBVIOUS
    <3>2. h[k - 1] = g[k - 1]
      BY <3>1
    <3>3. CASE k <= m
      <4>1. k \in 1..m /\ h[k] = g[k]
        BY <3>1, <3>3
      <4> QED BY <2>1, <3>2, <4>1
    <3>4. CASE ~(k <= m)
      <4>1. k = m + 1 /\ k - 1 = m
        BY <3>4
      <4>2. h[k] = step[k][g[m]]
        BY <3>1, <3>4
      <4> QED BY <3>2, <4>1, <4>2
    <3> QED BY <3>3, <3>4
  <2> HIDE DEF h
  <2> QED BY <2>4, <2>5, <2>6
<1> HIDE DEF S
<1>3. Nat \subseteq S
  BY <1>1, <1>2, SetInduction
<1>4. n \in S /\ n <= n
  BY <1>3
<1>5. P(n)
  BY <1>4 DEF S
<1> QED BY <1>5, Zenon DEF Run

-----------------------------------------------------------------------------
(* The cursor's arithmetic.                                                *)

(* FB_NUM_COLUMNS * FB_NUM_ROWS, the bound of fb_offset_cursor's first     *)
(* loop, is at least one row.                                              *)
LEMMA SizeBound == ScreenSize \in Nat /\ ScreenSize >= FB_NUM_COLUMNS
  BY VgaAssumption DEF ScreenSize

(* A loop of fb_offset_cursor ends: some number of rows brings x back to   *)
(* at most 0 and one row less does not.                                    *)
LEMMA LoopEnds ==
  ASSUME NEW x \in Int, x > 0
  PROVE  \E k \in 0..x : k * FB_NUM_COLUMNS >= x /\ (k - 1) * FB_NUM_COLUMNS < x
<1> DEFINE k == (x + FB_NUM_COLUMNS - 1) \div FB_NUM_COLUMNS
<1>1. /\ k \in Nat
      /\ k * FB_NUM_COLUMNS <= x + FB_NUM_COLUMNS - 1
      /\ x + FB_NUM_COLUMNS - 1 < (k + 1) * FB_NUM_COLUMNS
  BY VgaAssumption
<1> HIDE DEF k
<1>2. k <= x
  BY <1>1, VgaAssumption
<1>3. k * FB_NUM_COLUMNS >= x /\ (k - 1) * FB_NUM_COLUMNS < x
  BY <1>1, VgaAssumption
<1> QED BY <1>1, <1>2, <1>3

(* The count of a loop of fb_offset_cursor: none if the loop's condition   *)
(* is false at once, else the least that ends it.                          *)
LEMMA LoopCountIs ==
  ASSUME NEW x \in Int
  PROVE  /\ LoopCount(x) \in Nat
         /\ x <= 0 => LoopCount(x) = 0
         /\ x > 0 => /\ LoopCount(x) * FB_NUM_COLUMNS >= x
                     /\ (LoopCount(x) - 1) * FB_NUM_COLUMNS < x
<1> DEFINE P(k) == /\ k * FB_NUM_COLUMNS >= x
                   /\ k = 0 \/ (k - 1) * FB_NUM_COLUMNS < x
<1>1. CASE x <= 0
  <2>1. \E k \in 0..0 : P(k)
    BY <1>1, VgaAssumption
  <2>2. LoopCount(x) = CHOOSE k \in 0..0 : P(k)
    BY <1>1 DEF LoopCount
  <2>3. LoopCount(x) \in 0..0
    BY <2>1, <2>2
  <2> QED BY <1>1, <2>3
<1>2. CASE x > 0
  <2>1. \E k \in 0..x : P(k)
    BY <1>2, LoopEnds
  <2>2. LoopCount(x) = CHOOSE k \in 0..x : P(k)
    BY <1>2 DEF LoopCount
  <2>3. LoopCount(x) \in 0..x /\ P(LoopCount(x))
    BY <2>1, <2>2
  <2>4. LoopCount(x) # 0
    BY <1>2, <2>3, VgaAssumption
  <2> QED BY <1>2, <2>3, <2>4
<1> QED BY <1>1, <1>2

(* A screen whose cursor is on one of its cells or on the one behind them. *)
OnScreen(s) ==
  /\ s = [cursor |-> s.cursor, crtc |-> s.crtc, fb |-> s.fb]
  /\ s.cursor \in 0..ScreenSize

(* A screen that the controller shows with its cursor. *)
Shown(s) == OnScreen(s) /\ s.crtc = s.cursor

(* Whatever the offset, fb_offset_cursor leaves the cursor on the screen   *)
(* or on the cell behind it.                                               *)
LEMMA OffsetOnScreen ==
  ASSUME NEW s, s.cursor \in Int, NEW n \in Int
  PROVE  Shown(fb_offset_cursor(s, n))
<1> DEFINE p == s.cursor + n
           up == LoopCount(p - ScreenSize)
           dn == LoopCount(-p)
           c == p - up * FB_NUM_COLUMNS + dn * FB_NUM_COLUMNS
           fb == fb_offset_cursor(s, n).fb
<1>1. fb_offset_cursor(s, n) = [cursor |-> c, crtc |-> c, fb |-> fb]
  BY DEF fb_offset_cursor
<1>2. /\ p \in Int /\ up \in Nat /\ dn \in Nat
      /\ p <= ScreenSize => up = 0
      /\ p > ScreenSize => /\ up * FB_NUM_COLUMNS >= p - ScreenSize
                           /\ (up - 1) * FB_NUM_COLUMNS < p - ScreenSize
      /\ p >= 0 => dn = 0
      /\ p < 0 => /\ dn * FB_NUM_COLUMNS >= -p
                  /\ (dn - 1) * FB_NUM_COLUMNS < -p
  <2>1. p \in Int /\ p - ScreenSize \in Int /\ -p \in Int
    BY SizeBound
  <2> HIDE DEF p
  <2>2. /\ up \in Nat
        /\ p - ScreenSize <= 0 => up = 0
        /\ p - ScreenSize > 0 => /\ up * FB_NUM_COLUMNS >= p - ScreenSize
                                 /\ (up - 1) * FB_NUM_COLUMNS < p - ScreenSize
    BY <2>1, LoopCountIs
  <2>3. /\ dn \in Nat
        /\ -p <= 0 => dn = 0
        /\ -p > 0 => /\ dn * FB_NUM_COLUMNS >= -p
                     /\ (dn - 1) * FB_NUM_COLUMNS < -p
    BY <2>1, LoopCountIs
  <2> HIDE DEF up, dn
  <2> QED BY <2>1, <2>2, <2>3, SizeBound
<1>3. c \in 0..ScreenSize
  <2> HIDE DEF p, up, dn
  <2> QED BY <1>2, SizeBound, VgaAssumption
<1> HIDE DEF c, fb
<1> QED BY <1>1, <1>3 DEF OnScreen, Shown

(* fb_print_lstr and fb_print_cell keep the cursor on the screen. *)
LEMMA PrintOnScreen ==
  ASSUME NEW s, s = [cursor |-> s.cursor, crtc |-> s.crtc, fb |-> s.fb], s.cursor \in Int,
         NEW c, NEW str, Len(str) \in Int, NEW fg, NEW bg
  PROVE  /\ Shown(fb_print_cell(s, c, fg, bg))
         /\ Shown(fb_print_lstr(s, str, fg, bg))
<1>1. ASSUME NEW fb PROVE [s EXCEPT !.fb = fb].cursor \in Int
  OBVIOUS
<1>2. ASSUME NEW fb, NEW n \in Int
      PROVE  Shown(fb_offset_cursor([s EXCEPT !.fb = fb], n))
  BY <1>1, OffsetOnScreen
<1>3. Shown(fb_print_cell(s, c, fg, bg))
  BY <1>2 DEF fb_print_cell
<1>4. Shown(fb_print_lstr(s, str, fg, bg))
  BY <1>2 DEF fb_print_lstr
<1> QED BY <1>3, <1>4

(* fb_move_cursor_to_start_of_row keeps the cursor on the screen: the row  *)
(* of a position starts at or before it.                                   *)
LEMMA StartOfRowOnScreen ==
  ASSUME NEW s, OnScreen(s)
  PROVE  Shown(fb_move_cursor_to_start_of_row(s))
<1> DEFINE c == (s.cursor \div FB_NUM_COLUMNS) * FB_NUM_COLUMNS
<1>1. c \in 0..s.cursor
  BY VgaAssumption, SizeBound DEF OnScreen
<1>2. c \in 0..ScreenSize /\ c + 0 = c
  BY <1>1, SizeBound DEF OnScreen
<1>3. fb_move_cursor_to_start_of_row(s) = [cursor |-> c, crtc |-> c, fb |-> s.fb]
  BY <1>2 DEF fb_move_cursor_to_start_of_row, fb_move_cursor_col_row, fb_move_cursor,
              fb_row_column_to_index, fb_get_current_row, fb_get_row
<1> HIDE DEF c
<1> QED BY <1>2, <1>3 DEF OnScreen, Shown

(* A change of the frame buffer alone leaves the cursor where it is. *)
LEMMA WriteOnScreen ==
  ASSUME NEW s, OnScreen(s), NEW fb
  PROVE  OnScreen([s EXCEPT !.fb = fb])
  BY DEF OnScreen

-----------------------------------------------------------------------------
(* The frame buffer.                                                       *)

Nibbles == (0..15) \X (0..15)

FbType == [chars : [Cells -> Int], attrs : [Cells -> Nibbles]]

(* More than a row and two cells behind the screen. *)
Far(k) == k > ScreenSize + FB_NUM_COLUMNS + 1

(* The frame buffers that agree with old there. *)
Near(old) ==
  {fb \in FbType : \A k \in Cells :
     Far(k) => fb.chars[k] = old.chars[k] /\ fb.attrs[k] = old.attrs[k]}

(* Memory made cell by cell is a frame buffer; it agrees with old if its   *)
(* far cells do.                                                           *)
LEMMA NearIs ==
  ASSUME NEW old, NEW c \in [Cells -> Int], NEW a \in [Cells -> Nibbles],
         \A k \in Cells : Far(k) => c[k] = old.chars[k] /\ a[k] = old.attrs[k]
  PROVE  [chars |-> c, attrs |-> a] \in Near(old)
<1> DEFINE fb == [chars |-> c, attrs |-> a]
<1>1. fb \in FbType /\ fb.chars = c /\ fb.attrs = a
  BY DEF FbType
<1> HIDE DEF fb
<1>2. fb \in Near(old)
  BY <1>1 DEF Near
<1> QED BY <1>2 DEF fb

LEMMA NearFields ==
  ASSUME NEW old, NEW fb \in Near(old)
  PROVE  /\ fb.chars \in [Cells -> Int] /\ fb.attrs \in [Cells -> Nibbles]
         /\ fb = [chars |-> fb.chars, attrs |-> fb.attrs]
         /\ \A k \in Cells : Far(k) => fb.chars[k] = old.chars[k] /\ fb.attrs[k] = old.attrs[k]
<1>1. fb \in FbType
  BY DEF Near
<1> QED BY <1>1 DEF Near, FbType

LEMMA AttributeIs ==
  ASSUME NEW fg \in Int, NEW bg \in Int
  PROVE  Attribute(fg, bg) \in Nibbles
BY DEF Attribute, Nibbles

(* A row starts on the screen, or just behind it. *)
LEMMA RowStart ==
  ASSUME NEW r \in 0..FB_NUM_ROWS
  PROVE  r * FB_NUM_COLUMNS \in 0..ScreenSize /\ fb_row_column_to_index(0, r) = r * FB_NUM_COLUMNS
<1>1. r * FB_NUM_COLUMNS \in Nat
  BY VgaAssumption
<1>2. r * FB_NUM_COLUMNS <= FB_NUM_ROWS * FB_NUM_COLUMNS
  BY VgaAssumption
<1>3. FB_NUM_ROWS * FB_NUM_COLUMNS = ScreenSize
  BY VgaAssumption DEF ScreenSize
<1>4. r * FB_NUM_COLUMNS + 0 = r * FB_NUM_COLUMNS
  BY <1>1
<1> QED BY <1>1, <1>2, <1>3, <1>4, SizeBound DEF fb_row_column_to_index

(* Cells that are filled. *)
LEMMA FillNear ==
  ASSUME NEW old, NEW fb \in Near(old), NEW cells, \A k \in cells : ~Far(k),
         NEW c \in Int, NEW a \in Nibbles
  PROVE  Fill(fb, cells, c, a) \in Near(old)
<1> DEFINE F == [k \in Cells |-> IF k \in cells THEN c ELSE fb.chars[k]]
           G == [k \in Cells |-> IF k \in cells THEN a ELSE fb.attrs[k]]
<1>1. F \in [Cells -> Int] /\ G \in [Cells -> Nibbles]
  BY NearFields
<1>2. \A k \in Cells : Far(k) => F[k] = old.chars[k] /\ G[k] = old.attrs[k]
  BY NearFields
<1> HIDE DEF F, G
<1>3. [chars |-> F, attrs |-> G] \in Near(old)
  BY <1>1, <1>2, NearIs
<1> QED BY <1>3 DEF Fill, F, G

LEMMA WriteCellNear ==
  ASSUME NEW old, NEW fb \in Near(old), NEW k \in 0..ScreenSize, NEW c \in Int,
         NEW fg \in Int, NEW bg \in Int
  PROVE  fb_write_cell(fb, k, c, fg, bg) \in Near(old)
<1>1. \A m \in {k} : ~Far(m)
  BY SizeBound, VgaAssumption DEF Far
<1> QED BY <1>1, AttributeIs, FillNear DEF fb_write_cell

(* A string that is written from a cell on. *)
LEMMA WriteStrNear ==
  ASSUME NEW old, NEW fb \in Near(old), NEW from \in Int, NEW str \in Seq(Int),
         from <= ScreenSize, Len(str) <= FB_NUM_COLUMNS + 1, NEW fg \in Int, NEW bg \in Int
  PROVE  fb_write_lstr(fb, from, str, fg, bg) \in Near(old)
<1> DEFINE In(k) == k - from \in 0..(Len(str) - 1)
           F == [k \in Cells |-> IF In(k) THEN str[k - from + 1] ELSE fb.chars[k]]
           G == [k \in Cells |-> IF In(k) THEN Attribute(fg, bg) ELSE fb.attrs[k]]
<1>0. Len(str) \in Nat /\ \A k \in Cells : k \in Int
  BY SizeBound, VgaAssumption DEF Cells
<1>1. \A k \in Cells : In(k) => k - from + 1 \in 1..Len(str)
  BY <1>0
<1>2. \A k \in Cells : In(k) => str[k - from + 1] \in Int
  BY <1>1, ElementOfSeq
<1>3. \A k \in Cells : In(k) => ~Far(k)
  BY <1>0, SizeBound, VgaAssumption DEF Far
<1> HIDE DEF In
<1>4. F \in [Cells -> Int] /\ G \in [Cells -> Nibbles]
  BY <1>2, NearFields, AttributeIs
<1>5. \A k \in Cells : Far(k) => F[k] = old.chars[k] /\ G[k] = old.attrs[k]
  BY <1>3, NearFields
<1>6. fb_write_lstr(fb, from, str, fg, bg) = [chars |-> F, attrs |-> G]
  BY DEF fb_write_lstr, In
<1> HIDE DEF F, G
<1> QED BY <1>4, <1>5, <1>6, NearIs

(* What fb_copy_row reads and writes: for a copy up by one row, *)
LEMMA CopyUp ==
  ASSUME NEW old, NEW fb \in Near(old), NEW r \in 1..(FB_NUM_ROWS - 1)
  PROVE  LET new == fb_copy_row(fb, r, r - 1)
             out == (r - 1) * FB_NUM_COLUMNS
         IN  /\ new \in Near(old)
             /\ \A k \in Cells :
                  /\ k - out \in 0..FB_NUM_COLUMNS
                       => k + FB_NUM_COLUMNS \in Cells
                          /\ new.chars[k] = fb.chars[k + FB_NUM_COLUMNS]
                  /\ k - out \notin 0..FB_NUM_COLUMNS => new.chars[k] = fb.chars[k]
                  /\ k - out - 1 \in 0..FB_NUM_COLUMNS
                       => k + FB_NUM_COLUMNS \in Cells
                          /\ new.attrs[k] = fb.attrs[k + FB_NUM_COLUMNS]
                  /\ k - out - 1 \notin 0..FB_NUM_COLUMNS => new.attrs[k] = fb.attrs[k]
<1> DEFINE C == FB_NUM_COLUMNS
           in == r * C
           out == (r - 1) * C
           new == fb_copy_row(fb, r, r - 1)
           F == [k \in Cells |-> IF k - out \in 0..C THEN fb.chars[in + (k - out)] ELSE fb.chars[k]]
           G == [k \in Cells |-> IF k - out - 1 \in 0..C THEN fb.attrs[in + (k - out - 1) + 1]
                                                         ELSE fb.attrs[k]]
<1>1. /\ C \in Nat /\ C >= 3 /\ FB_NUM_ROWS \in Nat
      /\ r \in 0..FB_NUM_ROWS /\ r - 1 \in 0..FB_NUM_ROWS /\ r \in Int
      /\ ScreenSize \in Nat
  BY VgaAssumption, SizeBound
<1>2. in \in 0..ScreenSize /\ out \in 0..ScreenSize /\ in = out + C
  <2>1. r * C = (r - 1) * C + C
    BY <1>1
  <2> QED BY <1>1, <2>1, RowStart
<1>3. /\ fb_row_column_to_index(0, r) = in /\ fb_row_column_to_index(0, r - 1) = out
      /\ ~(r < 0 \/ r > FB_NUM_ROWS \/ r - 1 < 0 \/ r - 1 > FB_NUM_ROWS)
      /\ r - 1 # r + 1
  BY <1>1, RowStart
<1>4. new = [chars |-> F, attrs |-> G]
  BY <1>3 DEF fb_copy_row
<1> HIDE DEF in, out, new, C
<1>5. ASSUME NEW k \in Cells
      PROVE  /\ k \in Int
             /\ k - out \in 0..C => in + (k - out) = k + C /\ k + C \in Cells /\ ~Far(k)
             /\ k - out - 1 \in 0..C =>
                  in + (k - out - 1) + 1 = k + C /\ k + C \in Cells /\ ~Far(k)
  <2>1. k \in Int /\ k >= 0 /\ k <= ScreenSize + 2 * C + 3
    BY <1>1 DEF Cells, C
  <2>2. ASSUME k - out \in 0..(C + 1) PROVE k + C \in 0..(ScreenSize + 2 * C + 3)
    BY <1>1, <1>2, <2>1, <2>2
  <2>3. ASSUME k - out \in 0..(C + 1) PROVE ~Far(k)
    BY <1>1, <1>2, <2>1, <2>3 DEF Far, C
  <2>4. k - out \in 0..C => in + (k - out) = k + C
    BY <1>1, <1>2, <2>1
  <2>5. k - out - 1 \in 0..C => in + (k - out - 1) + 1 = k + C /\ k - out \in 0..(C + 1)
    BY <1>1, <1>2, <2>1
  <2>6. k - out \in 0..C => k - out \in 0..(C + 1)
    BY <1>1, <1>2, <2>1
  <2>7. Cells = 0..(ScreenSize + 2 * C + 3)
    BY DEF Cells, C
  <2> QED BY <2>1, <2>2, <2>3, <2>4, <2>5, <2>6, <2>7, Zenon
<1>6. F \in [Cells -> Int] /\ G \in [Cells -> Nibbles]
  <2>1. \A k \in Cells : fb.chars[k] \in Int /\ fb.attrs[k] \in Nibbles
    BY NearFields
  <2>2. ASSUME NEW k \in Cells
        PROVE  (IF k - out \in 0..C THEN fb.chars[in + (k - out)] ELSE fb.chars[k]) \in Int
    BY <1>5, <2>1, Zenon
  <2>3. ASSUME NEW k \in Cells
        PROVE  (IF k - out - 1 \in 0..C THEN fb.attrs[in + (k - out - 1) + 1]
                                        ELSE fb.attrs[k]) \in Nibbles
    BY <1>5, <2>1, Zenon
  <2> QED BY <2>2, <2>3, Zenon
<1>7. \A k \in Cells :
        /\ k - out \in 0..C => k + C \in Cells /\ F[k] = fb.chars[k + C]
        /\ k - out \notin 0..C => F[k] = fb.chars[k]
        /\ k - out - 1 \in 0..C => k + C \in Cells /\ G[k] = fb.attrs[k + C]
        /\ k - out - 1 \notin 0..C => G[k] = fb.attrs[k]
  BY <1>5, Zenon
<1>8. \A k \in Cells : Far(k) => F[k] = old.chars[k] /\ G[k] = old.attrs[k]
  <2>1. \A k \in Cells : Far(k) => fb.chars[k] = old.chars[k] /\ fb.attrs[k] = old.attrs[k]
    BY NearFields
  <2>2. ASSUME NEW k \in Cells, Far(k)
        PROVE  F[k] = old.chars[k] /\ G[k] = old.attrs[k]
    <3>1. k - out \notin 0..C /\ k - out - 1 \notin 0..C
      BY <1>5, <2>2, Zenon
    <3>2. F[k] = fb.chars[k] /\ G[k] = fb.attrs[k]
      BY <1>7, <3>1, Zenon
    <3> QED BY <2>1, <2>2, <3>2, Zenon
  <2> QED BY <2>2, Zenon
<1> HIDE DEF F, G
<1>9. new \in Near(old)
  BY <1>4, <1>6, <1>8, NearIs, Zenon
<1>10. new.chars = F /\ new.attrs = G
  BY <1>4
<1> QED BY <1>7, <1>9, <1>10, Zenon DEF new, out, C

(* and for a copy down by one row, which reads the first cell that it has  *)
(* written when it comes to the last one.                                  *)
LEMMA CopyDown ==
  ASSUME NEW old, NEW fb \in Near(old), NEW r \in 0..(FB_NUM_ROWS - 1)
  PROVE  LET new == fb_copy_row(fb, r, r + 1)
             out == (r + 1) * FB_NUM_COLUMNS
         IN  /\ new \in Near(old)
             /\ \A k \in Cells :
                  /\ k - out \in 0..(FB_NUM_COLUMNS - 1)
                       => new.chars[k] = fb.chars[k - FB_NUM_COLUMNS]
                  /\ k - out \notin 0..FB_NUM_COLUMNS => new.chars[k] = fb.chars[k]
<1> DEFINE C == FB_NUM_COLUMNS
           in == r * C
           out == (r + 1) * C
           new == fb_copy_row(fb, r, r + 1)
           Source(j) == IF j = C THEN in ELSE in + j
           F == [k \in Cells |-> IF k - out \in 0..C THEN fb.chars[Source(k - out)] ELSE fb.chars[k]]
           G == [k \in Cells |-> IF k - out - 1 \in 0..C THEN fb.attrs[Source(k - out - 1) + 1]
                                                         ELSE fb.attrs[k]]
<1>1. /\ C \in Nat /\ C >= 3 /\ FB_NUM_ROWS \in Nat
      /\ r \in 0..FB_NUM_ROWS /\ r + 1 \in 0..FB_NUM_ROWS /\ r \in Int
      /\ ScreenSize \in Nat
  BY VgaAssumption, SizeBound
<1>2. in \in 0..ScreenSize /\ out \in 0..ScreenSize /\ out = in + C
  <2>1. (r + 1) * C = r * C + C
    BY <1>1
  <2> QED BY <1>1, <2>1, RowStart
<1>3. /\ fb_row_column_to_index(0, r) = in /\ fb_row_column_to_index(0, r + 1) = out
      /\ ~(r < 0 \/ r > FB_NUM_ROWS \/ r + 1 < 0 \/ r + 1 > FB_NUM_ROWS)
  BY <1>1, RowStart
<1>4. new = [chars |-> F, attrs |-> G]
  BY <1>3 DEF fb_copy_row
<1>5. \A j \in 0..C : Source(j) \in in..(in + C) /\ (j # C => Source(j) = in + j)
  BY <1>1, <1>2
<1> HIDE DEF in, out, new, C, Source
<1>6. ASSUME NEW k \in Cells
      PROVE  /\ k \in Int
             /\ k - out \in 0..C => Source(k - out) \in Cells /\ ~Far(k)
             /\ k - out - 1 \in 0..C => Source(k - out - 1) + 1 \in Cells /\ ~Far(k)
  <2>1. k \in Int /\ k >= 0 /\ k <= ScreenSize + 2 * C + 3
    BY <1>1 DEF Cells, C
  <2>2. \A x \in in..(in + C) : x \in Cells /\ x + 1 \in Cells
    BY <1>1, <1>2 DEF Cells, C
  <2>3. ASSUME k - out \in 0..(C + 1) PROVE ~Far(k)
    BY <1>1, <1>2, <2>1, <2>3 DEF Far, C
  <2>4. /\ k - out \in 0..C => k - out \in 0..(C + 1)
        /\ k - out - 1 \in 0..C => k - out \in 0..(C + 1)
    BY <1>1, <1>2, <2>1
  <2> QED BY <1>5, <2>1, <2>2, <2>3, <2>4, Zenon
<1>7. F \in [Cells -> Int] /\ G \in [Cells -> Nibbles]
  <2>1. \A k \in Cells : fb.chars[k] \in Int /\ fb.attrs[k] \in Nibbles
    BY NearFields
  <2>2. ASSUME NEW k \in Cells
        PROVE  (IF k - out \in 0..C THEN fb.chars[Source(k - out)] ELSE fb.chars[k]) \in Int
    BY <1>6, <2>1, Zenon
  <2>3. ASSUME NEW k \in Cells
        PROVE  (IF k - out - 1 \in 0..C THEN fb.attrs[Source(k - out - 1) + 1]
                                        ELSE fb.attrs[k]) \in Nibbles
    BY <1>6, <2>1, Zenon
  <2> QED BY <2>2, <2>3, Zenon
<1>8. \A k \in Cells :
        /\ k - out \in 0..C => F[k] = fb.chars[Source(k - out)]
        /\ k - out \notin 0..C => F[k] = fb.chars[k]
        /\ k - out - 1 \notin 0..C => G[k] = fb.attrs[k]
  BY Zenon
<1>9. \A k \in Cells : Far(k) => F[k] = old.chars[k] /\ G[k] = old.attrs[k]
  <2>1. \A k \in Cells : Far(k) => fb.chars[k] = old.chars[k] /\ fb.attrs[k] = old.attrs[k]
    BY NearFields
  <2>2. ASSUME NEW k \in Cells, Far(k)
        PROVE  F[k] = old.chars[k] /\ G[k] = old.attrs[k]
    <3>1. k - out \notin 0..C /\ k - out - 1 \notin 0..C
      BY <1>6, <2>2, Zenon
    <3>2. F[k] = fb.chars[k] /\ G[k] = fb.attrs[k]
      BY <1>8, <3>1, Zenon
    <3> QED BY <2>1, <2>2, <3>2, Zenon
  <2> QED BY <2>2, Zenon
<1> HIDE DEF F, G
<1>10. new \in Near(old)
  BY <1>4, <1>7, <1>9, NearIs, Zenon
<1>11. new.chars = F
  BY <1>4
<1>12. ASSUME NEW k \in Cells, k - out \in 0..(C - 1)
       PROVE  F[k] = fb.chars[k - C]
  <2>1. k - out \in 0..C /\ k - out # C /\ in + (k - out) = k - C
    BY <1>1, <1>2, <1>6, <1>12
  <2>2. Source(k - out) = k - C
    BY <1>5, <2>1, Zenon
  <2> QED BY <1>8, <2>1, <2>2, Zenon
<1> QED BY <1>8, <1>10, <1>11, <1>12, Zenon DEF new, out, C

(* The copies of fb_scroll: n of them have moved up the cells of the rows  *)
(* above row n, the first cell of row n too, and the attributes one cell   *)
(* further on.                                                             *)
MovedUp(fb, m, n) ==
  \A k \in Cells :
    /\ n > 0 /\ k <= n * FB_NUM_COLUMNS => m.chars[k] = fb.chars[k + FB_NUM_COLUMNS]
    /\ n = 0 \/ k > n * FB_NUM_COLUMNS => m.chars[k] = fb.chars[k]
    /\ n > 0 /\ 1 <= k /\ k <= n * FB_NUM_COLUMNS + 1
         => m.attrs[k] = fb.attrs[k + FB_NUM_COLUMNS]
    /\ n = 0 \/ k < 1 \/ k > n * FB_NUM_COLUMNS + 1 => m.attrs[k] = fb.attrs[k]

LEMMA MovedUpStep ==
  ASSUME NEW old, NEW fb, NEW m \in Near(old), NEW n \in 1..(FB_NUM_ROWS - 1),
         MovedUp(fb, m, n - 1)
  PROVE  /\ fb_copy_row(m, n, n - 1) \in Near(old)
         /\ MovedUp(fb, fb_copy_row(m, n, n - 1), n)
<1> DEFINE C == FB_NUM_COLUMNS
           out == (n - 1) * C
           new == fb_copy_row(m, n, n - 1)
<1>1. new \in Near(old)
  BY CopyUp
<1>2. \A k \in Cells :
        /\ k - out \in 0..C => k + C \in Cells /\ new.chars[k] = m.chars[k + C]
        /\ k - out \notin 0..C => new.chars[k] = m.chars[k]
        /\ k - out - 1 \in 0..C => k + C \in Cells /\ new.attrs[k] = m.attrs[k + C]
        /\ k - out - 1 \notin 0..C => new.attrs[k] = m.attrs[k]
  BY CopyUp, Zenon
<1>3. /\ C \in Nat /\ C >= 3 /\ n \in Nat /\ n > 0 /\ FB_NUM_ROWS \in Nat /\ ScreenSize \in Nat
      /\ \A k \in Cells : k \in Int /\ k >= 0
  BY VgaAssumption, SizeBound DEF Cells
<1>4. out \in Nat /\ n * C = out + C /\ (n - 1 = 0 => out = 0)
  <2>1. n * C = (n - 1) * C + C /\ (n - 1) * C \in Nat /\ 0 * C = 0
    BY <1>3
  <2> QED BY <2>1, Zenon
<1>5. \A k \in Cells :
        /\ n - 1 > 0 /\ k <= out => m.chars[k] = fb.chars[k + C]
        /\ n - 1 = 0 \/ k > out => m.chars[k] = fb.chars[k]
        /\ n - 1 > 0 /\ 1 <= k /\ k <= out + 1 => m.attrs[k] = fb.attrs[k + C]
        /\ n - 1 = 0 \/ k < 1 \/ k > out + 1 => m.attrs[k] = fb.attrs[k]
  BY Zenon DEF MovedUp
<1> HIDE DEF C, out, new
<1>6. ASSUME NEW k \in Cells
      PROVE  /\ k <= out + C => new.chars[k] = fb.chars[k + C]
             /\ k > out + C => new.chars[k] = fb.chars[k]
             /\ 1 <= k /\ k <= out + C + 1 => new.attrs[k] = fb.attrs[k + C]
             /\ k < 1 \/ k > out + C + 1 => new.attrs[k] = fb.attrs[k]
  <2>1. CASE k < out
    <3>1. /\ k - out \notin 0..C /\ k - out - 1 \notin 0..C /\ n - 1 > 0 /\ k <= out
          /\ k <= out + 1 /\ k <= out + C
      BY <1>3, <1>4, <2>1
    <3>2. ~(k > out + C) /\ ~(k > out + C + 1)
      BY <1>3, <1>4, <2>1
    <3> QED BY <1>2, <1>5, <3>1, <3>2, Zenon
  <2>2. CASE k >= out /\ k <= out + C
    <3>1. /\ k - out \in 0..C /\ k + C > out /\ ~(k > out + C) /\ ~(k > out + C + 1)
      BY <1>3, <1>4, <2>2
    <3>2. new.chars[k] = fb.chars[k + C]
      BY <1>2, <1>5, <3>1, Zenon
    <3>3. CASE k = out
      <4>1. k - out - 1 \notin 0..C /\ k <= out + 1 /\ ~(n - 1 > 0 /\ k < 1)
            /\ (k >= 1 => n - 1 > 0)
        BY <1>3, <1>4, <3>3
      <4>2. 1 <= k => new.attrs[k] = fb.attrs[k + C]
        BY <1>2, <1>3, <1>5, <4>1
      <4>3. k < 1 => new.attrs[k] = fb.attrs[k]
        BY <1>2, <1>5, <4>1, Zenon
      <4> QED BY <3>1, <3>2, <4>2, <4>3, Zenon
    <3>4. CASE k # out
      <4>1. k - out - 1 \in 0..C /\ k + C > out + 1 /\ ~(k < 1)
        BY <1>3, <1>4, <2>2, <3>4
      <4>2. new.attrs[k] = fb.attrs[k + C]
        BY <1>2, <1>5, <4>1, Zenon
      <4> QED BY <3>1, <3>2, <4>1, <4>2, Zenon
    <3> QED BY <3>3, <3>4
  <2>3. CASE k > out + C
    <3>1. k - out \notin 0..C /\ k > out /\ ~(k <= out + C) /\ ~(k < 1)
      BY <1>3, <1>4, <2>3
    <3>2. new.chars[k] = fb.chars[k]
      BY <1>2, <1>5, <3>1, Zenon
    <3>3. CASE k = out + C + 1
      <4>1. k - out - 1 \in 0..C /\ k + C > out + 1 /\ ~(k > out + C + 1)
        BY <1>3, <1>4, <3>3
      <4>2. new.attrs[k] = fb.attrs[k + C]
        BY <1>2, <1>5, <4>1, Zenon
      <4> QED BY <3>1, <3>2, <4>1, <4>2, Zenon
    <3>4. CASE k # out + C + 1
      <4>1. k - out - 1 \notin 0..C /\ k > out + 1 /\ ~(k <= out + C + 1)
        BY <1>3, <1>4, <2>3, <3>4
      <4>2. new.attrs[k] = fb.attrs[k]
        BY <1>2, <1>5, <4>1, Zenon
      <4> QED BY <3>1, <3>2, <4>1, <4>2, Zenon
    <3> QED BY <3>3, <3>4
  <2> QED BY <1>3, <1>4, <2>1, <2>2, <2>3
<1>7. n > 0 /\ n # 0
  BY <1>3
<1>8. MovedUp(fb, new, n)
  BY <1>4, <1>6, <1>7, Zenon DEF MovedUp, C
<1> QED BY <1>1, <1>8 DEF new

(* The rows that fb_scroll clears and the color that it clears them with. *)
LEMMA ScrollCopies ==
  ASSUME NEW old, NEW fb \in Near(old)
  PROVE  \E m \in Near(old), color \in Nat :
           /\ MovedUp(fb, m, FB_NUM_ROWS - 1)
           /\ fb_scroll(fb) = fb_clear_row(m, FB_NUM_ROWS - 1, color, color)
<1> DEFINE n == FB_NUM_ROWS - 1
           F(f) == f = [row \in 0..n |-> IF row = 0 THEN fb ELSE fb_copy_row(f[row - 1], row, row - 1)]
           f == CHOOSE f : F(f)
           m == f[n]
           last == m.attrs[ScreenSize - 1]
           color == 16 * last[1] + last[2]
<1>1. fb_scroll(fb) = fb_clear_row(m, n, color, color)
  BY Zenon DEF fb_scroll
<1>2. n \in Nat /\ \A k \in 0..n : k # 0 => k \in 1..n /\ k - 1 \in 0..n
  BY VgaAssumption
<1>3. \E g : F(g)
  <2> DEFINE A == Near(old)
             step == [k \in 1..n |-> [x \in Near(old) |-> fb_copy_row(x, k, k - 1)]]
  <2>1. ASSUME NEW k \in 1..n, NEW x \in Near(old)
        PROVE  step[k][x] = fb_copy_row(x, k, k - 1) /\ step[k][x] \in Near(old)
    <3>1. step[k][x] = fb_copy_row(x, k, k - 1)
      BY Zenon
    <3>2. fb_copy_row(x, k, k - 1) \in Near(old)
      BY CopyUp, Zenon
    <3> QED BY <3>1, <3>2, Zenon
  <2> HIDE DEF step, n
  <2>6. Loop(step, A, n)
    BY <2>1, Zenon DEF Loop
  <2>7. n \in Nat /\ fb \in A
    BY <1>2
  <2> HIDE DEF A
  <2>8. PICK g : Run(g, fb, step, A, n)
    BY <2>6, <2>7, Recursion, Zenon
  <2>2. g \in [0..n -> A] /\ g[0] = fb /\ \A k \in 1..n : g[k] = step[k][g[k - 1]]
    BY <2>8, Zenon DEF Run
  <2>3. ASSUME NEW k \in 0..n
        PROVE  g[k] = IF k = 0 THEN fb ELSE fb_copy_row(g[k - 1], k, k - 1)
    <3>1. CASE k = 0
      BY <2>2, <3>1, Zenon
    <3>2. CASE k # 0
      <4>1. k \in 1..n /\ k - 1 \in 0..n
        BY <1>2, <3>2, Zenon
      <4>2. g[k - 1] \in Near(old)
        BY <2>2, <4>1 DEF A
      <4> QED BY <2>1, <2>2, <3>2, <4>1, <4>2, Zenon
    <3> QED BY <3>1, <3>2, Zenon
  <2>4. g = [k \in 0..n |-> g[k]]
    BY <2>2
  <2>5. F(g)
    BY <2>3, <2>4, Zenon
  <2> QED BY <2>5, Zenon
<1> HIDE DEF F, n
<1>4. F(f)
  BY <1>3, Zenon
<1> HIDE DEF f
<1>5. \A k \in 0..n : f[k] = IF k = 0 THEN fb ELSE fb_copy_row(f[k - 1], k, k - 1)
  BY <1>4, Zenon DEF F
<1>6. m \in Near(old) /\ MovedUp(fb, m, n)
  <2> DEFINE I == [k \in 0..n |-> {x \in Near(old) : MovedUp(fb, x, k)}]
  <2>1. f[0] \in I[0]
    <3>1. 0 \in 0..n
      BY <1>2
    <3>2. f[0] = fb
      BY <1>5, <3>1, Zenon
    <3>3. MovedUp(fb, fb, 0)
      BY DEF MovedUp
    <3> QED BY <3>1, <3>2, <3>3, Zenon
  <2>2. ASSUME NEW k \in 1..n, f[k - 1] \in I[k - 1] PROVE f[k] \in I[k]
    <3>1. k \in 0..n /\ k - 1 \in 0..n /\ k # 0 /\ k \in 1..(FB_NUM_ROWS - 1)
      BY <1>2 DEF n
    <3>2. f[k - 1] \in Near(old) /\ MovedUp(fb, f[k - 1], k - 1)
      BY <2>2, <3>1, Zenon
    <3>3. f[k] = fb_copy_row(f[k - 1], k, k - 1)
      BY <1>5, <3>1, Zenon
    <3>4. f[k] \in Near(old) /\ MovedUp(fb, f[k], k)
      BY <3>1, <3>2, <3>3, MovedUpStep, Zenon
    <3> QED BY <3>1, <3>4, Zenon
  <2>3. n \in 0..n
    BY <1>2
  <2> HIDE DEF I
  <2>4. \A k \in 0..n : f[k] \in I[k]
    BY <1>2, <2>1, <2>2, Induction
  <2>5. f[n] \in I[n]
    BY <2>3, <2>4, Zenon
  <2> QED BY <2>3, <2>5, Zenon DEF I
<1>7. color \in Nat
  <2>1. ScreenSize - 1 \in Cells
    BY SizeBound, VgaAssumption DEF Cells
  <2> HIDE DEF m
  <2>2. last \in Nibbles
    BY <1>6, <2>1, NearFields
  <2> HIDE DEF last
  <2> QED BY <2>2 DEF Nibbles
<1> HIDE DEF m, color
<1>8. fb_scroll(fb) = fb_clear_row(m, n, color, color) /\ m \in Near(old) /\ MovedUp(fb, m, n)
      /\ color \in Nat
  BY <1>1, <1>6, <1>7, Zenon
<1> QED BY <1>8, Zenon DEF n

LEMMA ClearRowNear ==
  ASSUME NEW old, NEW fb \in Near(old), NEW r \in 0..(FB_NUM_ROWS - 1),
         NEW fg \in Int, NEW bg \in Int
  PROVE  /\ fb_clear_row(fb, r, fg, bg) \in Near(old)
         /\ \A k \in Cells :
              /\ k - r * FB_NUM_COLUMNS \in 0..(FB_NUM_COLUMNS - 1)
                   => fb_clear_row(fb, r, fg, bg).chars[k] = Blank
              /\ k - r * FB_NUM_COLUMNS \notin 0..(FB_NUM_COLUMNS - 1)
                   => /\ fb_clear_row(fb, r, fg, bg).chars[k] = fb.chars[k]
                      /\ fb_clear_row(fb, r, fg, bg).attrs[k] = fb.attrs[k]
<1> DEFINE C == FB_NUM_COLUMNS
           start == r * C
           cells == {C * r + col : col \in 0..(C - 1)}
           a == Attribute(fg, bg)
<1>1. /\ C \in Nat /\ C >= 3 /\ FB_NUM_ROWS \in Nat /\ ScreenSize \in Nat
      /\ C * r = start /\ start \in 0..ScreenSize
      /\ \A k \in Cells : k \in Int
  <2>1. C \in Nat /\ C >= 3 /\ FB_NUM_ROWS \in Nat /\ ScreenSize \in Nat
    BY VgaAssumption, SizeBound
  <2>2. C * r = start /\ r \in 0..FB_NUM_ROWS
    BY <2>1
  <2>3. start \in 0..ScreenSize
    BY <2>2, RowStart
  <2> QED BY <2>1, <2>2, <2>3 DEF Cells
<1>2. \A k \in Cells : k \in cells <=> k - start \in 0..(C - 1)
  <2> HIDE DEF start, C
  <2>0. cells = {start + col : col \in 0..(C - 1)}
    BY <1>1
  <2> HIDE DEF cells
  <2>1. ASSUME NEW k \in Cells, k \in cells PROVE k - start \in 0..(C - 1)
    BY <1>1, <2>0, <2>1
  <2>2. ASSUME NEW k \in Cells, k - start \in 0..(C - 1) PROVE k \in cells
    <3>1. k = start + (k - start)
      BY <1>1
    <3> QED BY <2>0, <2>2, <3>1
  <2> QED BY <2>1, <2>2
<1>3. \A k \in cells : ~Far(k)
  <2> HIDE DEF start
  <2> QED BY <1>1 DEF Far
<1>4. Blank \in Int
  BY DEF Blank
<1> HIDE DEF cells, start, C
<1>5. Fill(fb, cells, Blank, a) \in Near(old)
  BY <1>3, <1>4, AttributeIs, FillNear
<1>6. fb_clear_row(fb, r, fg, bg) = Fill(fb, cells, Blank, a)
  BY DEF fb_clear_row, cells, C
<1>7. \A k \in Cells : /\ k \in cells => Fill(fb, cells, Blank, a).chars[k] = Blank
                       /\ k \notin cells => /\ Fill(fb, cells, Blank, a).chars[k] = fb.chars[k]
                                            /\ Fill(fb, cells, Blank, a).attrs[k] = fb.attrs[k]
  BY DEF Fill
<1> QED BY <1>2, <1>5, <1>6, <1>7, Zenon DEF start, C

(* fb_scroll moves every visible row up by one and blanks the last; the    *)
(* attribute of the first cell stays.                                      *)
LEMMA ScrollIs ==
  ASSUME NEW old, NEW fb \in Near(old)
  PROVE  /\ fb_scroll(fb) \in Near(old)
         /\ \A k \in Visible :
              IF k + FB_NUM_COLUMNS \in Visible
                THEN /\ fb_scroll(fb).chars[k] = fb.chars[k + FB_NUM_COLUMNS]
                     /\ fb_scroll(fb).attrs[k]
                          = fb.attrs[IF k = 0 THEN 0 ELSE k + FB_NUM_COLUMNS]
                ELSE fb_scroll(fb).chars[k] = Blank
<1> DEFINE C == FB_NUM_COLUMNS
           n == FB_NUM_ROWS - 1
           start == n * C
           new == fb_scroll(fb)
<1>1. PICK m \in Near(old), color \in Nat :
         MovedUp(fb, m, n) /\ new = fb_clear_row(m, n, color, color)
  BY ScrollCopies, Zenon
<1>2. n \in 0..(FB_NUM_ROWS - 1) /\ color \in Int
  BY VgaAssumption
<1>3. new \in Near(old)
  BY <1>1, <1>2, ClearRowNear, Zenon
<1>4. \A k \in Cells :
        /\ k - start \in 0..(C - 1) => new.chars[k] = Blank
        /\ k - start \notin 0..(C - 1) => new.chars[k] = m.chars[k] /\ new.attrs[k] = m.attrs[k]
  <2> DEFINE x == fb_clear_row(m, n, color, color)
  <2>1. \A k \in Cells :
          /\ k - start \in 0..(C - 1) => x.chars[k] = Blank
          /\ k - start \notin 0..(C - 1) => x.chars[k] = m.chars[k] /\ x.attrs[k] = m.attrs[k]
    <3> HIDE DEF n
    <3> QED BY <1>2, ClearRowNear
  <2>2. new = x
    BY <1>1
  <2> HIDE DEF x, new, start, C, n
  <2> QED BY <2>1, <2>2
<1>5. /\ C \in Nat /\ C >= 3 /\ start \in Nat /\ ScreenSize = start + C /\ n \in Nat
      /\ n = 0 => start = 0
  <2>1. FB_NUM_COLUMNS * FB_NUM_ROWS = (FB_NUM_ROWS - 1) * FB_NUM_COLUMNS + FB_NUM_COLUMNS
    BY VgaAssumption
  <2>2. start \in Nat /\ 0 * C = 0
    BY VgaAssumption
  <2> QED BY <2>1, <2>2, VgaAssumption DEF ScreenSize
<1>6. \A k \in Cells :
        /\ n > 0 /\ k <= start => m.chars[k] = fb.chars[k + C]
        /\ n > 0 /\ 1 <= k /\ k <= start + 1 => m.attrs[k] = fb.attrs[k + C]
        /\ n = 0 \/ k < 1 \/ k > start + 1 => m.attrs[k] = fb.attrs[k]
  BY <1>1, Zenon DEF MovedUp
<1> HIDE DEF C, n, start, new
<1>7. ASSUME NEW k \in Visible
      PROVE  IF k + C \in Visible
               THEN /\ new.chars[k] = fb.chars[k + C]
                    /\ new.attrs[k] = fb.attrs[IF k = 0 THEN 0 ELSE k + C]
               ELSE new.chars[k] = Blank
  <2>1. k \in Cells /\ k \in Int /\ k >= 0 /\ k < start + C
    BY <1>5 DEF Visible, Cells, C
  <2>2. CASE k < start
    <3>1. /\ k + C \in Visible /\ k - start \notin 0..(C - 1) /\ n > 0 /\ k <= start
          /\ k # 0 => 1 <= k /\ k <= start + 1
          /\ k = 0 => k < 1
      BY <1>5, <2>1, <2>2 DEF Visible
    <3> QED BY <1>4, <1>6, <2>1, <3>1, Zenon
  <2>3. CASE ~(k < start)
    <3>1. k + C \notin Visible /\ k - start \in 0..(C - 1)
      BY <1>5, <2>1, <2>3 DEF Visible
    <3> QED BY <1>4, <2>1, <3>1, Zenon
  <2> QED BY <2>2, <2>3, Zenon
<1> QED BY <1>3, <1>7, Zenon DEF new, C

(* The copies of fb_shift_down that have come up to row r. *)
MovedDown(fb, m, r) ==
  \A k \in Visible :
    /\ k < (r + 1) * FB_NUM_COLUMNS => m.chars[k] = fb.chars[k]
    /\ k > (r + 1) * FB_NUM_COLUMNS /\ (\A j \in Nat : k # j * FB_NUM_COLUMNS)
         => m.chars[k] = fb.chars[k - FB_NUM_COLUMNS]

LEMMA MovedDownStart ==
  ASSUME NEW fb, NEW r \in {FB_NUM_ROWS, FB_NUM_ROWS + 1}
  PROVE  MovedDown(fb, fb, r)
<1> DEFINE C == FB_NUM_COLUMNS
<1>1. (r + 1) * C \in Nat /\ (r + 1) * C >= ScreenSize
  <2>1. (FB_NUM_ROWS + 2) * C = FB_NUM_ROWS * C + 2 * C
        /\ (FB_NUM_ROWS + 1) * C = FB_NUM_ROWS * C + C
    BY VgaAssumption
  <2>2. (FB_NUM_ROWS + 1) + 1 = FB_NUM_ROWS + 2
    BY VgaAssumption
  <2>3. ScreenSize = FB_NUM_ROWS * C /\ ScreenSize \in Nat /\ C \in Nat
    BY VgaAssumption DEF ScreenSize
  <2> QED BY <2>1, <2>2, <2>3
<1>2. \A k \in Visible : ~(k > (r + 1) * C)
  BY <1>1, SizeBound DEF Visible
<1> QED BY <1>2 DEF MovedDown

LEMMA MovedDownStep ==
  ASSUME NEW old, NEW fb, NEW m \in Near(old), NEW r \in 0..(FB_NUM_ROWS - 1),
         MovedDown(fb, m, r + 1)
  PROVE  /\ fb_copy_row(m, r, r + 1) \in Near(old)
         /\ MovedDown(fb, fb_copy_row(m, r, r + 1), r)
<1> DEFINE C == FB_NUM_COLUMNS
           out == (r + 1) * C
           new == fb_copy_row(m, r, r + 1)
<1>1. new \in Near(old)
  BY CopyDown
<1>2. \A k \in Cells :
        /\ k - out \in 0..(C - 1) => new.chars[k] = m.chars[k - C]
        /\ k - out \notin 0..C => new.chars[k] = m.chars[k]
  BY CopyDown, Zenon
<1>3. /\ C \in Nat /\ C >= 3 /\ r \in Nat
      /\ \A k \in Visible : k \in Int /\ k >= 0 /\ k \in Cells
      /\ \A k \in Visible : k > C => k - C \in Visible
  <2>1. C \in Nat /\ C >= 3 /\ ScreenSize \in Nat /\ r \in Nat
    BY VgaAssumption, SizeBound
  <2> QED BY <2>1 DEF Visible, Cells
<1>4. out \in Nat /\ out >= C /\ ((r + 1) + 1) * C = out + C /\ (r + 1) + 1 \in Nat
  <2>1. (r + 1) * C = r * C + C /\ r * C \in Nat /\ ((r + 1) + 1) * C = (r + 1) * C + C
    BY <1>3
  <2> QED BY <1>3, <2>1
<1>5. \A k \in Visible :
        /\ k < out + C => m.chars[k] = fb.chars[k]
        /\ k > out + C /\ (\A j \in Nat : k # j * C) => m.chars[k] = fb.chars[k - C]
  BY <1>4, Zenon DEF MovedDown
<1> HIDE DEF C, out, new
<1>6. ASSUME NEW k \in Visible, k < out PROVE new.chars[k] = fb.chars[k]
  <2>1. k - out \notin 0..C /\ k < out + C /\ k \in Cells
    BY <1>3, <1>4, <1>6
  <2> QED BY <1>2, <1>5, <2>1, Zenon
<1>7. ASSUME NEW k \in Visible, k > out, \A j \in Nat : k # j * C
      PROVE  new.chars[k] = fb.chars[k - C]
  <2>1. k # out + C
    BY <1>4, <1>7, Zenon
  <2>2. k \in Cells /\ k \in Int
    BY <1>3
  <2>3. CASE k < out + C
    <3>1. k - out \in 0..(C - 1) /\ k - C < out + C /\ k > C
      BY <1>3, <1>4, <1>7, <2>2, <2>3
    <3>2. k - C \in Visible
      BY <1>3, <3>1, Zenon
    <3> QED BY <1>2, <1>5, <2>2, <3>1, <3>2, Zenon
  <2>4. CASE k > out + C
    <3>1. k - out \notin 0..C
      BY <1>3, <1>4, <2>2, <2>4
    <3> QED BY <1>2, <1>5, <1>7, <2>2, <2>4, <3>1, Zenon
  <2> QED BY <1>3, <1>4, <2>1, <2>2, <2>3, <2>4
<1>8. MovedDown(fb, new, r)
  BY <1>6, <1>7, Zenon DEF MovedDown, out, C
<1> QED BY <1>1, <1>8 DEF new


(* fb_shift_down reads no cell behind the modelled memory; it leaves the   *)
(* rows up to its argument alone and, but for their first cells, moves     *)
(* the rows below it down.                                                 *)
LEMMA ShiftDownCopies ==
  ASSUME NEW old, NEW fb \in Near(old), NEW from \in 0..FB_NUM_ROWS
  PROVE  /\ fb_shift_down(fb, from) \in Near(old)
         /\ MovedDown(fb, fb_shift_down(fb, from), from)
<1> DEFINE R == FB_NUM_ROWS
           n == R + 1 - from
           F(f) == f = [row \in from..(R + 1) |->
                          IF row > R THEN fb ELSE fb_copy_row(f[row + 1], row, row + 1)]
           f == CHOOSE f : F(f)
           Row(k) == R + 1 - k
<1>1. fb_shift_down(fb, from) = f[from]
  BY Zenon DEF fb_shift_down
<1>2. /\ R \in Nat /\ n \in Nat /\ n >= 1
      /\ \A row \in from..(R + 1) : /\ R + 1 - row \in 0..n
                                    /\ Row(R + 1 - row) = row
                                    /\ row > R => R + 1 - row = 0
                                    /\ ~(row > R) => /\ R + 1 - row \in 1..n
                                                     /\ row + 1 \in from..(R + 1)
                                                     /\ R + 1 - (row + 1) = (R + 1 - row) - 1
      /\ \A k \in 0..n : Row(k) \in from..(R + 1)
      /\ \A k \in 1..n : /\ Row(k - 1) = Row(k) + 1 /\ ~(Row(k) > R) /\ k - 1 \in 0..n
                         /\ Row(k) # R => Row(k) \in 0..(R - 1)
      /\ Row(0) = R + 1 /\ Row(n) = from
  BY VgaAssumption
<1>3. ASSUME NEW x \in Near(old), NEW k \in 1..n
      PROVE  /\ fb_copy_row(x, Row(k), Row(k) + 1) \in Near(old)
             /\ MovedDown(fb, x, Row(k) + 1)
                  => MovedDown(fb, fb_copy_row(x, Row(k), Row(k) + 1), Row(k))
  <2>1. CASE Row(k) = R
    <3>1. fb_copy_row(x, R, R + 1) = x
      BY <1>2 DEF fb_copy_row
    <3>2. MovedDown(fb, x, R + 1) => MovedDown(fb, x, R)
      <4>1. ASSUME NEW j \in Visible
            PROVE  /\ j < (R + 1 + 1) * FB_NUM_COLUMNS
                   /\ ~(j > (R + 1) * FB_NUM_COLUMNS)
        <5>1. /\ (R + 1 + 1) * FB_NUM_COLUMNS = R * FB_NUM_COLUMNS + 2 * FB_NUM_COLUMNS
              /\ (R + 1) * FB_NUM_COLUMNS = R * FB_NUM_COLUMNS + FB_NUM_COLUMNS
              /\ ScreenSize = R * FB_NUM_COLUMNS
          BY VgaAssumption DEF ScreenSize
        <5> QED BY <5>1, SizeBound, VgaAssumption DEF Visible
      <4> QED BY <4>1, Zenon DEF MovedDown
    <3> HIDE DEF R, Row
    <3> QED BY <2>1, <3>1, <3>2, Zenon
  <2>2. CASE Row(k) # R
    <3>1. Row(k) \in 0..(FB_NUM_ROWS - 1)
      BY <1>2, <2>2, Zenon
    <3> HIDE DEF Row
    <3>2. fb_copy_row(x, Row(k), Row(k) + 1) \in Near(old)
      BY <3>1, CopyDown, Zenon
    <3> QED BY <3>1, <3>2, MovedDownStep, Zenon
  <2> QED BY <2>1, <2>2, Zenon
<1>4. \E h : F(h)
  <2> DEFINE A == Near(old)
             step == [k \in 1..n |-> [x \in Near(old) |-> fb_copy_row(x, Row(k), Row(k) + 1)]]
  <2> HIDE DEF Row, n, R
  <2>1. ASSUME NEW k \in 1..n, NEW x \in Near(old)
        PROVE  /\ step[k][x] = fb_copy_row(x, Row(k), Row(k) + 1)
               /\ step[k][x] \in Near(old)
    <3>1. step[k][x] = fb_copy_row(x, Row(k), Row(k) + 1)
      BY Zenon
    <3> QED BY <1>3, <3>1, Zenon
  <2> HIDE DEF step
  <2>2. Loop(step, A, n)
    BY <2>1, Zenon DEF Loop
  <2>3. n \in Nat /\ fb \in A
    BY <1>2
  <2> HIDE DEF A
  <2>4. PICK g : Run(g, fb, step, A, n)
    BY <2>2, <2>3, Recursion, Zenon
  <2>5. g \in [0..n -> A] /\ g[0] = fb /\ \A k \in 1..n : g[k] = step[k][g[k - 1]]
    BY <2>4, Zenon DEF Run
  <2> DEFINE h == [row \in from..(R + 1) |-> g[R + 1 - row]]
  <2>6. ASSUME NEW row \in from..(R + 1)
        PROVE  h[row] = IF row > R THEN fb ELSE fb_copy_row(h[row + 1], row, row + 1)
    <3>1. h[row] = g[R + 1 - row]
      BY Zenon
    <3>2. CASE row > R
      BY <1>2, <2>5, <3>1, <3>2, Zenon
    <3>3. CASE ~(row > R)
      <4>1. /\ R + 1 - row \in 1..n /\ row + 1 \in from..(R + 1)
            /\ R + 1 - (row + 1) = (R + 1 - row) - 1
            /\ Row(R + 1 - row) = row
            /\ (R + 1 - row) - 1 \in 0..n
        BY <1>2, <3>3, Zenon
      <4>2. h[row + 1] = g[(R + 1 - row) - 1]
        BY <4>1, Zenon
      <4>3. h[row + 1] \in Near(old)
        BY <2>5, <4>1, <4>2 DEF A
      <4>4. g[R + 1 - row] = step[R + 1 - row][h[row + 1]]
        BY <2>5, <4>1, <4>2, Zenon
      <4>5. g[R + 1 - row] = fb_copy_row(h[row + 1], row, row + 1)
        BY <2>1, <4>1, <4>3, <4>4, Zenon
      <4> HIDE DEF h
      <4> QED BY <3>1, <3>3, <4>5, Zenon
    <3> QED BY <3>2, <3>3, Zenon
  <2>7. h = [row \in from..(R + 1) |-> h[row]]
    BY Zenon
  <2> HIDE DEF h
  <2>8. F(h)
    BY <2>6, <2>7, Zenon
  <2> QED BY <2>8, Zenon
<1> HIDE DEF F, n, R, Row
<1>5. F(f)
  BY <1>4, Zenon
<1> HIDE DEF f
<1>6. \A row \in from..(R + 1) :
         f[row] = IF row > R THEN fb ELSE fb_copy_row(f[row + 1], row, row + 1)
  BY <1>5, Zenon DEF F
<1> DEFINE g == [k \in 0..n |-> f[Row(k)]]
           I == [k \in 0..n |-> {x \in Near(old) : MovedDown(fb, x, Row(k))}]
<1>7. g[0] \in I[0]
  <2>1. 0 \in 0..n /\ R + 1 \in from..(R + 1) /\ R + 1 > R
    BY <1>2
  <2>2. g[0] = fb
    BY <1>2, <1>6, <2>1, Zenon
  <2>3. MovedDown(fb, fb, R + 1)
    BY MovedDownStart DEF R
  <2> HIDE DEF g
  <2> QED BY <1>2, <2>1, <2>2, <2>3, Zenon
<1>8. ASSUME NEW k \in 1..n, g[k - 1] \in I[k - 1] PROVE g[k] \in I[k]
  <2>1. /\ k \in 0..n /\ k - 1 \in 0..n /\ Row(k) \in from..(R + 1) /\ ~(Row(k) > R)
        /\ Row(k - 1) = Row(k) + 1
    BY <1>2
  <2>2. g[k - 1] = f[Row(k) + 1] /\ g[k] = f[Row(k)]
    BY <2>1, Zenon
  <2>3. f[Row(k) + 1] \in Near(old) /\ MovedDown(fb, f[Row(k) + 1], Row(k) + 1)
    BY <1>8, <2>1, <2>2, Zenon
  <2>4. f[Row(k)] = fb_copy_row(f[Row(k) + 1], Row(k), Row(k) + 1)
    BY <1>6, <2>1, Zenon
  <2>5. f[Row(k)] \in Near(old) /\ MovedDown(fb, f[Row(k)], Row(k))
    BY <1>3, <2>3, <2>4, Zenon
  <2> QED BY <2>1, <2>2, <2>5, Zenon
<1>9. n \in 0..n /\ n \in Nat
  BY <1>2
<1>10. \A k \in 0..n : g[k] \in I[k]
  <2> HIDE DEF g, I
  <2> QED BY <1>7, <1>8, <1>9, Induction
<1>11. f[from] \in Near(old) /\ MovedDown(fb, f[from], from)
  BY <1>2, <1>9, <1>10, Zenon
<1> QED BY <1>1, <1>11, Zenon


LEMMA ShiftDownIs ==
  ASSUME NEW old, NEW fb \in Near(old), NEW from \in 0..FB_NUM_ROWS
  PROVE  /\ fb_shift_down(fb, from) \in Near(old)
         /\ \A k \in Visible :
              /\ fb_get_row(k) <= from => fb_shift_down(fb, from).chars[k] = fb.chars[k]
              /\ fb_get_row(k) > from /\ k % FB_NUM_COLUMNS # 0
                   => fb_shift_down(fb, from).chars[k] = fb.chars[k - FB_NUM_COLUMNS]
<1> DEFINE C == FB_NUM_COLUMNS
           new == fb_shift_down(fb, from)
<1>1. new \in Near(old) /\ MovedDown(fb, new, from)
  BY ShiftDownCopies
<1>2. C \in Nat /\ C >= 3 /\ \A k \in Visible : k \in Nat
  BY VgaAssumption, SizeBound DEF Visible
<1>3. ASSUME NEW k \in Visible
      PROVE  /\ fb_get_row(k) <= from => k < (from + 1) * C
             /\ fb_get_row(k) > from /\ k % C # 0
                  => k > (from + 1) * C /\ \A j \in Nat : k # j * C
  <2> DEFINE q == k \div C
             r == k % C
  <2>1. q \in Nat /\ r \in 0..(C - 1) /\ k = q * C + r
    <3>1. k \in Nat /\ C \in Nat /\ C > 0
      BY <1>2
    <3> HIDE DEF C
    <3>2. r \in 0..(C - 1) /\ q \in Int
      BY <3>1
    <3>3. k = C * q + r
      BY <3>1
    <3>4. q \in Nat
      BY <3>1
    <3> HIDE DEF q, r
    <3> QED BY <3>1, <3>2, <3>3, <3>4
  <2>2. fb_get_row(k) = q
    BY DEF fb_get_row
  <2>3. \A j \in Nat : r # 0 => k # j * C
    <3> SUFFICES ASSUME NEW j \in Nat, r # 0, k = j * C PROVE FALSE
      BY Zenon
    <3> HIDE DEF q, r, C
    <3>1. CASE j <= q
      <4>1. PICK d \in Nat : q = j + d
        BY <2>1, <3>1
      <4>2. q * C = j * C + d * C /\ d * C \in Nat
        BY <1>2, <4>1
      <4> QED BY <1>2, <2>1, <4>2
    <3>2. CASE ~(j <= q)
      <4>1. PICK d \in Nat : j = q + 1 + d
        <5>1. j - q - 1 \in Nat /\ j = q + 1 + (j - q - 1)
          BY <2>1, <3>2
        <5> QED BY <5>1, Zenon
      <4>2. j * C = q * C + C + d * C /\ d * C \in Nat
        BY <1>2, <2>1, <4>1
      <4> QED BY <1>2, <2>1, <4>2
    <3> QED BY <3>1, <3>2
  <2> HIDE DEF q, r, C
  <2>4. ASSUME q <= from PROVE k < (from + 1) * C
    <3>1. PICK d \in Nat : from = q + d
      BY <2>1, <2>4
    <3>2. (from + 1) * C = q * C + d * C + C /\ d * C \in Nat
      BY <1>2, <2>1, <3>1
    <3> QED BY <1>2, <2>1, <3>2
  <2>5. ASSUME q > from, r # 0 PROVE k > (from + 1) * C
    <3>1. PICK d \in Nat : q = from + 1 + d
      <4>1. q - from - 1 \in Nat /\ q = from + 1 + (q - from - 1)
        BY <2>1, <2>5
      <4> QED BY <4>1, Zenon
    <3>2. q * C = (from + 1) * C + d * C /\ d * C \in Nat /\ (from + 1) * C \in Nat
      BY <1>2, <2>1, <3>1
    <3> QED BY <1>2, <2>1, <2>5, <3>2
  <2> QED BY <2>2, <2>3, <2>4, <2>5, Zenon DEF r
<1> HIDE DEF new
<1>4. ASSUME NEW k \in Visible
      PROVE  /\ fb_get_row(k) <= from => new.chars[k] = fb.chars[k]
             /\ fb_get_row(k) > from /\ k % C # 0 => new.chars[k] = fb.chars[k - C]
  BY <1>1, <1>3, Zenon DEF MovedDown
<1> QED BY <1>1, <1>4, Zenon DEF new

(* A number of scrolls, *)
LEMMA ScrolledIs ==
  ASSUME NEW old, NEW fb \in Near(old), NEW n \in Nat
  PROVE  Scrolled(fb, n) \in Near(old) /\ Scrolled(fb, 0) = fb
<1>1. ASSUME NEW x \in Near(old) PROVE fb_scroll(x) \in Near(old)
  BY ScrollIs, Zenon
<1>2. ASSUME NEW m \in Nat
      PROVE  Scrolled(fb, m) \in Near(old) /\ (m = 0 => Scrolled(fb, m) = fb)
  <2> DEFINE A == Near(old)
             F(f) == f = [k \in 0..m |-> IF k = 0 THEN fb ELSE fb_scroll(f[k - 1])]
             f == CHOOSE f : F(f)
             step == [k \in 1..m |-> [x \in A |-> fb_scroll(x)]]
  <2>1. Scrolled(fb, m) = f[m]
    BY Zenon DEF Scrolled
  <2>2. ASSUME NEW k \in 1..m, NEW x \in A
        PROVE  step[k][x] = fb_scroll(x) /\ step[k][x] \in A
    BY <1>1, Zenon
  <2>3. /\ m \in Nat /\ fb \in A /\ m \in 0..m /\ 0 \in 0..m
        /\ \A k \in 0..m : k # 0 => k \in 1..m /\ k - 1 \in 0..m
        /\ \A k \in 1..m : k \in 0..m /\ k # 0 /\ k - 1 \in 0..m
    OBVIOUS
  <2> HIDE DEF A, step
  <2>4. Loop(step, A, m)
    BY <2>2, Zenon DEF Loop
  <2>5. PICK g : Run(g, fb, step, A, m)
    BY <2>3, <2>4, Recursion, Zenon
  <2>6. g \in [0..m -> A] /\ g[0] = fb /\ \A k \in 1..m : g[k] = step[k][g[k - 1]]
    BY <2>5, Zenon DEF Run
  <2>7. ASSUME NEW k \in 0..m PROVE g[k] = IF k = 0 THEN fb ELSE fb_scroll(g[k - 1])
    <3>1. CASE k = 0
      BY <2>6, <3>1, Zenon
    <3>2. CASE k # 0
      <4>1. k \in 1..m /\ k - 1 \in 0..m
        BY <2>3, <3>2, Zenon
      <4>2. g[k - 1] \in A
        BY <2>6, <4>1
      <4> QED BY <2>2, <2>6, <3>2, <4>1, <4>2, Zenon
    <3> QED BY <3>1, <3>2, Zenon
  <2>8. g = [k \in 0..m |-> g[k]]
    BY <2>6
  <2>9. F(g)
    BY <2>7, <2>8, Zenon
  <2> HIDE DEF F
  <2>10. F(f)
    BY <2>9, Zenon
  <2> HIDE DEF f
  <2>11. \A k \in 0..m : f[k] = IF k = 0 THEN fb ELSE fb_scroll(f[k - 1])
    BY <2>10, Zenon DEF F
  <2>12. f[0] = fb
    BY <2>3, <2>11, Zenon
  <2> DEFINE I == [k \in 0..m |-> A]
  <2>13. f[0] \in I[0]
    BY <2>3, <2>12, Zenon
  <2>14. ASSUME NEW k \in 1..m, f[k - 1] \in I[k - 1] PROVE f[k] \in I[k]
    <3>1. k \in 0..m /\ k # 0 /\ k - 1 \in 0..m
      BY <2>3, Zenon
    <3>2. f[k - 1] \in Near(old)
      BY <2>14, <3>1, Zenon DEF A
    <3>3. f[k] = fb_scroll(f[k - 1])
      BY <2>11, <3>1, Zenon
    <3>4. f[k] \in Near(old)
      BY <1>1, <3>2, <3>3, Zenon
    <3> QED BY <3>1, <3>4, Zenon DEF A
  <2> HIDE DEF I
  <2>15. \A k \in 0..m : f[k] \in I[k]
    BY <2>3, <2>13, <2>14, Induction
  <2>16. f[m] \in A
    BY <2>3, <2>15, Zenon DEF I
  <2> QED BY <2>1, <2>12, <2>16, Zenon DEF A
<1> QED BY <1>2, Zenon

(* and of shifts below the last row. *)
LEMMA ShiftedDownIs ==
  ASSUME NEW old, NEW fb \in Near(old), NEW n \in Nat
  PROVE  ShiftedDown(fb, n) \in Near(old) /\ ShiftedDown(fb, 0) = fb
<1>1. ASSUME NEW x \in Near(old) PROVE fb_shift_down(x, FB_NUM_ROWS) \in Near(old)
  <2>1. FB_NUM_ROWS \in 0..FB_NUM_ROWS
    BY VgaAssumption
  <2> QED BY <2>1, ShiftDownIs, Zenon
<1>2. ASSUME NEW m \in Nat
      PROVE  ShiftedDown(fb, m) \in Near(old) /\ (m = 0 => ShiftedDown(fb, m) = fb)
  <2> DEFINE A == Near(old)
             F(f) == f = [k \in 0..m |-> IF k = 0 THEN fb ELSE fb_shift_down(f[k - 1], FB_NUM_ROWS)]
             f == CHOOSE f : F(f)
             step == [k \in 1..m |-> [x \in A |-> fb_shift_down(x, FB_NUM_ROWS)]]
  <2>1. ShiftedDown(fb, m) = f[m]
    BY Zenon DEF ShiftedDown
  <2>2. ASSUME NEW k \in 1..m, NEW x \in A
        PROVE  step[k][x] = fb_shift_down(x, FB_NUM_ROWS) /\ step[k][x] \in A
    BY <1>1, Zenon
  <2>3. /\ m \in Nat /\ fb \in A /\ m \in 0..m /\ 0 \in 0..m
        /\ \A k \in 0..m : k # 0 => k \in 1..m /\ k - 1 \in 0..m
        /\ \A k \in 1..m : k \in 0..m /\ k # 0 /\ k - 1 \in 0..m
    OBVIOUS
  <2> HIDE DEF A, step
  <2>4. Loop(step, A, m)
    BY <2>2, Zenon DEF Loop
  <2>5. PICK g : Run(g, fb, step, A, m)
    BY <2>3, <2>4, Recursion, Zenon
  <2>6. g \in [0..m -> A] /\ g[0] = fb /\ \A k \in 1..m : g[k] = step[k][g[k - 1]]
    BY <2>5, Zenon DEF Run
  <2>7. ASSUME NEW k \in 0..m PROVE g[k] = IF k = 0 THEN fb ELSE fb_shift_down(g[k - 1], FB_NUM_ROWS)
    <3>1. CASE k = 0
      BY <2>6, <3>1, Zenon
    <3>2. CASE k # 0
      <4>1. k \in 1..m /\ k - 1 \in 0..m
        BY <2>3, <3>2, Zenon
      <4>2. g[k - 1] \in A
        BY <2>6, <4>1
      <4> QED BY <2>2, <2>6, <3>2, <4>1, <4>2, Zenon
    <3> QED BY <3>1, <3>2, Zenon
  <2>8. g = [k \in 0..m |-> g[k]]
    BY <2>6
  <2>9. F(g)
    BY <2>7, <2>8, Zenon
  <2> HIDE DEF F
  <2>10. F(f)
    BY <2>9, Zenon
  <2> HIDE DEF f
  <2>11. \A k \in 0..m : f[k] = IF k = 0 THEN fb ELSE fb_shift_down(f[k - 1], FB_NUM_ROWS)
    BY <2>10, Zenon DEF F
  <2>12. f[0] = fb
    BY <2>3, <2>11, Zenon
  <2> DEFINE I == [k \in 0..m |-> A]
  <2>13. f[0] \in I[0]
    BY <2>3, <2>12, Zenon
  <2>14. ASSUME NEW k \in 1..m, f[k - 1] \in I[k - 1] PROVE f[k] \in I[k]
    <3>1. k \in 0..m /\ k # 0 /\ k - 1 \in 0..m
      BY <2>3, Zenon
    <3>2. f[k - 1] \in Near(old)
      BY <2>14, <3>1, Zenon DEF A
    <3>3. f[k] = fb_shift_down(f[k - 1], FB_NUM_ROWS)
      BY <2>11, <3>1, Zenon
    <3>4. f[k] \in Near(old)
      BY <1>1, <3>2, <3>3, Zenon
    <3> QED BY <3>1, <3>4, Zenon DEF A
  <2> HIDE DEF I
  <2>15. \A k \in 0..m : f[k] \in I[k]
    BY <2>3, <2>13, <2>14, Induction
  <2>16. f[m] \in A
    BY <2>3, <2>15, Zenon DEF I
  <2> QED BY <2>1, <2>12, <2>16, Zenon DEF A
<1> QED BY <1>2, Zenon


-----------------------------------------------------------------------------
(* Screens: the cursor on a cell or just behind the last one, the frame    *)
(* buffer as in old but near the screen.                                   *)

Screens(old) == [cursor : 0..ScreenSize, crtc : Int, fb : Near(old)]

LEMMA ScreenIs ==
  ASSUME NEW old, NEW s \in Screens(old)
  PROVE  /\ OnScreen(s)
         /\ s.cursor \in 0..ScreenSize /\ s.cursor \in Int /\ s.cursor <= ScreenSize
         /\ s.crtc \in Int
         /\ s.fb \in Near(old)
         /\ \A fb \in Near(old) : [s EXCEPT !.fb = fb] \in Screens(old)
<1>1. /\ s = [cursor |-> s.cursor, crtc |-> s.crtc, fb |-> s.fb]
      /\ s.cursor \in 0..ScreenSize /\ s.crtc \in Int /\ s.fb \in Near(old)
  BY DEF Screens
<1>2. s.cursor \in Int /\ s.cursor <= ScreenSize
  BY <1>1, SizeBound
<1>3. \A fb \in Near(old) : [s EXCEPT !.fb = fb] \in Screens(old)
  BY DEF Screens
<1> QED BY <1>1, <1>2, <1>3 DEF OnScreen

(* fb_offset_cursor and fb_move_cursor end on a screen. *)
LEMMA OffsetIs ==
  ASSUME NEW old, NEW s, s.cursor \in Int, s.fb \in Near(old), NEW n \in Int
  PROVE  fb_offset_cursor(s, n) \in Screens(old)
<1> DEFINE p == s.cursor + n
           up == LoopCount(p - ScreenSize)
           dn == LoopCount(-p)
           c == p - up * FB_NUM_COLUMNS + dn * FB_NUM_COLUMNS
           fb == ShiftedDown(Scrolled(s.fb, up), dn)
<1>1. fb_offset_cursor(s, n) = [cursor |-> c, crtc |-> c, fb |-> fb]
  BY DEF fb_offset_cursor
<1>2. up \in Nat /\ dn \in Nat
  <2>1. p - ScreenSize \in Int /\ -p \in Int
    BY SizeBound
  <2> HIDE DEF p
  <2> QED BY <2>1, LoopCountIs
<1>3. OnScreen(fb_offset_cursor(s, n))
  BY OffsetOnScreen DEF Shown
<1> HIDE DEF up, dn
<1>4. Scrolled(s.fb, up) \in Near(old)
  BY <1>2, ScrolledIs, Zenon
<1>5. fb \in Near(old)
  BY <1>2, <1>4, ShiftedDownIs, Zenon
<1> HIDE DEF c, fb
<1>6. fb_offset_cursor(s, n).cursor = c
  BY <1>1
<1>7. c \in 0..ScreenSize /\ c \in Int
  BY <1>3, <1>6, SizeBound DEF OnScreen
<1> QED BY <1>1, <1>5, <1>7 DEF Screens

LEMMA MoveIs ==
  ASSUME NEW old, NEW s \in Screens(old), NEW c \in 0..ScreenSize
  PROVE  /\ fb_move_cursor(s, c) \in Screens(old)
         /\ fb_move_cursor_to_start_of_row(s) \in Screens(old)
<1>1. \A d \in 0..ScreenSize : [cursor |-> d, crtc |-> d, fb |-> s.fb] \in Screens(old)
  <2>1. \A d \in 0..ScreenSize : d \in Int
    BY SizeBound
  <2> QED BY <2>1, ScreenIs DEF Screens
<1>2. OnScreen(fb_move_cursor_to_start_of_row(s))
  BY ScreenIs, StartOfRowOnScreen DEF Shown
<1> DEFINE d == fb_move_cursor_to_start_of_row(s).cursor
<1>3. fb_move_cursor_to_start_of_row(s) = [cursor |-> d, crtc |-> d, fb |-> s.fb]
  BY DEF fb_move_cursor_to_start_of_row, fb_move_cursor_col_row, fb_move_cursor
<1>4. d \in 0..ScreenSize
  BY <1>2 DEF OnScreen
<1> HIDE DEF d
<1> QED BY <1>1, <1>3, <1>4 DEF fb_move_cursor

(* fb_get_current_row is a row of the screen, or the one behind it. *)
LEMMA CurrentRowIs ==
  ASSUME NEW old, NEW s \in Screens(old)
  PROVE  fb_get_current_row(s) \in 0..FB_NUM_ROWS
<1> DEFINE C == FB_NUM_COLUMNS
           q == s.cursor \div C
<1>1. /\ C \in Nat /\ C >= 3 /\ FB_NUM_ROWS \in Nat
      /\ s.cursor \in Nat /\ s.cursor <= FB_NUM_ROWS * C
  BY ScreenIs, VgaAssumption DEF ScreenSize
<1>2. q \in Nat /\ q * C <= s.cursor
  BY <1>1
<1> HIDE DEF q
<1>3. q <= FB_NUM_ROWS
  <2> SUFFICES ASSUME q > FB_NUM_ROWS PROVE FALSE
    BY <1>1, <1>2
  <2>1. q - FB_NUM_ROWS - 1 \in Nat
    BY <1>1, <1>2
  <2>2. /\ q * C = FB_NUM_ROWS * C + C + (q - FB_NUM_ROWS - 1) * C
        /\ (q - FB_NUM_ROWS - 1) * C \in Nat
    BY <1>1, <1>2, <2>1
  <2> QED BY <1>1, <1>2, <2>2
<1> QED BY <1>1, <1>2, <1>3 DEF q, fb_get_current_row, fb_get_row

(* An offset that stays on the screen moves the cursor and nothing else. *)
LEMMA OffsetStays ==
  ASSUME NEW old, NEW s, s.cursor \in Int, s.fb \in Near(old), NEW n \in Int,
         s.cursor + n \in 0..ScreenSize
  PROVE  fb_offset_cursor(s, n) = [cursor |-> s.cursor + n, crtc |-> s.cursor + n, fb |-> s.fb]
<1> DEFINE p == s.cursor + n
           up == LoopCount(p - ScreenSize)
           dn == LoopCount(-p)
           c == p - up * FB_NUM_COLUMNS + dn * FB_NUM_COLUMNS
<1>1. fb_offset_cursor(s, n) = [cursor |-> c, crtc |-> c, fb |-> ShiftedDown(Scrolled(s.fb, up), dn)]
  BY DEF fb_offset_cursor
<1>2. /\ p \in Int /\ p - ScreenSize \in Int /\ -p \in Int /\ p - ScreenSize <= 0 /\ -p <= 0
  BY SizeBound
<1> HIDE DEF p
<1>3. up = 0 /\ dn = 0
  BY <1>2, LoopCountIs
<1>4. c = p
  BY <1>2, <1>3, VgaAssumption
<1>5. ShiftedDown(Scrolled(s.fb, up), dn) = s.fb
  <2>1. 0 \in Nat
    OBVIOUS
  <2>2. Scrolled(s.fb, 0) = s.fb
    BY <2>1, ScrolledIs, Zenon
  <2>3. ShiftedDown(s.fb, 0) = s.fb
    BY <2>1, ShiftedDownIs, Zenon
  <2> HIDE DEF up, dn
  <2> QED BY <1>3, <2>2, <2>3, Zenon
<1> HIDE DEF up, dn, c
<1> QED BY <1>1, <1>4, <1>5, Zenon DEF p

(* Printing starts on or before the cell behind the screen. *)
LEMMA PrintStrIs ==
  ASSUME NEW old, NEW s, s = [cursor |-> s.cursor, crtc |-> s.crtc, fb |-> s.fb],
         s.cursor \in Int, s.cursor <= ScreenSize, s.fb \in Near(old),
         NEW str \in Seq(Int), Len(str) <= FB_NUM_COLUMNS + 1, NEW fg \in Int, NEW bg \in Int
  PROVE  fb_print_lstr(s, str, fg, bg) \in Screens(old)
<1> DEFINE fb == fb_write_lstr(s.fb, s.cursor, str, fg, bg)
           t == [s EXCEPT !.fb = fb]
<1>1. fb \in Near(old)
  BY WriteStrNear
<1> HIDE DEF fb
<1>2. t.cursor = s.cursor /\ t.fb = fb /\ Len(str) \in Int
  OBVIOUS
<1> HIDE DEF t
<1>3. fb_offset_cursor(t, Len(str)) \in Screens(old)
  BY <1>1, <1>2, OffsetIs
<1> QED BY <1>3 DEF fb_print_lstr, t, fb

LEMMA PrintCellIs ==
  ASSUME NEW old, NEW s \in Screens(old), NEW c \in Int, NEW fg \in Int, NEW bg \in Int
  PROVE  fb_print_cell(s, c, fg, bg) \in Screens(old)
<1> DEFINE fb == fb_write_cell(s.fb, s.cursor, c, fg, bg)
           t == [s EXCEPT !.fb = fb]
<1>1. fb \in Near(old)
  BY ScreenIs, WriteCellNear
<1> HIDE DEF fb
<1>2. t \in Screens(old)
  BY <1>1, ScreenIs
<1> HIDE DEF t
<1>3. fb_offset_cursor(t, 1) \in Screens(old)
  BY <1>2, ScreenIs, OffsetIs
<1> QED BY <1>3 DEF fb_print_cell, t, fb

(* Pieces of a format whose texts fit a row. *)
Pieces ==
  {p \in [kind : {"char", "number", "newline", "unknown"}, text : Seq(Int)] :
     Len(p.text) <= FB_NUM_COLUMNS /\ (p.kind = "char" => Len(p.text) = 1)}

LEMMA PieceIs ==
  ASSUME NEW old, NEW s \in Screens(old), NEW p \in Pieces, NEW fg \in Int, NEW bg \in Int
  PROVE  PrintPiece(s, p, fg, bg) \in Screens(old)
<1>1. /\ p.kind \in {"char", "number", "newline", "unknown"}
      /\ p.text \in Seq(Int) /\ Len(p.text) <= FB_NUM_COLUMNS
      /\ p.kind = "char" => Len(p.text) = 1
      /\ Len(p.text) <= FB_NUM_COLUMNS + 1
  BY VgaAssumption DEF Pieces
<1>2. ASSUME NEW t \in Screens(old) PROVE fb_print_lstr(t, p.text, fg, bg) \in Screens(old)
  <2>1. t = [cursor |-> t.cursor, crtc |-> t.crtc, fb |-> t.fb]
    BY DEF Screens
  <2>2. t.cursor \in Int /\ t.cursor <= ScreenSize /\ t.fb \in Near(old)
    BY ScreenIs
  <2> QED BY <1>1, <2>1, <2>2, PrintStrIs
<1>3. CASE p.kind = "char"
  <2>1. p.text[1] \in Int
    BY <1>1, <1>3, ElementOfSeq
  <2>2. fb_print_cell(s, p.text[1], fg, bg) \in Screens(old)
    BY <2>1, PrintCellIs
  <2> QED BY <1>3, <2>2 DEF PrintPiece
<1>4. CASE p.kind = "number"
  BY <1>2, <1>4 DEF PrintPiece
<1>5. CASE p.kind = "newline"
  <2>1. fb_offset_cursor(s, FB_NUM_COLUMNS) \in Screens(old)
    BY ScreenIs, OffsetIs, VgaAssumption
  <2>2. 0 \in 0..ScreenSize
    BY SizeBound
  <2>3. NewLine(s, FB_NUM_COLUMNS) \in Screens(old)
    BY <2>1, <2>2, MoveIs DEF NewLine
  <2> QED BY <1>5, <2>3 DEF PrintPiece
<1>6. CASE p.kind = "unknown"
  <2>1. fb_print_cell(s, QuestionMark, fg, bg) \in Screens(old)
    BY PrintCellIs DEF QuestionMark
  <2> QED BY <1>2, <1>6, <2>1 DEF PrintPiece
<1> QED BY <1>1, <1>3, <1>4, <1>5, <1>6


(* A whole format. *)
LEMMA FormatIs ==
  ASSUME NEW old, NEW s \in Screens(old), NEW format \in Seq(Pieces),
         NEW fg \in Int, NEW bg \in Int
  PROVE  fb_fprint_str(s, format, fg, bg) \in Screens(old)
<1> DEFINE n == Len(format)
           Op(x, k) == PrintPiece(x, format[k], fg, bg)
<1>1. ASSUME NEW k \in 1..n, NEW x \in Screens(old) PROVE Op(x, k) \in Screens(old)
  <2>1. format[k] \in Pieces
    BY ElementOfSeq
  <2> QED BY <2>1, PieceIs, Zenon
<1> DEFINE A == Screens(old)
           F(f) == f = [k \in 0..n |-> IF k = 0 THEN s ELSE Op(f[k - 1], k)]
           f == CHOOSE f : F(f)
           step == [k \in 1..n |-> [x \in A |-> Op(x, k)]]
<1>2. fb_fprint_str(s, format, fg, bg) = f[n]
  BY Zenon DEF fb_fprint_str
<1>3. ASSUME NEW k \in 1..n, NEW x \in A
      PROVE  step[k][x] = Op(x, k) /\ step[k][x] \in A
  BY <1>1, Zenon
<1>4. /\ n \in Nat /\ s \in A /\ n \in 0..n /\ 0 \in 0..n
      /\ \A k \in 0..n : k # 0 => k \in 1..n /\ k - 1 \in 0..n
      /\ \A k \in 1..n : k \in 0..n /\ k # 0 /\ k - 1 \in 0..n
  OBVIOUS
<1> HIDE DEF A, step, n, Op
<1>5. Loop(step, A, n)
  BY <1>3, Zenon DEF Loop
<1>6. PICK g : Run(g, s, step, A, n)
  BY <1>4, <1>5, Recursion, Zenon
<1>7. g \in [0..n -> A] /\ g[0] = s /\ \A k \in 1..n : g[k] = step[k][g[k - 1]]
  BY <1>6, Zenon DEF Run
<1>8. ASSUME NEW k \in 0..n PROVE g[k] = IF k = 0 THEN s ELSE Op(g[k - 1], k)
  <2>1. CASE k = 0
    BY <1>7, <2>1, Zenon
  <2>2. CASE k # 0
    <3>1. k \in 1..n /\ k - 1 \in 0..n
      BY <1>4, <2>2, Zenon
    <3>2. g[k - 1] \in A
      BY <1>7, <3>1
    <3> QED BY <1>3, <1>7, <2>2, <3>1, <3>2, Zenon
  <2> QED BY <2>1, <2>2, Zenon
<1>9. g = [k \in 0..n |-> g[k]]
  BY <1>7
<1>10. F(g)
  BY <1>8, <1>9, Zenon
<1> HIDE DEF F
<1>11. F(f)
  BY <1>10, Zenon
<1> HIDE DEF f
<1>12. \A k \in 0..n : f[k] = IF k = 0 THEN s ELSE Op(f[k - 1], k)
  BY <1>11, Zenon DEF F
<1> DEFINE I == [k \in 0..n |-> A]
<1>13. f[0] \in I[0]
  BY <1>4, <1>12, Zenon
<1>14. ASSUME NEW k \in 1..n, f[k - 1] \in I[k - 1] PROVE f[k] \in I[k]
  <2>1. k \in 0..n /\ k # 0 /\ k - 1 \in 0..n
    BY <1>4, Zenon
  <2>2. f[k - 1] \in Screens(old)
    BY <1>14, <2>1, Zenon DEF A
  <2>3. f[k] = Op(f[k - 1], k)
    BY <1>12, <2>1, Zenon
  <2>4. f[k] \in Screens(old)
    BY <1>1, <2>2, <2>3, Zenon
  <2> QED BY <2>1, <2>4, Zenon DEF A
<1> HIDE DEF I
<1>15. \A k \in 0..n : f[k] \in I[k]
  BY <1>4, <1>13, <1>14, Induction
<1>16. f[n] \in A
  BY <1>4, <1>15, Zenon DEF I
<1> QED BY <1>2, <1>16, Zenon DEF A

(* The functions that fill cells. *)
LEMMA ClearIs ==
  ASSUME NEW old, NEW fb \in Near(old), NEW fg \in Int, NEW bg \in Int
  PROVE  fb_clear(fb, fg, bg) \in Near(old)
<1>1. \A k \in Visible : ~Far(k)
  BY SizeBound, VgaAssumption DEF Visible, Far
<1>2. Blank \in Int
  BY DEF Blank
<1> QED BY <1>1, <1>2, AttributeIs, FillNear DEF fb_clear

LEMMA RectIs ==
  ASSUME NEW old, NEW fb \in Near(old), NEW c \in Int, NEW fg \in Int, NEW bg \in Int,
         NEW x \in Nat, NEW y \in Nat, NEW width \in Nat, NEW height \in Nat,
         x + width <= FB_NUM_COLUMNS, y + height <= FB_NUM_ROWS
  PROVE  /\ fb_write_frect(fb, c, x, y, width, height, fg, bg) \in Near(old)
         /\ fb_write_rect(fb, c, x, y, width, height, fg, bg) \in Near(old)
<1>1. ASSUME NEW cx \in 0..(width - 1), NEW cy \in 0..(height - 1)
      PROVE  ~Far(fb_row_column_to_index(x + cx, y + cy))
  <2> DEFINE C == FB_NUM_COLUMNS
             row == y + cy
             col == x + cx
  <2>1. row \in 0..FB_NUM_ROWS /\ col \in Nat /\ col < C /\ C \in Nat /\ C >= 3
    BY VgaAssumption
  <2> HIDE DEF row, col
  <2>2. row * C \in 0..ScreenSize /\ ScreenSize \in Nat
    BY <2>1, RowStart, SizeBound
  <2>3. ~Far(row * C + col)
    BY <2>1, <2>2 DEF Far
  <2> QED BY <2>3 DEF fb_row_column_to_index, row, col
<1>2. \A k \in RectCells(x, y, width, height) : ~Far(k)
  BY <1>1 DEF RectCells
<1>3. \A k \in PerimeterCells(x, y, width, height) : ~Far(k)
  <2> SUFFICES ASSUME NEW k \in PerimeterCells(x, y, width, height) PROVE ~Far(k)
    OBVIOUS
  <2>1. PICK p \in (0..(width - 1)) \X (0..(height - 1)) :
          k = fb_row_column_to_index(x + p[1], y + p[2])
    BY DEF PerimeterCells
  <2>2. p[1] \in 0..(width - 1) /\ p[2] \in 0..(height - 1)
    BY <2>1
  <2> QED BY <1>1, <2>1, <2>2
<1> QED BY <1>2, <1>3, AttributeIs, FillNear DEF fb_write_frect, fb_write_rect


=============================================================================
