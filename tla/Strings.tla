------------------------------- MODULE Strings -------------------------------
(***************************************************************************)
(* The functions of string.c and of common.c that work on bytes, as        *)
(* operators from memories to memories.  A memory maps addresses 0, 1, ... *)
(* to bytes and a pointer is an address.  A function may read what it has  *)
(* just written (a move onto itself, an append in place), so a copy goes   *)
(* byte by byte here too.                                                  *)
(*                                                                         *)
(* Ints have Width bits.  The build does not optimise, and a negation that *)
(* overflows wraps around.                                                 *)
(***************************************************************************)
EXTENDS Integers, Sequences, FiniteSetsExt

CONSTANT Width   (* the bits of an int, 32 *)

ASSUME WidthAssumption == Width \in Nat \ {0} /\ Width % 4 = 0

(* b ^ n, by its equations, which the provers do not know of ^. *)
Power(b, n) ==
  LET upto[k \in 0..n] == IF k = 0 THEN 1 ELSE b * upto[k - 1]
  IN  upto[n]

LeastInt == -Power(2, Width - 1)

Store(m, p, bytes) ==
  [q \in DOMAIN m |-> IF q - p \in 0..(Len(bytes) - 1) THEN bytes[q - p + 1] ELSE m[q]]

-----------------------------------------------------------------------------
(* Blocks of bytes.                                                        *)

memcpy(m, dest, src, len) ==
  LET after[k \in 0..len] ==
        IF k = 0 THEN m
        ELSE [after[k - 1] EXCEPT ![dest + k - 1] = after[k - 1][src + k - 1]]
  IN  after[len]

memset(m, dest, val, len) ==
  [q \in DOMAIN m |-> IF q - dest \in 0..(len - 1) THEN val ELSE m[q]]

(* The second loop of memmove, from the last byte to the first. *)
CopyBackwards(m, dest, src, count) ==
  LET from[k \in 0..count] ==
        IF k = count THEN m
        ELSE [from[k + 1] EXCEPT ![dest + k] = from[k + 1][src + k]]
  IN  from[0]

(* Variant: the bound of the overlap is one byte off. *)
MoveShortOverlap(m, dest, src, count) ==
  IF dest < src \/ dest >= src + count - 1
    THEN memcpy(m, dest, src, count)
    ELSE CopyBackwards(m, dest, src, count)

memmove(m, dest, src, count) ==
  IF dest < src \/ dest >= src + count
    THEN memcpy(m, dest, src, count)
    ELSE CopyBackwards(m, dest, src, count)

memcmp(m, ptr1, ptr2, count) ==
  LET differ == {k \in 0..(count - 1) : m[ptr1 + k] # m[ptr2 + k]}
  IN  IF differ = {} THEN 0
      ELSE IF m[ptr1 + Min(differ)] < m[ptr2 + Min(differ)] THEN -1 ELSE 1

-----------------------------------------------------------------------------
(* Strings.                                                                *)

(* Is there a null character at str or behind it? *)
IsString(m, str) == \E q \in DOMAIN m : q >= str /\ m[q] = 0

strlen(m, str) == Min({q \in DOMAIN m : q >= str /\ m[q] = 0}) - str

(* Each exchange of the loop is of a pair of its own. *)
strreverse(m, str, length) ==
  [q \in DOMAIN m |-> IF q - str \in 0..(length - 1) THEN m[2 * str + length - 1 - q]
                                                     ELSE m[q]]

(***************************************************************************)
(* The loop ends at the first null character or difference.  It is 1 for   *)
(* strings that differ, whichever is less.                                 *)
(***************************************************************************)
strcmp(m, str1, str2) ==
  LET shorter == Min({strlen(m, str1), strlen(m, str2)})
  IN  IF \E k \in 0..shorter : m[str1 + k] # m[str2 + k] THEN 1 ELSE 0

(* Variant: the slice ends before to. *)
SliceUpTo(m, str, from, to, out) ==
  LET Ends(j) == from + j >= to \/ memcpy(m, out, str + from, j)[str + from + j] = 0
      n == CHOOSE j \in DOMAIN m : Ends(j) /\ \A k \in 0..(j - 1) : ~Ends(k)
  IN  [memcpy(m, out, str + from, n) EXCEPT ![out + n] = 0]

strslice(m, str, from, to, out) ==
  LET Ends(j) == from + j > to \/ memcpy(m, out, str + from, j)[str + from + j] = 0
      n == CHOOSE j \in DOMAIN m : Ends(j) /\ \A k \in 0..(j - 1) : ~Ends(k)
  IN  [memcpy(m, out, str + from, n) EXCEPT ![out + n] = 0]

(* At least one byte, and not the null character. *)
strcpy(m, dest, src) ==
  LET Ends(k) == memcpy(m, dest, src, k)[src + k] = 0
      n == CHOOSE k \in DOMAIN m \ {0} : Ends(k) /\ \A j \in 1..(k - 1) : ~Ends(j)
  IN  memcpy(m, dest, src, n)

(***************************************************************************)
(* For from = 0 only: "while (from);" never ends otherwise.  src goes one  *)
(* back and one forward.  The loop copies at least one byte; with a length *)
(* of 0 it would go on to a pair of null characters.                       *)
(***************************************************************************)
strw_flo(m, dest, src, length, offset) ==
  LET d == dest + offset
      Ends(k) == \/ k = length
                 \/ LET now == memcpy(m, d, src, k)
                    IN  now[src + k] = 0 /\ now[d + k] = 0
      n == CHOOSE k \in DOMAIN m \ {0} : Ends(k) /\ \A j \in 1..(k - 1) : ~Ends(j)
  IN  [memcpy(m, d, src, n) EXCEPT ![d + n] = 0]

(* Variant: append is copied without its null character. *)
CatUnterminated(m, dest, append, buffer) ==
  LET first == strw_flo(m, buffer, dest, strlen(m, dest), 0)
  IN  memcpy(first, buffer + strlen(first, dest), append, strlen(first, append))

(***************************************************************************)
(* If buffer is dest, the last assignment uses the length of what is there *)
(* by then, so that its index counts append twice.                         *)
(***************************************************************************)
strcat(m, dest, append, buffer) ==
  LET first == strw_flo(m, buffer, dest, strlen(m, dest), 0)
      both == strw_flo(first, buffer, append, strlen(first, append), strlen(first, dest))
  IN  [both EXCEPT ![buffer + strlen(both, dest) + strlen(both, append) + 1] = 0]

-----------------------------------------------------------------------------
(* Numbers.                                                                *)

(* -num, which is LeastInt again for LeastInt. *)
Negated(num) == IF num = LeastInt THEN LeastInt ELSE -num

(* C's division by ten: towards zero, with a remainder of num's sign. *)
Quotient(num) == IF num < 0 THEN -((-num) \div 10) ELSE num \div 10

Remainder(num) == num - 10 * Quotient(num)

(* Variant: the loop ends before it has written a digit of 0. *)
DigitsOfNonzero(num) ==
  LET from[n \in LeastInt..(-LeastInt)] ==
        IF n = 0 THEN <<>> ELSE <<48 + Remainder(n)>> \o from[Quotient(n)]
  IN  from[num]

(* The digits from the last to the first, one at least.  '0' is 48. *)
Digits(num) ==
  LET from[n \in LeastInt..(-LeastInt)] ==
        <<48 + Remainder(n)>> \o (IF Quotient(n) = 0 THEN <<>> ELSE from[Quotient(n)])
  IN  from[num]

int_to_str(m, num, buffer) ==
  LET digits == IF num < 0 THEN Append(Digits(Negated(num)), 45) ELSE Digits(num)
  IN  strreverse(Store(m, buffer, Append(digits, 0)), buffer, Len(digits))

(* hexChars *)
HexChar(nibble) == IF nibble < 10 THEN 48 + nibble ELSE 55 + nibble

int_to_hex(m, value, hexString) ==
  LET nibbles == Width \div 4
      uValue == value % Power(2, Width)
      Nibble(i) == (uValue \div Power(16, i)) % 16
  IN  Store(m, hexString,
            Append([k \in 1..nibbles |-> HexChar(Nibble(nibbles - k))], 0))

=============================================================================
