------------------------------- MODULE Library -------------------------------
(***************************************************************************)
(* Any sequence of calls of the functions of Strings on one small memory,  *)
(* which begins with zeroes as .bss does, with arguments for which the     *)
(* function stays in it; and page_fault, which puts a message together     *)
(* with strcat and stops the machine.                                      *)
(***************************************************************************)
EXTENDS Strings

CONSTANTS
  Size,       (* bytes of memory                                           *)
  Bytes,      (* the bytes that are stored                                 *)
  Lengths,    (* the lengths with which memset and memmove are called      *)
  Decimals,   (* the ints that int_to_str prints into the memory           *)
  Hexadecimals, (* the ints that int_to_hex prints into it                 *)
  Ints        (* the ints whose printing is checked                        *)

ASSUME LibraryAssumption ==
  /\ Size \in Nat \ {0}
  /\ 0 \in Bytes
  /\ Lengths \subseteq 0..Size
  /\ Decimals \cup Hexadecimals \cup Ints \subseteq LeastInt..(-LeastInt - 1)

(* There is room for the widest number with its sign, and for a null       *)
(* character behind it, as in the buffers of all callers.                  *)
ASSUME RoomAssumption ==
  Len(Digits(-LeastInt - 1)) + 1 < Size /\ Width \div 4 < Size

Memory == 0..(Size - 1)

VARIABLES
  mem,
  message,    (* page_fault's message: the length of the string and the    *)
              (* highest index of the array that was written               *)
  pieces      (* the lengths of the strings that it has yet to append      *)

vars == <<mem, message, pieces>>

MessageSize == 64

(* char message[64] = "Page Fault ( "; *)
NewMessage == [len |-> 13, top |-> MessageSize - 1]

Init ==
  /\ mem = [p \in Memory |-> 0]
  /\ message = NewMessage
  /\ pieces = <<>>

(* Do n bytes from p on lie in memory? *)
Fits(p, n) == p + n <= Size

Disjoint(p, n, q, k) == p + n <= q \/ q + k <= p

(* The addresses from which there is a string. *)
Terminated == {str \in Memory : IsString(mem, str)}

(* Room for n bytes that are apart from a string. *)
RoomApart(n, str) ==
  {out \in Memory : Fits(out, n) /\ Disjoint(out, n, str, strlen(mem, str) + 1)}

Nonempty == {str \in Terminated : mem[str] # 0}

(***************************************************************************)
(* The buffers that a caller of strcat may provide: dest itself or a place *)
(* apart from it, and apart from append, with room for the byte that is    *)
(* cleared last.                                                           *)
(***************************************************************************)
Buffers(dest, append) ==
  LET d == strlen(mem, dest)
      a == strlen(mem, append)
  IN  (RoomApart(d + a + 2, append) \cap RoomApart(d + a + 2, dest))
        \cup ({dest} \cap RoomApart(d + 2 * a + 2, append))

-----------------------------------------------------------------------------
(* Calls.                                                                  *)

(* A call with this effect, while no fault is being handled. *)
Call(m) ==
  /\ message = NewMessage /\ pieces = <<>>
  /\ mem' = m
  /\ UNCHANGED <<message, pieces>>

CallMemset ==
  \E p \in Memory, val \in Bytes, n \in Lengths :
    Fits(p, n) /\ Call(memset(mem, p, val, n))

CallMemmove ==
  \E p, q \in Memory, n \in Lengths :
    Fits(p, n) /\ Fits(q, n) /\ Call(memmove(mem, p, q, n))

CallStrcpy ==
  \E src \in Nonempty : \E dest \in RoomApart(strlen(mem, src), src) :
    Call(strcpy(mem, dest, src))

CallStrslice ==
  \E str \in Terminated : \E from \in 0..strlen(mem, str) :
    \E to \in from..strlen(mem, str) : \E out \in RoomApart(to - from + 2, str) :
      Call(strslice(mem, str, from, to, out))

CallStrcat ==
  \E dest, append \in Nonempty : \E buffer \in Buffers(dest, append) :
    Call(strcat(mem, dest, append, buffer))

CallIntToStr == \E num \in Decimals : Call(int_to_str(mem, num, 0))

CallIntToHex == \E num \in Hexadecimals : Call(int_to_hex(mem, num, 0))

-----------------------------------------------------------------------------
(* page_fault, by lengths.                                                 *)

(* A bit of the error code. *)
Bit(err, n) == (err \div (2 ^ n)) % 2 = 1

(* The codes of faults in ring 0, where all of the kernel runs: bit 2 is   *)
(* clear, and bit 3, a reserved bit set in an entry, implies bit 0.        *)
KernelFaults == {err \in 0..15 : ~Bit(err, 2) /\ (Bit(err, 3) => Bit(err, 0))}

(* Variant: present is bit 0 itself. *)
PiecesOfSetBit(err) ==
  (IF Bit(err, 0) THEN <<8>> ELSE <<>>)
    \o (IF Bit(err, 1) THEN <<10>> ELSE <<>>)
    \o (IF Bit(err, 2) THEN <<10>> ELSE <<>>)
    \o (IF Bit(err, 3) THEN <<9>> ELSE <<>>)
    \o <<7, 8>>

(* The lengths of "present ", "read-only ", "user-mode ", "reserved ",     *)
(* ") at 0x" and the eight hexadecimal digits of the address.              *)
Pieces(err) ==
  (IF Bit(err, 0) THEN <<>> ELSE <<8>>)
    \o (IF Bit(err, 1) THEN <<10>> ELSE <<>>)
    \o (IF Bit(err, 2) THEN <<10>> ELSE <<>>)
    \o (IF Bit(err, 3) THEN <<9>> ELSE <<>>)
    \o <<7, 8>>

(* The array is page_fault's own, so that a fault before all calls stands  *)
(* for all faults.                                                         *)
page_fault ==
  /\ message = NewMessage /\ pieces = <<>>
  /\ \A p \in Memory : mem[p] = 0
  /\ \E err \in KernelFaults : pieces' = Pieces(err)
  /\ UNCHANGED <<mem, message>>

(* strcat(message, piece, message), as in Buffers above: the byte that it  *)
(* clears last is at the old length plus twice the piece's, plus one.      *)
AppendPiece ==
  /\ pieces # <<>>
  /\ LET a == Head(pieces)
     IN  message' = [len |-> message.len + a,
                     top |-> Max({message.top, message.len + 2 * a + 1})]
  /\ pieces' = Tail(pieces)
  /\ UNCHANGED mem

(* PANIC(message) does not return. *)
Panic == pieces = <<>> /\ message # NewMessage /\ UNCHANGED vars

Next ==
  \/ CallMemset \/ CallMemmove
  \/ CallStrcpy \/ CallStrslice \/ CallStrcat
  \/ CallIntToStr \/ CallIntToHex
  \/ page_fault \/ AppendPiece \/ Panic

Spec == Init /\ [][Next]_vars

-----------------------------------------------------------------------------
(* Properties.                                                             *)

StringAt(m, str) == [k \in 1..strlen(m, str) |-> m[str + k - 1]]

(* memmove (common.c:29-46) puts at dest what was at src before the call,  *)
(* however the two overlap, and changes nothing else; and memcmp           *)
(* (common.c:49-60) tells exactly when that is no change.                  *)
MoveIsSimultaneous ==
  \A p, q \in Memory, n \in 0..Size :
    Fits(p, n) /\ Fits(q, n) =>
      LET moved == memmove(mem, p, q, n)
      IN  /\ moved = [a \in Memory |-> IF a - p \in 0..(n - 1) THEN mem[a - p + q]
                                                               ELSE mem[a]]
          /\ (memcmp(mem, p, q, n) = 0) <=> (moved = mem)

(* strcat (string.c:167-172) makes buffer the concatenation of two         *)
(* nonempty strings that were at dest and append, in place too, though it  *)
(* measures dest again after each step, and writes the terminated string   *)
(* and one byte behind it, no more.  Nothing is said of an empty string,   *)
(* with which strw_flo's loop runs on; page_fault, the only caller, never  *)
(* has one.                                                                *)
AppendsInPlace ==
  \A dest, append \in Nonempty :
    \A buffer \in Buffers(dest, append) :
      LET result == strcat(mem, dest, append, buffer)
          both == StringAt(mem, dest) \o StringAt(mem, append)
          last == Len(both) + (IF buffer = dest THEN strlen(mem, append) ELSE 0) + 1
      IN  /\ StringAt(result, buffer) = both
          /\ \A a \in Memory : a - buffer \in 0..Len(both) \cup {last} \/ result[a] = mem[a]

(* fb_fprint_str (vga.c:387-413) slices a hint out of its format and       *)
(* compares it: strcmp finds the slice equal to another string exactly if  *)
(* the characters are.  strslice writes no more than to - from + 2 bytes,  *)
(* but, where the string goes on behind to, the last of them too: one byte *)
(* more than the array has that fb_fprint_str gives it.                    *)
HintsRecognised ==
  \A str \in Terminated : \A from \in 0..strlen(mem, str) :
    \A to \in from..strlen(mem, str) : \A out \in RoomApart(to - from + 2, str) :
      LET result == strslice(mem, str, from, to, out)
          slice == SubSeq(StringAt(mem, str), from + 1, Min({to + 1, strlen(mem, str)}))
      IN  /\ \A a \in Memory : a - out \in 0..(to - from + 1) \/ result[a] = mem[a]
          /\ to < strlen(mem, str) => result[out + to - from + 1] = 0
          /\ \A other \in Terminated :
               out \in RoomApart(to - from + 2, other) =>
                 ((strcmp(result, out, other) = 0) <=> (slice = StringAt(mem, other)))

(* The number that a string of digits denotes in base b. *)
Value(digits, b) ==
  LET DigitOf(c) == IF c >= 65 THEN c - 55 ELSE c - 48
      upto[k \in 0..Len(digits)] ==
        IF k = 0 THEN 0 ELSE b * upto[k - 1] + DigitOf(digits[k])
  IN  upto[Len(digits)]

(* int_to_str (string.c:54-79) writes the decimal of every int.  The least *)
(* one's negation is negative, so that its characters lie as far below '0' *)
(* as they should lie above: counted so they denote the number, but they   *)
(* are no digits.  int_to_hex (string.c:26-44) writes the hexadecimal of   *)
(* every int.  Neither writes behind what its widest number needs.         *)
NumbersPrinted ==
  \A num \in Ints :
    LET dec == int_to_str(mem, num, 0)
        s == StringAt(dec, 0)
        hex == int_to_hex(mem, num, 0)
        h == StringAt(hex, 0)
        widest == Len(Digits(-LeastInt - 1)) + 1
    IN  /\ s # <<>>
        /\ num >= 0 => Value(s, 10) = num /\ (s[1] = 48 => num = 0)
        /\ num < 0 => s[1] = 45 /\ s[2] # 48 /\ Value(Tail(s), 10) = Negated(num)
        /\ \A a \in Memory : a > widest => dec[a] = mem[a]
        /\ Len(h) = Width \div 4 /\ Value(h, 16) = num % Power(2, Width)
        /\ \A a \in Memory : a > Width \div 4 => hex[a] = mem[a]

(* The message of page_fault (paging.c:136-157) fits its 64 bytes for      *)
(* every fault the kernel can cause, with the byte strcat clears behind.   *)
FaultMessageFits == message.top < MessageSize

=============================================================================
