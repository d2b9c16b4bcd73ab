---------------------------- MODULE LibraryProofs ---------------------------
(***************************************************************************)
(* Proofs about the functions of string.c and common.c, for memories of    *)
(* every size with any contents, and about page_fault's message.           *)
(***************************************************************************)
EXTENDS Library, SequenceTheorems, WellFoundedInduction, TLAPS

-----------------------------------------------------------------------------
(* Induction.                                                              *)

(* Every nonempty set of naturals has a least element. *)
LEMMA Least ==
  ASSUME NEW T, T \subseteq Nat, T # {}
  PROVE  \E x \in T : \A y \in T : x <= y
<1> DEFINE R == OpToRel(<, Nat)
<1>1. IsWellFoundedOn(R, Nat)
  BY NatLessThanWellFounded
<1>2. \A x, y \in Nat : <<y, x>> \in R <=> y < x
  BY DEF OpToRel
<1> HIDE DEF R
<1>3. PICK x \in T : \A y \in T : ~(<<y, x>> \in R)
  BY <1>1, WFMin
<1>4. ASSUME NEW y \in T PROVE x <= y
  <2>1. x \in Nat /\ y \in Nat
    BY <1>3
  <2>2. ~(y < x)
    BY <1>2, <1>3, <2>1
  <2> QED BY <2>1, <2>2
<1> QED BY <1>4

(* Induction, with a set for the predicate. *)
LEMMA SetInduction ==
  ASSUME NEW S, 0 \in S, \A n \in Nat : n \in S => n + 1 \in S
  PROVE  Nat \subseteq S
<1> DEFINE T == Nat \ S
<1> SUFFICES ASSUME T # {} PROVE FALSE
  OBVIOUS
<1>1. PICK x \in T : \A y \in T : x <= y
  <2> T \subseteq Nat OBVIOUS
  <2> HIDE DEF T
  <2> QED BY Least
<1>2. x # 0 /\ x - 1 \in Nat
  BY <1>1
<1>3. x - 1 \in S
  BY <1>1, <1>2
<1> QED BY <1>2, <1>3

(* The rounds of a loop: I[k] is what holds after k rounds. *)
LEMMA Induction ==
  ASSUME NEW n \in Nat, NEW f, NEW I, f[0] \in I[0],
         \A k \in 1..n : f[k - 1] \in I[k - 1] => f[k] \in I[k]
  PROVE  \A k \in 0..n : f[k] \in I[k]
<1> DEFINE S == {m \in Nat : m <= n => f[m] \in I[m]}
<1>1. 0 \in S
  OBVIOUS
<1>2. ASSUME NEW m \in Nat, m \in S PROVE m + 1 \in S
  <2>1. CASE m + 1 <= n
    <3>1. m + 1 \in 1..n /\ (m + 1) - 1 = m /\ m <= n
      BY <2>1
    <3>2. f[m] \in I[m]
      BY <1>2, <3>1
    <3>3. f[m + 1] \in I[m + 1]
      BY <3>1, <3>2
    <3> QED BY <3>3
  <2>2. CASE ~(m + 1 <= n)
    BY <2>2
  <2> QED BY <2>1, <2>2
<1> HIDE DEF S
<1>3. Nat \subseteq S
  BY <1>1, <1>2, SetInduction
<1>4. ASSUME NEW k \in 0..n PROVE f[k] \in I[k]
  <2>1. k \in S /\ k <= n
    BY <1>3
  <2> QED BY <2>1 DEF S
<1> QED BY <1>4

-----------------------------------------------------------------------------
(* Copies.                                                                 *)

(* Nothing is known of the bytes: a memory is a function on Memory. *)
IsMemory(m) == m = [a \in Memory |-> m[a]]

(* What n bytes at src put at dest make of m. *)
Copied(m, dest, src, n) ==
  [a \in Memory |-> IF a - dest \in 0..(n - 1) THEN m[a - dest + src] ELSE m[a]]

CopyByte(x, to, from) == [x EXCEPT ![to] = x[from]]

LEMMA SizeIs == Size \in Nat /\ Size >= 1
  BY LibraryAssumption

(* One round of memcpy, in a copy towards lower addresses or away from     *)
(* what is read.                                                           *)
LEMMA CopyRound ==
  ASSUME NEW m, NEW dest \in Nat, NEW src \in Nat, NEW n \in Nat, NEW k \in 1..n,
         dest + n <= Size, src + n <= Size, dest <= src \/ dest >= src + n
  PROVE  CopyByte(Copied(m, dest, src, k - 1), dest + k - 1, src + k - 1)
           = Copied(m, dest, src, k)
<1>0. PICK x : x = Copied(m, dest, src, k - 1)
  OBVIOUS
<1>1. dest + k - 1 \in Memory /\ src + k - 1 \in Memory
  BY SizeIs DEF Memory
<1>2. x[src + k - 1] = m[src + k - 1]
  <2>1. ~((src + k - 1) - dest \in 0..((k - 1) - 1))
    OBVIOUS
  <2> QED BY <1>0, <1>1, <2>1 DEF Copied
<1>3. CopyByte(x, dest + k - 1, src + k - 1)
        = [a \in Memory |-> IF a = dest + k - 1 THEN x[src + k - 1] ELSE x[a]]
  BY <1>0 DEF Copied, CopyByte
<1>4. ASSUME NEW a \in Memory
      PROVE  (IF a = dest + k - 1 THEN x[src + k - 1] ELSE x[a])
                = IF a - dest \in 0..(k - 1) THEN m[a - dest + src] ELSE m[a]
  <2>0. a \in Int
    BY SizeIs DEF Memory
  <2>1. CASE a = dest + k - 1
    <3>1. a - dest \in 0..(k - 1) /\ a - dest + src = src + k - 1
      BY <2>1
    <3> QED BY <1>2, <2>1, <3>1
  <2>2. CASE a # dest + k - 1
    <3>1. a - dest \in 0..((k - 1) - 1) <=> a - dest \in 0..(k - 1)
      BY <2>0, <2>2
    <3>2. x[a] = IF a - dest \in 0..((k - 1) - 1) THEN m[a - dest + src] ELSE m[a]
      BY <1>0 DEF Copied
    <3> QED BY <2>2, <3>1, <3>2, Zenon
  <2> QED BY <2>1, <2>2
<1>5. CopyByte(x, dest + k - 1, src + k - 1) = Copied(m, dest, src, k)
  BY <1>3, <1>4, Zenon DEF Copied
<1> QED BY <1>0, <1>5, Zenon

(* memcpy (common.c:13-18) copies, if it does not overwrite what it has    *)
(* yet to read.                                                            *)
LEMMA MemcpyIs ==
  ASSUME NEW m, IsMemory(m), NEW dest \in Nat, NEW src \in Nat, NEW n \in Nat,
         dest + n <= Size, src + n <= Size, dest <= src \/ dest >= src + n
  PROVE  memcpy(m, dest, src, n) = Copied(m, dest, src, n)
<1> DEFINE F(f) == f = [k \in 0..n |->
                          IF k = 0 THEN m
                          ELSE CopyByte(f[k - 1], dest + k - 1, src + k - 1)]
           f == CHOOSE f : F(f)
           g == [k \in 0..n |-> Copied(m, dest, src, k)]
<1>1. memcpy(m, dest, src, n) = f[n]
  BY Zenon DEF memcpy, CopyByte
<1> HIDE DEF F, f, g
<1>2. \A k \in 0..n : k # 0 => k \in 1..n /\ k - 1 \in 0..n
  OBVIOUS
<1>3. Copied(m, dest, src, 0) = m
  <2>1. 0..(0 - 1) = {}
    OBVIOUS
  <2> QED BY <2>1 DEF Copied, IsMemory
<1>4. ASSUME NEW h, \A k \in 0..n : h[k] = Copied(m, dest, src, k), NEW k \in 1..n
      PROVE  CopyByte(h[k - 1], dest + k - 1, src + k - 1) = Copied(m, dest, src, k)
  <2>1. h[k - 1] = Copied(m, dest, src, k - 1)
    BY <1>4
  <2>2. CopyByte(Copied(m, dest, src, k - 1), dest + k - 1, src + k - 1)
          = Copied(m, dest, src, k)
    BY CopyRound
  <2> QED BY <2>1, <2>2, Zenon
<1>5. F(g)
  <2>1. \A k \in 0..n : g[k] = Copied(m, dest, src, k)
    BY DEF g
  <2>2. ASSUME NEW k \in 0..n
        PROVE  g[k] = IF k = 0 THEN m
                      ELSE CopyByte(g[k - 1], dest + k - 1, src + k - 1)
    <3>1. CASE k = 0
      BY <1>3, <2>1, <3>1
    <3>2. CASE k # 0
      <4>1. k \in 1..n
        BY <3>2
      <4>2. g[k] = CopyByte(g[k - 1], dest + k - 1, src + k - 1)
        BY <1>4, <2>1, <4>1
      <4> QED BY <3>2, <4>2, Zenon
    <3> QED BY <3>1, <3>2
  <2>3. g = [k \in 0..n |-> g[k]]
    BY DEF g
  <2> QED BY <2>2, <2>3, Zenon DEF F
<1>6. F(f)
  BY <1>5, Zenon DEF f
<1>7. \A k \in 0..n : f[k] = IF k = 0 THEN m
                             ELSE CopyByte(f[k - 1], dest + k - 1, src + k - 1)
  BY <1>6, Zenon DEF F
<1> DEFINE I == [k \in 0..n |-> {Copied(m, dest, src, k)}]
<1>8. 0 \in 0..n /\ n \in 0..n
  OBVIOUS
<1>9. f[0] \in I[0]
  BY <1>3, <1>7, <1>8, Zenon
<1>10. ASSUME NEW k \in 1..n, f[k - 1] \in I[k - 1] PROVE f[k] \in I[k]
  <2>1. k \in 0..n /\ k - 1 \in 0..n /\ k # 0
    OBVIOUS
  <2>2. f[k - 1] = Copied(m, dest, src, k - 1)
    BY <1>10, <2>1, Zenon
  <2>3. f[k] = CopyByte(f[k - 1], dest + k - 1, src + k - 1)
    BY <1>7, <2>1, Zenon
  <2>4. f[k] = Copied(m, dest, src, k)
    <3>1. CopyByte(Copied(m, dest, src, k - 1), dest + k - 1, src + k - 1)
            = Copied(m, dest, src, k)
      BY CopyRound
    <3> QED BY <2>2, <2>3, <3>1, Zenon
  <2> QED BY <2>1, <2>4, Zenon
<1> HIDE DEF I
<1>11. \A k \in 0..n : f[k] \in I[k]
  BY <1>9, <1>10, Induction
<1>12. f[n] \in I[n]
  BY <1>8, <1>11, Zenon
<1> QED BY <1>1, <1>8, <1>12, Zenon DEF I

(* The same, of the bytes from the one with number k on only. *)
CopiedFrom(k, m, dest, src, n) ==
  [a \in Memory |-> IF a - dest \in k..(n - 1) THEN m[a - dest + src] ELSE m[a]]

(* One round of memmove's second loop. *)
LEMMA BackwardsRound ==
  ASSUME NEW m, NEW dest \in Nat, NEW src \in Nat, NEW n \in Nat, NEW k \in 0..(n - 1),
         dest + n <= Size, src + n <= Size, dest >= src,
         NEW x, x = CopiedFrom(k + 1, m, dest, src, n)
  PROVE  CopyByte(x, dest + k, src + k) = CopiedFrom(k, m, dest, src, n)
<1>1. dest + k \in Memory /\ src + k \in Memory
  BY SizeIs DEF Memory
<1>2. x[src + k] = m[src + k]
  <2>1. ~((src + k) - dest \in (k + 1)..(n - 1))
    OBVIOUS
  <2> QED BY <1>1, <2>1 DEF CopiedFrom
<1>3. CopyByte(x, dest + k, src + k)
        = [a \in Memory |-> IF a = dest + k THEN x[src + k] ELSE x[a]]
  BY DEF CopiedFrom, CopyByte
<1>4. ASSUME NEW a \in Memory
      PROVE  (IF a = dest + k THEN x[src + k] ELSE x[a])
                = IF a - dest \in k..(n - 1) THEN m[a - dest + src] ELSE m[a]
  <2>0. a \in Int
    BY SizeIs DEF Memory
  <2>1. CASE a = dest + k
    <3>1. a - dest \in k..(n - 1) /\ a - dest + src = src + k
      BY <2>1
    <3> QED BY <1>2, <2>1, <3>1
  <2>2. CASE a # dest + k
    <3>1. a - dest \in (k + 1)..(n - 1) <=> a - dest \in k..(n - 1)
      BY <2>0, <2>2
    <3>2. x[a] = IF a - dest \in (k + 1)..(n - 1) THEN m[a - dest + src] ELSE m[a]
      BY DEF CopiedFrom
    <3> QED BY <2>2, <3>1, <3>2, Zenon
  <2> QED BY <2>1, <2>2
<1> QED BY <1>3, <1>4, Zenon DEF CopiedFrom

(* The second loop of memmove (common.c:37-42) copies towards higher       *)
(* addresses.                                                              *)
LEMMA BackwardsIs ==
  ASSUME NEW m, IsMemory(m), NEW dest \in Nat, NEW src \in Nat, NEW n \in Nat,
         dest + n <= Size, src + n <= Size, dest >= src
  PROVE  CopyBackwards(m, dest, src, n) = Copied(m, dest, src, n)
<1> DEFINE P(k) == CopiedFrom(k, m, dest, src, n)
           F(f) == f = [k \in 0..n |->
                          IF k = n THEN m
                          ELSE CopyByte(f[k + 1], dest + k, src + k)]
           f == CHOOSE f : F(f)
           g == [k \in 0..n |-> P(k)]
<1>1. CopyBackwards(m, dest, src, n) = f[0]
  BY Zenon DEF CopyBackwards, CopyByte
<1> HIDE DEF F, f, g
<1>2. P(n) = m
  <2>1. n..(n - 1) = {}
    OBVIOUS
  <2> QED BY <2>1 DEF IsMemory, CopiedFrom
<1>3. ASSUME NEW k \in 0..(n - 1), NEW x, x = P(k + 1)
      PROVE  CopyByte(x, dest + k, src + k) = P(k)
  BY <1>3, BackwardsRound
<1>4. P(0) = Copied(m, dest, src, n)
  BY DEF Copied, CopiedFrom
<1> HIDE DEF P
<1>5. F(g)
  <2>1. \A k \in 0..n : g[k] = P(k)
    BY DEF g
  <2>2. ASSUME NEW k \in 0..n
        PROVE  g[k] = IF k = n THEN m
                      ELSE CopyByte(g[k + 1], dest + k, src + k)
    <3>1. CASE k = n
      BY <1>2, <2>1, <3>1
    <3>2. CASE k # n
      <4>1. k \in 0..(n - 1) /\ k + 1 \in 0..n
        BY <3>2
      <4>2. g[k] = CopyByte(g[k + 1], dest + k, src + k)
        <5>1. g[k + 1] = P(k + 1) /\ g[k] = P(k)
          BY <2>1, <4>1
        <5> QED BY <1>3, <4>1, <5>1
      <4> QED BY <3>2, <4>2, Zenon
    <3> QED BY <3>1, <3>2
  <2>3. g = [k \in 0..n |-> g[k]]
    BY DEF g
  <2> QED BY <2>2, <2>3, Zenon DEF F
<1>6. F(f)
  BY <1>5, Zenon DEF f
<1>7. \A k \in 0..n : f[k] = IF k = n THEN m
                             ELSE CopyByte(f[k + 1], dest + k, src + k)
  BY <1>6, Zenon DEF F
<1> DEFINE h == [j \in 0..n |-> f[n - j]]
           I == [j \in 0..n |-> {P(n - j)}]
<1>8. h[0] \in I[0]
  <2>1. 0 \in 0..n /\ n \in 0..n /\ n - 0 = n
    OBVIOUS
  <2>2. h[0] = f[n] /\ I[0] = {P(n)}
    BY <2>1
  <2>3. f[n] = m
    BY <1>7, <2>1, Zenon
  <2> QED BY <1>2, <2>2, <2>3, Zenon
<1>9. ASSUME NEW j \in 1..n, h[j - 1] \in I[j - 1] PROVE h[j] \in I[j]
  <2> DEFINE k == n - j
  <2>1. /\ j \in 0..n /\ j - 1 \in 0..n /\ k \in 0..(n - 1) /\ k \in 0..n /\ k # n
        /\ n - (j - 1) = k + 1
    OBVIOUS
  <2> HIDE DEF k
  <2>2. h[j - 1] = f[k + 1] /\ I[j - 1] = {P(k + 1)}
    BY <2>1
  <2>3. h[j] = f[k] /\ I[j] = {P(k)}
    BY <2>1 DEF k
  <2>4. f[k] = CopyByte(f[k + 1], dest + k, src + k)
    BY <1>7, <2>1, Zenon
  <2>5. f[k + 1] = P(k + 1)
    BY <1>9, <2>2
  <2>6. f[k] = P(k)
    BY <1>3, <2>1, <2>4, <2>5
  <2> QED BY <2>3, <2>6
<1> HIDE DEF h, I
<1>10. \A j \in 0..n : h[j] \in I[j]
  BY <1>8, <1>9, Induction
<1>11. h[n] \in I[n] /\ n \in 0..n /\ n - n = 0
  BY <1>10
<1>12. f[0] = P(0)
  BY <1>11 DEF h, I
<1> QED BY <1>1, <1>4, <1>12, Zenon

(* memmove (common.c:29-46) copies however the two blocks overlap. *)
LEMMA MemmoveIs ==
  ASSUME NEW m, IsMemory(m), NEW dest \in Nat, NEW src \in Nat, NEW n \in Nat,
         dest + n <= Size, src + n <= Size
  PROVE  memmove(m, dest, src, n) = Copied(m, dest, src, n)
<1>1. CASE dest < src \/ dest >= src + n
  BY <1>1, MemcpyIs DEF memmove
<1>2. CASE ~(dest < src \/ dest >= src + n)
  <2>1. dest >= src
    BY <1>2
  <2> QED BY <1>2, <2>1, BackwardsIs DEF memmove
<1> QED BY <1>1, <1>2

(* A copy changes nothing exactly if memcmp (common.c:49-60) finds no      *)
(* difference.                                                             *)
LEMMA MemcmpIs ==
  ASSUME NEW m, IsMemory(m), NEW dest \in Nat, NEW src \in Nat, NEW n \in Nat,
         dest + n <= Size, src + n <= Size
  PROVE  (memcmp(m, dest, src, n) = 0) <=> (Copied(m, dest, src, n) = m)
<1> DEFINE differ == {k \in 0..(n - 1) : m[dest + k] # m[src + k]}
<1>1. (memcmp(m, dest, src, n) = 0) <=> differ = {}
  <2> DEFINE less == m[dest + Min(differ)] < m[src + Min(differ)]
  <2>1. memcmp(m, dest, src, n) = IF differ = {} THEN 0 ELSE IF less THEN -1 ELSE 1
    BY Zenon DEF memcmp
  <2> HIDE DEF differ, less
  <2> QED BY <2>1
<1>2. \A k \in 0..(n - 1) : dest + k \in Memory /\ (dest + k) - dest = k /\ k + src = src + k
  BY SizeIs DEF Memory
<1>3. ASSUME differ = {} PROVE Copied(m, dest, src, n) = m
  <2>1. ASSUME NEW a \in Memory
        PROVE  (IF a - dest \in 0..(n - 1) THEN m[a - dest + src] ELSE m[a]) = m[a]
    <3>1. CASE a - dest \in 0..(n - 1)
      <4>1. a \in Int
        BY SizeIs DEF Memory
      <4>2. PICK k \in 0..(n - 1) : k = a - dest
        BY <3>1
      <4>3. m[dest + k] = m[src + k]
        BY <1>3
      <4>4. dest + k = a /\ a - dest + src = src + k
        BY <4>1, <4>2
      <4> QED BY <3>1, <4>3, <4>4
    <3> QED BY <3>1
  <2> QED BY <2>1, Zenon DEF Copied, IsMemory
<1>4. ASSUME Copied(m, dest, src, n) = m PROVE differ = {}
  <2> SUFFICES ASSUME NEW k \in 0..(n - 1) PROVE m[dest + k] = m[src + k]
    OBVIOUS
  <2>1. Copied(m, dest, src, n)[dest + k] = m[k + src]
    <3>1. dest + k \in Memory /\ (dest + k) - dest = k
      BY <1>2
    <3> HIDE <1>4
    <3> QED BY <3>1 DEF Copied
  <2>2. k + src = src + k
    OBVIOUS
  <2> QED BY <1>4, <2>1, <2>2
<1> QED BY <1>1, <1>3, <1>4

-----------------------------------------------------------------------------
(* Strings.                                                                *)

LEMMA MinIs ==
  ASSUME NEW S, S \subseteq Nat, S # {}
  PROVE  Min(S) \in S /\ \A y \in S : Min(S) <= y
<1>1. \E x \in S : \A y \in S : x <= y
  BY Least
<1> QED BY <1>1, Zenon DEF Min

(* There are n characters at str, and a null character behind them. *)
HasLength(m, str, n) ==
  /\ n \in Nat
  /\ str + n \in Memory
  /\ m[str + n] = 0
  /\ \A k \in 0..(n - 1) : m[str + k] # 0

(* strlen counts them, *)
LEMMA StrlenIs ==
  ASSUME NEW m, IsMemory(m), NEW str \in Memory, IsString(m, str)
  PROVE  HasLength(m, str, strlen(m, str))
<1> DEFINE Z == {q \in DOMAIN m : q >= str /\ m[q] = 0}
           z == Min(Z)
<1>1. DOMAIN m = Memory
  BY DEF IsMemory
<1>2. Memory \subseteq Nat /\ str \in Nat
  BY SizeIs DEF Memory
<1>3. Z \subseteq Nat /\ Z # {}
  BY <1>1, <1>2 DEF IsString
<1>4. z \in Z /\ \A y \in Z : z <= y
  <2> HIDE DEF Z
  <2> QED BY <1>3, MinIs
<1>5. strlen(m, str) = z - str
  BY Zenon DEF strlen
<1> HIDE DEF z
<1>6. z \in Memory /\ z \in Nat /\ z >= str /\ m[z] = 0
  BY <1>1, <1>2, <1>4
<1>7. z - str \in Nat /\ str + (z - str) = z
  BY <1>2, <1>6
<1>8. ASSUME NEW k \in 0..((z - str) - 1) PROVE m[str + k] # 0
  <2>1. str + k \in Memory /\ str + k >= str /\ str + k < z
    BY <1>2, <1>6, SizeIs DEF Memory
  <2>2. ~(z <= str + k)
    BY <1>2, <1>6, <2>1
  <2> QED BY <1>1, <1>4, <2>1, <2>2
<1> QED BY <1>5, <1>6, <1>7, <1>8 DEF HasLength

(* and a string has one length only. *)
LEMMA LengthUnique ==
  ASSUME NEW m, IsMemory(m), NEW str \in Memory, NEW n, HasLength(m, str, n)
  PROVE  IsString(m, str) /\ strlen(m, str) = n
<1>1. DOMAIN m = Memory
  BY DEF IsMemory
<1>2. str \in Nat /\ n \in Nat /\ str + n \in Memory /\ m[str + n] = 0 /\ str + n >= str
  BY SizeIs DEF Memory, HasLength
<1>3. IsString(m, str)
  BY <1>1, <1>2 DEF IsString
<1> DEFINE l == strlen(m, str)
<1>4. HasLength(m, str, l)
  BY <1>3, StrlenIs
<1> HIDE DEF l
<1>5. ~(l < n)
  <2>1. l \in Nat /\ m[str + l] = 0
    BY <1>4 DEF HasLength
  <2>2. l < n => l \in 0..(n - 1)
    BY <1>2, <2>1
  <2> QED BY <2>1, <2>2 DEF HasLength
<1>6. ~(n < l)
  <2>1. l \in Nat /\ \A k \in 0..(l - 1) : m[str + k] # 0
    BY <1>4 DEF HasLength
  <2>2. n < l => n \in 0..(l - 1)
    BY <1>2, <2>1
  <2> QED BY <1>2, <2>1, <2>2
<1>7. l = n
  BY <1>2, <1>4, <1>5, <1>6 DEF HasLength
<1> QED BY <1>3, <1>7 DEF l

(* A string whose bytes are left alone is the same string. *)
LEMMA StringKept ==
  ASSUME NEW m, NEW r, IsMemory(r), NEW str \in Memory, NEW n, HasLength(m, str, n),
         \A k \in 0..n : r[str + k] = m[str + k]
  PROVE  IsString(r, str) /\ strlen(r, str) = n
<1>1. HasLength(r, str, n)
  <2>1. n \in Nat /\ n \in 0..n /\ \A k \in 0..(n - 1) : k \in 0..n
    BY DEF HasLength
  <2> QED BY <2>1 DEF HasLength
<1> QED BY <1>1, LengthUnique

(* The first of the numbers that a loop ends with. *)
LEMMA FirstIs ==
  ASSUME NEW S, NEW D, NEW b \in Nat, NEW n \in Nat, n >= b, n \in S, n \in D,
         \A j \in b..(n - 1) : j \notin S, D \subseteq Nat,
         \A k \in D : k >= b
  PROVE  (CHOOSE k \in D : k \in S /\ \A j \in b..(k - 1) : j \notin S) = n
<1> DEFINE Q(k) == k \in D /\ k \in S /\ \A j \in b..(k - 1) : j \notin S
<1>1. Q(n)
  OBVIOUS
<1>2. ASSUME NEW k, Q(k) PROVE k = n
  <2>1. k \in Nat /\ k >= b
    BY <1>2
  <2>2. ~(k < n)
    <3>1. k < n => k \in b..(n - 1)
      BY <2>1
    <3> QED BY <1>2, <3>1
  <2>3. ~(n < k)
    <3>1. n < k => n \in b..(k - 1)
      BY <2>1
    <3> QED BY <1>2, <3>1
  <2> QED BY <2>1, <2>2, <2>3
<1>3. (CHOOSE k : Q(k)) = n
  <2> HIDE DEF Q
  <2> QED BY <1>1, <1>2, Zenon
<1> QED BY <1>3, Zenon

-----------------------------------------------------------------------------
(* What the copying loops of string.c leave.                               *)

(* The byte that a loop looks at next is one that it has not overwritten.  *)
LEMMA ReadsAhead ==
  ASSUME NEW m, IsMemory(m), NEW d \in Nat, NEW src \in Nat, NEW n \in Nat,
         d + n <= Size, src + n \in Memory, d <= src \/ d > src + n
  PROVE  \A k \in 0..n : memcpy(m, d, src, k)[src + k] = m[src + k]
<1> SUFFICES ASSUME NEW k \in 0..n PROVE memcpy(m, d, src, k)[src + k] = m[src + k]
  OBVIOUS
<1>1. k \in Nat /\ d + k <= Size /\ src + k <= Size /\ (d <= src \/ d >= src + k)
  BY SizeIs DEF Memory
<1>2. memcpy(m, d, src, k) = Copied(m, d, src, k)
  BY <1>1, MemcpyIs
<1>3. src + k \in Memory /\ ~((src + k) - d \in 0..(k - 1))
  BY <1>1, SizeIs DEF Memory
<1>4. Copied(m, d, src, k)[src + k] = m[src + k]
  BY <1>3 DEF Copied
<1> QED BY <1>2, <1>4

(* strcpy (string.c:124-132) copies the characters without the null        *)
(* character.                                                              *)
LEMMA StrcpyIs ==
  ASSUME NEW m, IsMemory(m), NEW d \in Nat, NEW src \in Nat, NEW n,
         HasLength(m, src, n), n >= 1, d + n <= Size, d <= src \/ d > src + n
  PROVE  strcpy(m, d, src) = Copied(m, d, src, n)
<1> DEFINE S == {k \in Nat : memcpy(m, d, src, k)[src + k] = 0}
           D == DOMAIN m \ {0}
           c == CHOOSE k \in D : k \in S /\ \A j \in 1..(k - 1) : j \notin S
<1>1. n \in Nat /\ src + n \in Memory /\ m[src + n] = 0 /\ \A k \in 0..(n - 1) : m[src + k] # 0
  BY DEF HasLength
<1>2. D \subseteq Nat /\ n \in D /\ \A k \in D : k >= 1
  <2>1. DOMAIN m = 0..(Size - 1)
    BY DEF IsMemory, Memory
  <2> QED BY <1>1, <2>1, SizeIs DEF Memory
<1>3. \A k \in 0..n : memcpy(m, d, src, k)[src + k] = m[src + k]
  <2>1. n \in Nat /\ src + n \in Memory
    BY <1>1
  <2> QED BY <2>1, ReadsAhead
<1>4. n \in S
  BY <1>1, <1>3
<1>5. \A j \in 1..(n - 1) : j \notin S
  <2>1. \A j \in 1..(n - 1) : j \in 0..(n - 1) /\ j \in 0..n
    BY <1>1
  <2> QED BY <1>1, <1>3, <2>1
<1>6. strcpy(m, d, src) = memcpy(m, d, src, c)
  <2>1. \A k \in D : (k \in S /\ \A j \in 1..(k - 1) : j \notin S)
                       <=> (/\ memcpy(m, d, src, k)[src + k] = 0
                            /\ \A j \in 1..(k - 1) : ~(memcpy(m, d, src, j)[src + j] = 0))
    <3>1. \A k \in D : \A j \in 1..(k - 1) : j \in Nat
      OBVIOUS
    <3> QED BY <1>2, <3>1, Zenon
  <2>2. c = CHOOSE k \in D : /\ memcpy(m, d, src, k)[src + k] = 0
                             /\ \A j \in 1..(k - 1) : ~(memcpy(m, d, src, j)[src + j] = 0)
    BY <2>1, Zenon
  <2> QED BY <2>2, Zenon DEF strcpy
<1> HIDE DEF S, D
<1>7. c = n
  BY <1>1, <1>2, <1>4, <1>5, FirstIs
<1>8. memcpy(m, d, src, n) = Copied(m, d, src, n)
  <2>1. src + n <= Size /\ (d <= src \/ d >= src + n)
    BY <1>1, SizeIs DEF Memory
  <2> QED BY <1>1, <2>1, MemcpyIs
<1> QED BY <1>6, <1>7, <1>8, Zenon

Cleared(x, p) == [x EXCEPT ![p] = 0]

(* n bytes of src and a null character, at d. *)
Put(m, d, src, n) == Cleared(Copied(m, d, src, n), d + n)

PutByte(m, d, src, n, a) ==
  IF a = d + n THEN 0 ELSE IF a - d \in 0..(n - 1) THEN m[a - d + src] ELSE m[a]

LEMMA PutIs ==
  ASSUME NEW m, NEW d \in Nat, NEW src \in Nat, NEW n \in Nat, d + n \in Memory
  PROVE  /\ IsMemory(Put(m, d, src, n))
         /\ \A a \in Memory : Put(m, d, src, n)[a] = PutByte(m, d, src, n, a)
<1>1. Put(m, d, src, n)
        = [a \in Memory |-> IF a = d + n THEN 0
                            ELSE IF a - d \in 0..(n - 1) THEN m[a - d + src] ELSE m[a]]
  BY DEF Put, Cleared, Copied
<1> QED BY <1>1, Zenon DEF IsMemory, PutByte

(* strw_flo (string.c:142-163) copies length characters and terminates     *)
(* them, if length is that of the string.                                  *)
LEMMA StrwFloIs ==
  ASSUME NEW m, IsMemory(m), NEW dest, NEW offset, dest + offset \in Nat, NEW src \in Nat,
         NEW n, HasLength(m, src, n), n >= 1, dest + offset + n \in Memory,
         dest + offset <= src \/ dest + offset > src + n
  PROVE  strw_flo(m, dest, src, n, offset) = Put(m, dest + offset, src, n)
<1> DEFINE d == dest + offset
           E(k) == \/ k = n
                   \/ memcpy(m, d, src, k)[src + k] = 0 /\ memcpy(m, d, src, k)[d + k] = 0
           S == {k \in Nat : E(k)}
           D == DOMAIN m \ {0}
           c == CHOOSE k \in D : k \in S /\ \A j \in 1..(k - 1) : j \notin S
<1>1. n \in Nat /\ src + n \in Memory /\ m[src + n] = 0 /\ \A k \in 0..(n - 1) : m[src + k] # 0
  BY DEF HasLength
<1>2. D \subseteq Nat /\ n \in D /\ \A k \in D : k >= 1
  <2>1. DOMAIN m = 0..(Size - 1)
    BY DEF IsMemory, Memory
  <2> QED BY <1>1, <2>1, SizeIs DEF Memory
<1>0. d \in Nat /\ d + n <= Size /\ (d <= src \/ d > src + n)
  <2>1. d + n \in 0..(Size - 1)
    BY DEF Memory
  <2> QED BY <1>1, <2>1, SizeIs
<1>3. \A k \in 0..n : memcpy(m, d, src, k)[src + k] = m[src + k]
  <2>1. n \in Nat /\ src + n \in Memory
    BY <1>1
  <2> HIDE DEF d
  <2> QED BY <1>0, <2>1, ReadsAhead
<1>4. n \in S
  BY <1>1
<1>5. \A j \in 1..(n - 1) : j \notin S
  <2>1. \A j \in 1..(n - 1) : j \in 0..(n - 1) /\ j \in 0..n /\ j # n
    BY <1>1
  <2> HIDE DEF d
  <2> QED BY <1>1, <1>3, <2>1
<1>6. strw_flo(m, dest, src, n, offset) = Cleared(memcpy(m, d, src, c), d + c)
  <2>1. \A k \in D : (k \in S /\ \A j \in 1..(k - 1) : j \notin S)
                       <=> (E(k) /\ \A j \in 1..(k - 1) : ~E(j))
    <3>1. \A k \in D : \A j \in 1..(k - 1) : j \in Nat
      OBVIOUS
    <3> HIDE DEF E, D
    <3> QED BY <1>2, <3>1, Zenon
  <2>2. c = CHOOSE k \in D : E(k) /\ \A j \in 1..(k - 1) : ~E(j)
    <3> HIDE DEF E, D, S
    <3> QED BY <2>1, Zenon
  <2> QED BY <2>2, Zenon DEF strw_flo, Cleared
<1> HIDE DEF S, D, d
<1>7. c = n
  BY <1>1, <1>2, <1>4, <1>5, FirstIs
<1>8. memcpy(m, d, src, n) = Copied(m, d, src, n)
  <2>1. src + n <= Size /\ (d <= src \/ d >= src + n)
    BY <1>0, <1>1, SizeIs DEF Memory
  <2> QED BY <1>0, <1>1, <2>1, MemcpyIs
<1> QED BY <1>6, <1>7, <1>8, Zenon DEF Put, d

(* The number of characters of a slice: to is the last one's index, or     *)
(* that of the null character.                                             *)
SliceLength(from, to, length) == IF to < length THEN to - from + 1 ELSE length - from

(* strslice (string.c:87-97) copies these and terminates them. *)
LEMMA StrsliceIs ==
  ASSUME NEW m, IsMemory(m), NEW str \in Nat, NEW l, HasLength(m, str, l),
         NEW from \in 0..l, NEW to \in from..l, NEW out \in Nat,
         out + (to - from + 2) <= Size,
         out + (to - from + 2) <= str \/ str + (l + 1) <= out
  PROVE  strslice(m, str, from, to, out) = Put(m, out, str + from, SliceLength(from, to, l))
<1> DEFINE src == str + from
           n == SliceLength(from, to, l)
           E(j) == from + j > to \/ memcpy(m, out, src, j)[src + j] = 0
           S == {k \in Nat : E(k)}
           D == DOMAIN m
           c == CHOOSE k \in D : k \in S /\ \A j \in 0..(k - 1) : j \notin S
<1>1. l \in Nat /\ str + l \in Memory /\ m[str + l] = 0 /\ \A k \in 0..(l - 1) : m[str + k] # 0
  BY DEF HasLength
<1>2. from \in Nat /\ to \in Nat /\ from <= to /\ to <= l
  BY <1>1
<1>3. /\ n \in Nat /\ src \in Nat /\ from + n <= l /\ n <= to - from + 1
      /\ src + n \in Memory /\ out + n <= Size /\ (out <= src \/ out > src + n)
      /\ (n = to - from + 1 \/ from + n = l)
  BY <1>1, <1>2, SizeIs DEF SliceLength, Memory
<1>4. \A k \in 0..n : memcpy(m, out, src, k)[src + k] = m[src + k]
  <2> HIDE DEF src, n
  <2> QED BY <1>3, ReadsAhead
<1>5. n \in S
  <2>1. CASE n = to - from + 1
    <3>1. from + n > to
      BY <1>2, <1>3, <2>1
    <3> HIDE DEF n
    <3> QED BY <1>3, <3>1
  <2>2. CASE from + n = l
    <3>1. m[src + n] = 0
      <4>1. src + n = str + l
        BY <1>1, <1>2, <1>3, <2>2
      <4> QED BY <1>1, <4>1
    <3>2. n \in 0..n
      BY <1>3
    <3> HIDE DEF n, src
    <3> QED BY <1>3, <1>4, <3>1, <3>2
  <2> QED BY <1>3, <2>1, <2>2
<1>6. \A j \in 0..(n - 1) : j \notin S
  <2> SUFFICES ASSUME NEW j \in 0..(n - 1) PROVE ~E(j)
    OBVIOUS
  <2>1. j \in 0..n /\ from + j \in 0..(l - 1) /\ ~(from + j > to) /\ src + j = str + (from + j)
    BY <1>1, <1>2, <1>3
  <2>2. m[src + j] # 0
    BY <1>1, <2>1
  <2> HIDE DEF n, src
  <2> QED BY <1>4, <2>1, <2>2
<1>7. strslice(m, str, from, to, out) = Cleared(memcpy(m, out, src, c), out + c)
  <2>0. D \subseteq Nat
    BY SizeIs DEF IsMemory, Memory
  <2>1. \A k \in D : (k \in S /\ \A j \in 0..(k - 1) : j \notin S)
                       <=> (E(k) /\ \A j \in 0..(k - 1) : ~E(j))
    <3>1. \A k \in D : \A j \in 0..(k - 1) : j \in Nat
      OBVIOUS
    <3> HIDE DEF E, D
    <3> QED BY <2>0, <3>1, Zenon
  <2>2. c = CHOOSE k \in D : E(k) /\ \A j \in 0..(k - 1) : ~E(j)
    <3> HIDE DEF E, D, S
    <3> QED BY <2>1, Zenon
  <2> QED BY <2>2, Zenon DEF strslice, Cleared
<1>8. n \in D /\ D \subseteq Nat /\ \A k \in D : k >= 0
  <2>1. D = 0..(Size - 1)
    BY DEF IsMemory, Memory
  <2>2. n \in 0..(Size - 1)
    BY <1>3, SizeIs DEF Memory
  <2> HIDE DEF n
  <2> QED BY <2>1, <2>2, SizeIs
<1> HIDE DEF S, D, n, src
<1>9. c = n
  BY <1>3, <1>5, <1>6, <1>8, FirstIs
<1>10. memcpy(m, out, src, n) = Copied(m, out, src, n)
  <2>1. src + n <= Size /\ (out <= src \/ out >= src + n)
    BY <1>3, SizeIs DEF Memory
  <2> QED BY <1>3, <2>1, MemcpyIs
<1> QED BY <1>7, <1>9, <1>10, Zenon DEF Put, src, n

(* What is put apart from a string leaves it as it is. *)
LEMMA PutKeeps ==
  ASSUME NEW m, NEW d \in Nat, NEW src \in Nat, NEW k \in Nat, d + k \in Memory,
         NEW str \in Nat, NEW n, HasLength(m, str, n), d + k < str \/ str + n < d
  PROVE  HasLength(Put(m, d, src, k), str, n)
<1> DEFINE r == Put(m, d, src, k)
<1>1. n \in Nat /\ str + n \in Memory
  BY DEF HasLength
<1>0. \A a \in Memory : r[a] = PutByte(m, d, src, k, a)
  BY PutIs
<1>2. ASSUME NEW j \in 0..n PROVE r[str + j] = m[str + j]
  <2>1. /\ str + j \in Memory /\ str + j # d + k
        /\ ~((str + j) - d \in 0..(k - 1))
    BY <1>1, SizeIs DEF Memory
  <2> HIDE DEF r
  <2> QED BY <1>0, <2>1 DEF PutByte
<1>3. n \in 0..n /\ \A j \in 0..(n - 1) : j \in 0..n
  BY <1>1
<1> HIDE DEF r
<1>4. HasLength(r, str, n)
  BY <1>2, <1>3 DEF HasLength
<1> QED BY <1>4 DEF r

(* The first loop of strcat, onto itself or apart. *)
LEMMA FirstPart ==
  ASSUME NEW m, IsMemory(m), NEW dest \in Nat, NEW buffer \in Nat, NEW l,
         HasLength(m, dest, l), l >= 1, buffer + l \in Memory,
         buffer = dest \/ buffer + l < dest \/ dest + l < buffer
  PROVE  /\ strw_flo(m, buffer, dest, l, 0) = Put(m, buffer, dest, l)
         /\ HasLength(Put(m, buffer, dest, l), dest, l)
<1>1. l \in Nat /\ dest + l \in Memory /\ m[dest + l] = 0
  BY DEF HasLength
<1>2. strw_flo(m, buffer, dest, l, 0) = Put(m, buffer, dest, l)
  <2>0. PICK z : z = 0
    OBVIOUS
  <2>1. buffer + z = buffer /\ (buffer <= dest \/ buffer > dest + l)
    BY <1>1, <2>0
  <2>2. /\ buffer + z \in Nat /\ buffer + z + l \in Memory
        /\ (buffer + z <= dest \/ buffer + z > dest + l)
    BY <2>1
  <2>3. strw_flo(m, buffer, dest, l, z) = Put(m, buffer + z, dest, l)
    BY <2>2, StrwFloIs
  <2> QED BY <2>0, <2>1, <2>3, Zenon
<1>3. CASE buffer = dest
  <2> DEFINE r == Put(m, buffer, dest, l)
  <2>0. \A a \in Memory : r[a] = PutByte(m, buffer, dest, l, a)
    BY <1>1, PutIs
  <2>1. ASSUME NEW k \in 0..l PROVE r[dest + k] = m[dest + k]
    <3>1. /\ dest + k \in Memory
          /\ (dest + k = buffer + l => k = l)
          /\ (dest + k) - buffer + dest = dest + k
      BY <1>1, <1>3, SizeIs DEF Memory
    <3> HIDE DEF r
    <3> QED BY <1>1, <2>0, <3>1 DEF PutByte
  <2>2. l \in 0..l /\ \A j \in 0..(l - 1) : j \in 0..l
    BY <1>1
  <2> HIDE DEF r
  <2>3. HasLength(r, dest, l)
    BY <2>1, <2>2 DEF HasLength
  <2> QED BY <1>2, <2>3 DEF r
<1>4. CASE buffer + l < dest \/ dest + l < buffer
  BY <1>1, <1>2, <1>4, PutKeeps
<1> QED BY <1>3, <1>4

(* A byte of the two strings with a null character. *)
BothByte(m, dest, l, append, k, buffer, a) ==
  IF a - buffer \in 0..(l - 1) THEN m[a - buffer + dest]
  ELSE IF a - buffer \in l..(l + k - 1) THEN m[a - buffer - l + append]
  ELSE IF a - buffer = l + k THEN 0 ELSE m[a]

(* What strcat leaves, with a second byte cleared. *)
Appended(m, dest, l, append, k, buffer, last) ==
  [a \in Memory |-> IF a = buffer + last THEN 0
                    ELSE BothByte(m, dest, l, append, k, buffer, a)]

(* The second loop, whose result ends the first string's copy. *)
LEMMA BothParts ==
  ASSUME NEW m, NEW dest \in Nat, NEW append \in Nat, NEW buffer \in Nat,
         NEW l \in Nat, NEW k \in Nat, k >= 1, l >= 1,
         HasLength(m, append, k), (buffer + l) + k \in Memory,
         append + k < buffer \/ (buffer + l) + k < append
  PROVE  LET first == Put(m, buffer, dest, l)
             both == Put(first, buffer + l, append, k)
         IN  /\ IsMemory(first)
             /\ IsMemory(both)
             /\ HasLength(first, append, k)
             /\ strw_flo(first, buffer, append, k, l) = both
             /\ HasLength(both, append, k)
             /\ \A a \in Memory : both[a] = BothByte(m, dest, l, append, k, buffer, a)
<1> DEFINE first == Put(m, buffer, dest, l)
           both == Put(first, buffer + l, append, k)
<1>1. buffer + l \in Nat /\ buffer + l \in Memory
  BY SizeIs DEF Memory
<1>2. IsMemory(first) /\ \A a \in Memory : first[a] = PutByte(m, buffer, dest, l, a)
  BY <1>1, PutIs
<1>3. HasLength(first, append, k)
  <2>1. buffer + l < append \/ append + k < buffer
    BY SizeIs
  <2> QED BY <1>1, <2>1, PutKeeps
<1> HIDE DEF first
<1>4. strw_flo(first, buffer, append, k, l) = both
  <2>1. buffer + l <= append \/ buffer + l > append + k
    BY SizeIs
  <2>2. IsMemory(first)
    BY <1>2
  <2>3. PICK o : o = l
    OBVIOUS
  <2>4. /\ buffer + o \in Nat /\ buffer + o + k \in Memory
        /\ (buffer + o <= append \/ buffer + o > append + k)
    BY <1>1, <2>1, <2>3
  <2>5. strw_flo(first, buffer, append, k, o) = Put(first, buffer + o, append, k)
    <3> HIDE <2>3
    <3> QED BY <1>3, <2>2, <2>4, StrwFloIs
  <2> QED BY <2>3, <2>5, Zenon
<1>5. IsMemory(both) /\ \A a \in Memory : both[a] = PutByte(first, buffer + l, append, k, a)
  BY <1>1, PutIs
<1>6. HasLength(both, append, k)
  <2>1. (buffer + l) + k < append \/ append + k < buffer + l
    BY SizeIs
  <2> QED BY <1>1, <1>3, <2>1, PutKeeps
<1> HIDE DEF both
<1>7. ASSUME NEW a \in Memory
      PROVE  both[a] = IF a - buffer \in 0..(l - 1) THEN m[a - buffer + dest]
                  ELSE IF a - buffer \in l..(l + k - 1) THEN m[a - buffer - l + append]
                  ELSE IF a - buffer = l + k THEN 0 ELSE m[a]
  <2>0. a \in Nat
    BY SizeIs DEF Memory
  <2>1. both[a] = IF a = (buffer + l) + k THEN 0
                  ELSE IF a - (buffer + l) \in 0..(k - 1) THEN first[a - (buffer + l) + append]
                  ELSE first[a]
    BY <1>5 DEF PutByte
  <2>2. CASE a - buffer \in 0..(l - 1)
    <3>1. /\ a # (buffer + l) + k /\ ~(a - (buffer + l) \in 0..(k - 1))
          /\ a # buffer + l
      BY <2>0, <2>2
    <3>2. first[a] = m[a - buffer + dest]
      BY <1>2, <2>2, <3>1 DEF PutByte
    <3> QED BY <2>1, <2>2, <3>1, <3>2
  <2>3. CASE a - buffer \in l..(l + k - 1)
    <3> DEFINE b == a - buffer - l + append
    <3>1. /\ a # (buffer + l) + k /\ a - (buffer + l) \in 0..(k - 1)
          /\ ~(a - buffer \in 0..(l - 1)) /\ a - (buffer + l) + append = b
          /\ b \in Memory /\ b # buffer + l /\ ~(b - buffer \in 0..(l - 1))
      <4>1. append + k \in Memory
        BY DEF HasLength
      <4>2. a - buffer - l \in 0..(k - 1)
        BY <2>0, <2>3
      <4> QED BY <2>0, <2>3, <4>1, <4>2, SizeIs DEF Memory
    <3> HIDE DEF b
    <3>2. first[b] = m[b]
      BY <1>2, <3>1 DEF PutByte
    <3> QED BY <2>1, <2>3, <3>1, <3>2 DEF b
  <2>4. CASE a - buffer = l + k
    <3>1. a = (buffer + l) + k /\ ~(a - buffer \in 0..(l - 1)) /\ ~(a - buffer \in l..(l + k - 1))
      BY <2>0, <2>4
    <3> QED BY <2>1, <2>4, <3>1
  <2>5. CASE /\ ~(a - buffer \in 0..(l - 1)) /\ ~(a - buffer \in l..(l + k - 1))
             /\ a - buffer # l + k
    <3>1. a # (buffer + l) + k /\ ~(a - (buffer + l) \in 0..(k - 1)) /\ a # buffer + l
      BY <2>0, <2>5
    <3>2. first[a] = m[a]
      BY <1>2, <2>5, <3>1 DEF PutByte
    <3> QED BY <2>1, <2>5, <3>1, <3>2
  <2> QED BY <2>2, <2>3, <2>4, <2>5, Zenon
<1>8. ASSUME NEW a \in Memory PROVE both[a] = BothByte(m, dest, l, append, k, buffer, a)
  BY <1>7, Zenon DEF BothByte
<1> QED BY <1>2, <1>3, <1>4, <1>5, <1>6, <1>8 DEF first, both

(* Buffers, by addresses: the last byte that is cleared is buffer + last. *)
CatRoom(dest, l, append, k, buffer, last) ==
  /\ buffer + last \in Memory
  /\ buffer + last < append \/ append + k < buffer
  /\ \/ last = l + k + 1 /\ (buffer + last < dest \/ dest + l < buffer)
     \/ last = l + 2 * k + 1 /\ buffer = dest

(* strcat (string.c:167-172) leaves both strings, and the cleared bytes. *)
LEMMA StrcatIs ==
  ASSUME NEW m, IsMemory(m), NEW dest \in Memory, NEW append \in Memory, NEW buffer \in Memory,
         NEW l \in Nat, NEW k \in Nat, NEW last, k >= 1, l >= 1,
         HasLength(m, dest, l), HasLength(m, append, k),
         CatRoom(dest, l, append, k, buffer, last)
  PROVE  strcat(m, dest, append, buffer) = Appended(m, dest, l, append, k, buffer, last)
<1> DEFINE first == Put(m, buffer, dest, l)
           both == Put(first, buffer + l, append, k)
<1>1. /\ dest \in Nat /\ append \in Nat /\ buffer \in Nat /\ last \in Nat
      /\ last >= l + k + 1 /\ buffer + last \in Memory
  BY SizeIs DEF Memory, CatRoom
<1>2. /\ (buffer + l) + k \in Memory /\ buffer + l \in Memory
      /\ append + k < buffer \/ (buffer + l) + k < append
      /\ buffer = dest \/ buffer + l < dest \/ dest + l < buffer
  BY <1>1, SizeIs DEF Memory, CatRoom
<1>3. /\ IsMemory(first) /\ IsMemory(both)
      /\ HasLength(first, append, k) /\ HasLength(both, append, k)
      /\ strw_flo(first, buffer, append, k, l) = both
  BY <1>1, <1>2, BothParts
<1>4. \A a \in Memory : both[a] = BothByte(m, dest, l, append, k, buffer, a)
  BY <1>1, <1>2, BothParts
<1>5. strw_flo(m, buffer, dest, l, 0) = first /\ HasLength(first, dest, l)
  BY <1>1, <1>2, FirstPart
<1>6. strlen(m, dest) = l
  BY LengthUnique
<1>7. strlen(first, append) = k /\ strlen(first, dest) = l /\ strlen(both, append) = k
  <2> HIDE DEF first, both
  <2> QED BY <1>3, <1>5, LengthUnique
<1>8. buffer + strlen(both, dest) + k + 1 = buffer + last
  <2>1. CASE last = l + k + 1 /\ (buffer + last < dest \/ dest + l < buffer)
    <3>1. (buffer + l) + k < dest \/ dest + l < buffer + l
      BY <1>1, <2>1
    <3>2. HasLength(both, dest, l)
      <4> HIDE DEF first
      <4> QED BY <1>1, <1>2, <1>5, <3>1, PutKeeps
    <3> HIDE DEF both
    <3>3. strlen(both, dest) = l
      BY <1>3, <3>2, LengthUnique
    <3> QED BY <1>1, <2>1, <3>3
  <2>2. CASE last = l + 2 * k + 1 /\ buffer = dest
    <3> HIDE DEF both, first
    <3>1. dest + (l + k) \in Memory /\ l + k \in Nat
      BY <1>1, <1>2, <2>2
    <3>2. both[dest + (l + k)] = 0
      <4>1. /\ (dest + (l + k)) - buffer = l + k
            /\ ~((dest + (l + k)) - buffer \in 0..(l - 1))
            /\ ~((dest + (l + k)) - buffer \in l..(l + k - 1))
        BY <1>1, <2>2
      <4> QED BY <1>4, <3>1, <4>1, Zenon DEF BothByte
    <3>3. ASSUME NEW j \in 0..((l + k) - 1) PROVE both[dest + j] # 0
      <4>1. dest + j \in Memory /\ (dest + j) - buffer = j
        BY <1>1, <1>2, <2>2, SizeIs DEF Memory
      <4>2. both[dest + j] =
              IF j \in 0..(l - 1) THEN m[j + dest]
              ELSE IF j \in l..(l + k - 1) THEN m[j - l + append]
              ELSE IF j = l + k THEN 0 ELSE m[dest + j]
        BY <1>4, <4>1 DEF BothByte
      <4>3. CASE j \in 0..(l - 1)
        <5>1. m[dest + j] # 0 /\ j + dest = dest + j
          BY <1>1, <4>3 DEF HasLength
        <5> QED BY <4>2, <4>3, <5>1
      <4>4. CASE ~(j \in 0..(l - 1))
        <5>1. j - l \in 0..(k - 1) /\ j \in l..(l + k - 1)
          BY <4>4
        <5>2. m[append + (j - l)] # 0 /\ append + (j - l) = j - l + append
          BY <1>1, <5>1 DEF HasLength
        <5> QED BY <4>2, <4>4, <5>1, <5>2
      <4> QED BY <4>3, <4>4
    <3>4. HasLength(both, dest, l + k)
      BY <3>1, <3>2, <3>3 DEF HasLength
    <3>5. strlen(both, dest) = l + k
      BY <1>3, <3>4, LengthUnique
    <3> QED BY <1>1, <2>2, <3>5
  <2> QED BY <2>1, <2>2 DEF CatRoom
<1> DEFINE p == buffer + strlen(both, dest) + k + 1
<1>9. strcat(m, dest, append, buffer) = Cleared(both, p)
  <2>1. strcat(m, dest, append, buffer)
          = Cleared(both, buffer + strlen(both, dest) + strlen(both, append) + 1)
    <3> HIDE DEF first, both
    <3> QED BY <1>3, <1>5, <1>6, <1>7, Zenon DEF strcat, Cleared
  <2> HIDE DEF first, both
  <2> QED BY <1>7, <2>1, Zenon
<1> HIDE DEF first, both, p
<1>10. ASSUME NEW a \in Memory
       PROVE  Cleared(both, buffer + last)[a]
                = Appended(m, dest, l, append, k, buffer, last)[a]
  BY <1>3, <1>4 DEF Cleared, Appended, IsMemory
<1>11. Cleared(both, buffer + last) = Appended(m, dest, l, append, k, buffer, last)
  <2>1. Cleared(both, buffer + last) = [a \in Memory |-> Cleared(both, buffer + last)[a]]
    BY <1>3 DEF Cleared, IsMemory
  <2>2. Appended(m, dest, l, append, k, buffer, last)
          = [a \in Memory |-> Appended(m, dest, l, append, k, buffer, last)[a]]
    BY DEF Appended
  <2> QED BY <1>10, <2>1, <2>2, Zenon
<1> QED BY <1>8, <1>9, <1>11, Zenon DEF p

-----------------------------------------------------------------------------
(* The properties, of every memory.                                        *)

(* A string as a sequence. *)
LEMMA StringAtIs ==
  ASSUME NEW m, IsMemory(m), NEW str \in Memory, NEW n \in Nat, HasLength(m, str, n),
         NEW S, \A a \in Memory : m[a] \in S
  PROVE  /\ StringAt(m, str) \in Seq(S)
         /\ Len(StringAt(m, str)) = n
         /\ \A i \in 1..n : StringAt(m, str)[i] = m[str + i - 1]
<1>1. strlen(m, str) = n
  BY LengthUnique
<1> DEFINE s == [i \in 1..n |-> m[str + i - 1]]
<1>2. StringAt(m, str) = s
  BY <1>1, Zenon DEF StringAt
<1>3. str \in Nat /\ str + n \in Memory
  BY SizeIs DEF Memory, HasLength
<1>4. \A i \in 1..n : str + i - 1 \in Memory
  BY <1>3, SizeIs DEF Memory
<1>5. s \in [1..n -> S]
  BY <1>4
<1>6. \A i \in 1..n : s[i] = m[str + i - 1]
  OBVIOUS
<1> HIDE DEF s
<1>7. s \in Seq(S) /\ Len(s) = n
  BY <1>5
<1> QED BY <1>2, <1>6, <1>7

(* memmove, as MoveIsSimultaneous states it. *)
LEMMA Moves == IsMemory(mem) => MoveIsSimultaneous
<1> SUFFICES ASSUME IsMemory(mem), NEW p \in Memory, NEW q \in Memory, NEW n \in 0..Size,
                    Fits(p, n), Fits(q, n)
             PROVE  /\ memmove(mem, p, q, n)
                         = [a \in Memory |-> IF a - p \in 0..(n - 1) THEN mem[a - p + q]
                                                                     ELSE mem[a]]
                    /\ (memcmp(mem, p, q, n) = 0) <=> (memmove(mem, p, q, n) = mem)
  BY Zenon DEF MoveIsSimultaneous
<1>1. p \in Nat /\ q \in Nat /\ n \in Nat /\ p + n <= Size /\ q + n <= Size
  BY SizeIs DEF Memory, Fits
<1>2. memmove(mem, p, q, n) = Copied(mem, p, q, n)
  BY <1>1, MemmoveIs
<1>3. (memcmp(mem, p, q, n) = 0) <=> (Copied(mem, p, q, n) = mem)
  BY <1>1, MemcmpIs
<1> QED BY <1>2, <1>3, Zenon DEF Copied

LEMMA NonemptyIs ==
  ASSUME IsMemory(mem), NEW str \in Nonempty
  PROVE  /\ str \in Memory /\ str \in Nat /\ strlen(mem, str) \in Nat /\ strlen(mem, str) >= 1
         /\ HasLength(mem, str, strlen(mem, str))
<1>1. str \in Memory /\ IsString(mem, str) /\ mem[str] # 0
  BY DEF Nonempty, Terminated
<1> DEFINE l == strlen(mem, str)
<1>2. HasLength(mem, str, l)
  BY <1>1, StrlenIs
<1> HIDE DEF l
<1>3. str \in Nat
  BY <1>1, SizeIs DEF Memory
<1>4. l \in Nat /\ mem[str + l] = 0
  BY <1>2 DEF HasLength
<1>5. l # 0
  <2>1. str + 0 = str
    BY <1>3
  <2> QED BY <1>1, <1>4, <2>1
<1> QED BY <1>1, <1>2, <1>3, <1>4, <1>5 DEF l

LEMMA RoomIs ==
  ASSUME NEW n \in Nat, NEW str, NEW out \in RoomApart(n, str), NEW l \in Nat,
         strlen(mem, str) = l, str \in Nat
  PROVE  /\ out \in Memory /\ out \in Nat /\ out + n <= Size
         /\ out + n <= str \/ str + (l + 1) <= out
BY SizeIs DEF RoomApart, Fits, Disjoint, Memory

(* Buffers are what StrcatIs needs. *)
LEMMA BufferIs ==
  ASSUME IsMemory(mem), NEW dest \in Nonempty, NEW append \in Nonempty,
         NEW buffer \in Buffers(dest, append),
         NEW l \in Nat, NEW k \in Nat, l = strlen(mem, dest), k = strlen(mem, append)
  PROVE  /\ buffer \in Memory
         /\ CatRoom(dest, l, append, k, buffer,
                    l + k + (IF buffer = dest THEN k ELSE 0) + 1)
<1>1. dest \in Nat /\ append \in Nat /\ dest \in Memory
  BY NonemptyIs
<1>2. CASE buffer \in RoomApart(l + k + 2, append) \cap RoomApart(l + k + 2, dest)
  <2>1. /\ buffer \in Memory /\ buffer \in Nat /\ buffer + (l + k + 2) <= Size
        /\ buffer + (l + k + 2) <= append \/ append + (k + 1) <= buffer
    BY <1>1, <1>2, RoomIs
  <2>2. buffer + (l + k + 2) <= dest \/ dest + (l + 1) <= buffer
    BY <1>1, <1>2, RoomIs
  <2>3. buffer # dest
    BY <1>1, <2>1, <2>2
  <2>4. CatRoom(dest, l, append, k, buffer, l + k + 0 + 1)
    BY <1>1, <2>1, <2>2, SizeIs DEF CatRoom, Memory
  <2> QED BY <2>1, <2>3, <2>4
<1>3. CASE buffer \in {dest} \cap RoomApart(l + 2 * k + 2, append)
  <2>1. /\ buffer \in Memory /\ buffer \in Nat /\ buffer + (l + 2 * k + 2) <= Size
        /\ buffer + (l + 2 * k + 2) <= append \/ append + (k + 1) <= buffer
        /\ buffer = dest
    BY <1>1, <1>3, RoomIs
  <2>2. CatRoom(dest, l, append, k, buffer, l + k + k + 1)
    BY <1>1, <2>1, SizeIs DEF CatRoom, Memory
  <2> QED BY <2>1, <2>2
<1> QED BY <1>2, <1>3 DEF Buffers

(* The string that strcat leaves. *)
LEMMA AppendedIs ==
  ASSUME NEW m, IsMemory(m), NEW dest \in Memory, NEW append \in Memory, NEW buffer \in Memory,
         NEW l \in Nat, NEW k \in Nat, NEW last, k >= 1, l >= 1,
         HasLength(m, dest, l), HasLength(m, append, k),
         CatRoom(dest, l, append, k, buffer, last)
  PROVE  LET r == Appended(m, dest, l, append, k, buffer, last)
         IN  /\ IsMemory(r)
             /\ HasLength(r, buffer, l + k)
             /\ \A j \in 0..(l - 1) : r[buffer + j] = m[dest + j]
             /\ \A j \in 0..(k - 1) : r[buffer + (l + j)] = m[append + j]
             /\ \A a \in Memory : a - buffer \in (0..(l + k)) \cup {last} \/ r[a] = m[a]
<1> DEFINE r == Appended(m, dest, l, append, k, buffer, last)
<1>1. /\ dest \in Nat /\ append \in Nat /\ buffer \in Nat /\ last \in Nat
      /\ last >= l + k + 1 /\ buffer + last \in Memory
  BY SizeIs DEF Memory, CatRoom
<1>2. r = [a \in Memory |-> IF a = buffer + last THEN 0
                            ELSE BothByte(m, dest, l, append, k, buffer, a)]
  BY Zenon DEF Appended
<1> HIDE DEF r
<1>3. IsMemory(r)
  BY <1>2, Zenon DEF IsMemory
<1>4. ASSUME NEW j \in 0..(l - 1) PROVE r[buffer + j] = m[dest + j]
  <2>1. /\ buffer + j \in Memory /\ buffer + j # buffer + last
        /\ (buffer + j) - buffer = j /\ j + dest = dest + j
    BY <1>1, SizeIs DEF Memory
  <2>2. BothByte(m, dest, l, append, k, buffer, buffer + j) = m[dest + j]
    BY <2>1 DEF BothByte
  <2> QED BY <1>2, <2>1, <2>2
<1>5. ASSUME NEW j \in 0..(k - 1) PROVE r[buffer + (l + j)] = m[append + j]
  <2>1. /\ buffer + (l + j) \in Memory /\ buffer + (l + j) # buffer + last
        /\ (buffer + (l + j)) - buffer = l + j /\ l + j - l + append = append + j
        /\ ~(l + j \in 0..(l - 1)) /\ l + j \in l..(l + k - 1)
    BY <1>1, SizeIs DEF Memory
  <2>2. BothByte(m, dest, l, append, k, buffer, buffer + (l + j)) = m[append + j]
    BY <2>1 DEF BothByte
  <2> QED BY <1>2, <2>1, <2>2
<1>6. HasLength(r, buffer, l + k)
  <2>1. /\ l + k \in Nat /\ buffer + (l + k) \in Memory
        /\ (buffer + (l + k)) - buffer = l + k
        /\ ~(l + k \in 0..(l - 1)) /\ ~(l + k \in l..(l + k - 1))
    BY <1>1, SizeIs DEF Memory
  <2>2. BothByte(m, dest, l, append, k, buffer, buffer + (l + k)) = 0
    BY <2>1 DEF BothByte
  <2>3. r[buffer + (l + k)] = 0
    BY <1>2, <2>1, <2>2
  <2>4. ASSUME NEW j \in 0..((l + k) - 1) PROVE r[buffer + j] # 0
    <3>1. CASE j \in 0..(l - 1)
      <4>1. m[dest + j] # 0
        BY <3>1 DEF HasLength
      <4> QED BY <1>4, <3>1, <4>1
    <3>2. CASE ~(j \in 0..(l - 1))
      <4>1. j - l \in 0..(k - 1) /\ l + (j - l) = j
        BY <3>2
      <4>2. m[append + (j - l)] # 0
        BY <4>1 DEF HasLength
      <4>3. r[buffer + (l + (j - l))] = m[append + (j - l)]
        BY <1>5, <4>1
      <4> QED BY <4>1, <4>2, <4>3
    <3> QED BY <3>1, <3>2
  <2> QED BY <2>1, <2>3, <2>4 DEF HasLength
<1>7. ASSUME NEW a \in Memory, a - buffer \notin (0..(l + k)) \cup {last} PROVE r[a] = m[a]
  <2>1. /\ a # buffer + last /\ ~(a - buffer \in 0..(l - 1))
        /\ ~(a - buffer \in l..(l + k - 1)) /\ a - buffer # l + k
    <3>1. a \in Nat
      BY SizeIs DEF Memory
    <3> QED BY <1>1, <1>7, <3>1
  <2>2. BothByte(m, dest, l, append, k, buffer, a) = m[a]
    BY <2>1 DEF BothByte
  <2> QED BY <1>2, <2>1, <2>2
<1> QED BY <1>3, <1>4, <1>5, <1>6, <1>7 DEF r

(* strcat, as AppendsInPlace states it. *)
LEMMA Appends == IsMemory(mem) => AppendsInPlace
<1> SUFFICES ASSUME IsMemory(mem), NEW dest \in Nonempty, NEW append \in Nonempty,
                    NEW buffer \in Buffers(dest, append)
             PROVE  LET result == strcat(mem, dest, append, buffer)
                        both == StringAt(mem, dest) \o StringAt(mem, append)
                        last == Len(both)
                                  + (IF buffer = dest THEN strlen(mem, append) ELSE 0) + 1
                    IN  /\ StringAt(result, buffer) = both
                        /\ \A a \in Memory : \/ a - buffer \in 0..Len(both) \cup {last}
                                             \/ result[a] = mem[a]
  BY Zenon DEF AppendsInPlace
<1> DEFINE l == strlen(mem, dest)
           k == strlen(mem, append)
           result == strcat(mem, dest, append, buffer)
           both == StringAt(mem, dest) \o StringAt(mem, append)
           n == l + k + (IF buffer = dest THEN k ELSE 0) + 1
           S == {mem[a] : a \in Memory} \cup {result[a] : a \in Memory}
<1>1. /\ dest \in Memory /\ l \in Nat /\ l >= 1 /\ HasLength(mem, dest, l)
      /\ append \in Memory /\ k \in Nat /\ k >= 1 /\ HasLength(mem, append, k)
  BY NonemptyIs
<1>2. buffer \in Memory /\ CatRoom(dest, l, append, k, buffer, n)
  <2>1. l \in Nat /\ k \in Nat
    BY <1>1
  <2> QED BY <2>1, BufferIs
<1> HIDE DEF l, k
<1>3. result = Appended(mem, dest, l, append, k, buffer, n)
  <2> HIDE DEF n
  <2> QED BY <1>1, <1>2, StrcatIs
<1>4. /\ IsMemory(result)
      /\ HasLength(result, buffer, l + k)
      /\ \A j \in 0..(l - 1) : result[buffer + j] = mem[dest + j]
      /\ \A j \in 0..(k - 1) : result[buffer + (l + j)] = mem[append + j]
      /\ \A a \in Memory : a - buffer \in (0..(l + k)) \cup {n} \/ result[a] = mem[a]
  <2> HIDE DEF n, result
  <2> QED BY <1>1, <1>2, <1>3, AppendedIs
<1>5. \A a \in Memory : mem[a] \in S /\ result[a] \in S
  OBVIOUS
<1> HIDE DEF result, S
<1>6. /\ StringAt(mem, dest) \in Seq(S) /\ Len(StringAt(mem, dest)) = l
      /\ \A i \in 1..l : StringAt(mem, dest)[i] = mem[dest + i - 1]
  BY <1>1, <1>5, StringAtIs
<1>7. /\ StringAt(mem, append) \in Seq(S) /\ Len(StringAt(mem, append)) = k
      /\ \A i \in 1..k : StringAt(mem, append)[i] = mem[append + i - 1]
  BY <1>1, <1>5, StringAtIs
<1>8. /\ StringAt(result, buffer) \in Seq(S) /\ Len(StringAt(result, buffer)) = l + k
      /\ \A i \in 1..(l + k) : StringAt(result, buffer)[i] = result[buffer + i - 1]
  <2>1. l + k \in Nat
    BY <1>1
  <2> QED BY <1>2, <1>4, <1>5, <2>1, StringAtIs
<1>9. /\ both \in Seq(S) /\ Len(both) = l + k
      /\ \A i \in 1..(l + k) : both[i] = IF i <= l THEN StringAt(mem, dest)[i]
                                         ELSE StringAt(mem, append)[i - l]
  BY <1>6, <1>7, ConcatProperties
<1> HIDE DEF both
<1>10. ASSUME NEW i \in 1..(l + k) PROVE StringAt(result, buffer)[i] = both[i]
  <2>0. buffer \in Nat /\ dest \in Nat /\ append \in Nat
    BY <1>1, <1>2, SizeIs DEF Memory
  <2>1. CASE i <= l
    <3>1. i \in 1..l /\ i - 1 \in 0..(l - 1)
      BY <1>1, <2>1
    <3>2. buffer + i - 1 = buffer + (i - 1) /\ dest + i - 1 = dest + (i - 1)
      BY <1>1, <2>0
    <3>3. result[buffer + (i - 1)] = mem[dest + (i - 1)]
      BY <1>4, <3>1
    <3>4. both[i] = mem[dest + i - 1]
      BY <1>6, <1>9, <2>1, <3>1
    <3> QED BY <1>8, <3>2, <3>3, <3>4
  <2>2. CASE ~(i <= l)
    <3>1. i - l \in 1..k /\ i - l - 1 \in 0..(k - 1)
      BY <1>1, <2>2
    <3>2. buffer + i - 1 = buffer + (l + (i - l - 1)) /\ append + (i - l) - 1 = append + (i - l - 1)
      BY <1>1, <2>0
    <3>3. result[buffer + (l + (i - l - 1))] = mem[append + (i - l - 1)]
      BY <1>4, <3>1
    <3>4. both[i] = mem[append + (i - l) - 1]
      BY <1>7, <1>9, <2>2, <3>1
    <3> QED BY <1>8, <3>2, <3>3, <3>4
  <2> QED BY <2>1, <2>2
<1>11. StringAt(result, buffer) = both
  BY <1>8, <1>9, <1>10, SeqEqual
<1>12. n = Len(both) + (IF buffer = dest THEN k ELSE 0) + 1
  BY <1>9
<1>13. \A a \in Memory : \/ a - buffer \in 0..Len(both)
                               \cup {Len(both) + (IF buffer = dest THEN k ELSE 0) + 1}
                         \/ result[a] = mem[a]
  <2> HIDE DEF n
  <2> QED BY <1>4, <1>9, <1>12
<1> QED BY <1>11, <1>13 DEF result, both, k

(* strcmp (string.c:102-120) compares the characters. *)
LEMMA StrcmpIs ==
  ASSUME NEW m, IsMemory(m), NEW p \in Memory, NEW q \in Memory, NEW n \in Nat, NEW k \in Nat,
         HasLength(m, p, n), HasLength(m, q, k)
  PROVE  (strcmp(m, p, q) = 0) <=> (n = k /\ \A j \in 0..(n - 1) : m[p + j] = m[q + j])
<1> DEFINE T == {strlen(m, p), strlen(m, q)}
           s == Min(T)
<1>1. strlen(m, p) = n /\ strlen(m, q) = k
  BY LengthUnique
<1>2. s \in {n, k} /\ s <= n /\ s <= k /\ s \in Nat
  <2>1. T = {n, k} /\ T \subseteq Nat /\ T # {}
    BY <1>1
  <2> HIDE DEF T
  <2>2. s \in T /\ \A y \in T : s <= y
    BY <2>1, MinIs
  <2> QED BY <2>1, <2>2
<1>3. strcmp(m, p, q) = IF \E j \in 0..s : m[p + j] # m[q + j] THEN 1 ELSE 0
  BY Zenon DEF strcmp
<1> HIDE DEF s
<1>4. (strcmp(m, p, q) = 0) <=> \A j \in 0..s : m[p + j] = m[q + j]
  BY <1>3
<1>5. /\ m[p + n] = 0 /\ \A j \in 0..(n - 1) : m[p + j] # 0
      /\ m[q + k] = 0 /\ \A j \in 0..(k - 1) : m[q + j] # 0
  BY DEF HasLength
<1>6. ASSUME \A j \in 0..s : m[p + j] = m[q + j]
      PROVE  n = k /\ \A j \in 0..(n - 1) : m[p + j] = m[q + j]
  <2>1. m[p + s] = m[q + s]
    BY <1>2, <1>6
  <2>2. ~(n < k)
    <3>1. n < k => s = n /\ n \in 0..(k - 1)
      BY <1>2
    <3> QED BY <1>5, <2>1, <3>1
  <2>3. ~(k < n)
    <3>1. k < n => s = k /\ k \in 0..(n - 1)
      BY <1>2
    <3> QED BY <1>5, <2>1, <3>1
  <2>4. n = k /\ s = n
    BY <1>2, <2>2, <2>3
  <2>5. \A j \in 0..(n - 1) : j \in 0..s
    BY <2>4
  <2> QED BY <1>6, <2>4, <2>5
<1>7. ASSUME n = k, \A j \in 0..(n - 1) : m[p + j] = m[q + j], NEW j \in 0..s
      PROVE  m[p + j] = m[q + j]
  <2>1. CASE j = n
    BY <1>5, <1>7, <2>1
  <2>2. CASE j # n
    <3>1. j \in 0..(n - 1)
      BY <1>2, <2>2
    <3> QED BY <1>7, <3>1
  <2> QED BY <2>1, <2>2
<1> QED BY <1>4, <1>6, <1>7

(* What strslice leaves is the slice, terminated. *)
LEMMA SliceIs ==
  ASSUME NEW m, IsMemory(m), NEW str \in Nat, NEW l, HasLength(m, str, l), NEW from \in 0..l,
         NEW to \in from..l, NEW out \in Nat, NEW n, n = SliceLength(from, to, l),
         out + (to - from + 2) <= Size
  PROVE  /\ n \in Nat /\ n <= to - from + 1 /\ from + n <= l /\ out + n \in Memory
         /\ IsMemory(Put(m, out, str + from, n))
         /\ HasLength(Put(m, out, str + from, n), out, n)
         /\ \A j \in 0..(n - 1) : Put(m, out, str + from, n)[out + j] = m[str + from + j]
         /\ \A a \in Memory : \/ a - out \in 0..(to - from + 1)
                              \/ Put(m, out, str + from, n)[a] = m[a]
<1> DEFINE r == Put(m, out, str + from, n)
<1>1. l \in Nat /\ str + l \in Memory /\ \A j \in 0..(l - 1) : m[str + j] # 0
  BY DEF HasLength
<1>2. from \in Nat /\ to \in Nat /\ from <= to /\ to <= l /\ str + from \in Nat
  BY <1>1
<1>3. n \in Nat /\ n <= to - from + 1 /\ from + n <= l
  BY <1>1, <1>2 DEF SliceLength
<1>4. out + n \in Memory
  BY <1>2, <1>3, SizeIs DEF Memory
<1>5. IsMemory(r) /\ \A a \in Memory : r[a] = PutByte(m, out, str + from, n, a)
  BY <1>2, <1>3, <1>4, PutIs
<1> HIDE DEF r
<1>6. ASSUME NEW j \in 0..(n - 1)
      PROVE  r[out + j] = m[str + from + j] /\ m[str + from + j] # 0
  <2>1. /\ out + j \in Memory /\ out + j # out + n /\ (out + j) - out = j
        /\ j + (str + from) = str + from + j /\ str + from + j = str + (from + j)
        /\ from + j \in 0..(l - 1)
    BY <1>1, <1>2, <1>3, <1>4, SizeIs DEF Memory
  <2>2. PutByte(m, out, str + from, n, out + j) = m[str + from + j]
    BY <2>1 DEF PutByte
  <2>3. m[str + (from + j)] # 0
    BY <1>1, <2>1
  <2> QED BY <1>5, <2>1, <2>2, <2>3
<1>7. HasLength(r, out, n)
  <2>1. r[out + n] = 0
    BY <1>4, <1>5 DEF PutByte
  <2>2. \A j \in 0..(n - 1) : r[out + j] # 0
    BY <1>6
  <2> QED BY <1>3, <1>4, <2>1, <2>2 DEF HasLength
<1>8. ASSUME NEW a \in Memory, a - out \notin 0..(to - from + 1) PROVE r[a] = m[a]
  <2>1. a # out + n /\ ~(a - out \in 0..(n - 1))
    <3>1. a \in Nat
      BY SizeIs DEF Memory
    <3> QED BY <1>2, <1>3, <1>8, <3>1
  <2>2. PutByte(m, out, str + from, n, a) = m[a]
    BY <2>1 DEF PutByte
  <2> QED BY <1>5, <2>2
<1>9. \A j \in 0..(n - 1) : r[out + j] = m[str + from + j]
  BY <1>6
<1> QED BY <1>3, <1>4, <1>5, <1>7, <1>8, <1>9 DEF r

(* strslice and strcmp, as HintsRecognised states it. *)
LEMMA Hints == IsMemory(mem) => HintsRecognised
<1> SUFFICES ASSUME IsMemory(mem), NEW str \in Terminated, NEW from \in 0..strlen(mem, str),
                    NEW to \in from..strlen(mem, str),
                    NEW out \in RoomApart(to - from + 2, str)
             PROVE  LET result == strslice(mem, str, from, to, out)
                        slice == SubSeq(StringAt(mem, str), from + 1,
                                        Min({to + 1, strlen(mem, str)}))
                    IN  /\ \A a \in Memory : \/ a - out \in 0..(to - from + 1)
                                             \/ result[a] = mem[a]
                        /\ to < strlen(mem, str) => result[out + to - from + 1] = 0
                        /\ \A other \in Terminated :
                             out \in RoomApart(to - from + 2, other) =>
                               ((strcmp(result, out, other) = 0)
                                  <=> (slice = StringAt(mem, other)))
  BY Zenon DEF HintsRecognised
<1> DEFINE l == strlen(mem, str)
           n == SliceLength(from, to, l)
           r == Put(mem, out, str + from, n)
           e == Min({to + 1, l})
           slice == SubSeq(StringAt(mem, str), from + 1, e)
           S == {mem[a] : a \in Memory}
<1>1. str \in Memory /\ str \in Nat /\ HasLength(mem, str, l)
  BY StrlenIs, SizeIs DEF Terminated, Memory
<1>2. l \in Nat /\ from \in 0..l /\ to \in from..l
  BY <1>1 DEF HasLength
<1>3. from \in Nat /\ to \in Nat /\ from <= to /\ to <= l /\ to - from + 2 \in Nat
  <2> HIDE DEF l
  <2> QED BY <1>2
<1>4. /\ out \in Memory /\ out \in Nat /\ out + (to - from + 2) <= Size
      /\ out + (to - from + 2) <= str \/ str + (l + 1) <= out
  BY <1>1, <1>2, <1>3, RoomIs
<1> HIDE DEF l
<1>5. strslice(mem, str, from, to, out) = r
  BY <1>1, <1>2, <1>4, StrsliceIs
<1>6. /\ n \in Nat /\ n <= to - from + 1 /\ from + n <= l /\ out + n \in Memory
      /\ IsMemory(r) /\ HasLength(r, out, n)
      /\ \A j \in 0..(n - 1) : r[out + j] = mem[str + from + j]
      /\ \A a \in Memory : a - out \in 0..(to - from + 1) \/ r[a] = mem[a]
  BY <1>1, <1>2, <1>4, SliceIs
<1>7. e = from + n
  <2> DEFINE T == {to + 1, l}
  <2>1. T \subseteq Nat /\ T # {}
    BY <1>2, <1>3
  <2> HIDE DEF T
  <2>2. Min(T) \in T /\ \A y \in T : Min(T) <= y
    BY <2>1, MinIs
  <2>3. Min(T) \in {to + 1, l} /\ Min(T) <= to + 1 /\ Min(T) <= l
    BY <2>2 DEF T
  <2>4. from + n = IF to < l THEN to + 1 ELSE l
    BY <1>2, <1>3 DEF SliceLength
  <2>5. Min(T) = from + n
    <3> HIDE DEF n
    <3> QED BY <1>2, <1>3, <2>3, <2>4
  <2> QED BY <2>5 DEF T
<1> HIDE DEF n, r, e
<1>8. \A a \in Memory : mem[a] \in S
  OBVIOUS
<1> HIDE DEF S
<1>9. /\ StringAt(mem, str) \in Seq(S) /\ Len(StringAt(mem, str)) = l
      /\ \A i \in 1..l : StringAt(mem, str)[i] = mem[str + i - 1]
  BY <1>1, <1>2, <1>8, StringAtIs
<1>10. /\ slice \in Seq(S) /\ Len(slice) = n
       /\ \A i \in 1..n : slice[i] = mem[str + from + (i - 1)]
  <2>1. from + 1 \in 1..(Len(StringAt(mem, str)) + 1) /\ e \in from..Len(StringAt(mem, str))
    BY <1>2, <1>3, <1>6, <1>7, <1>9
  <2>2. /\ slice \in Seq(S)
        /\ Len(slice) = IF from + 1 <= e THEN e - (from + 1) + 1 ELSE 0
        /\ \A i \in 1..(e - (from + 1) + 1) :
             slice[i] = StringAt(mem, str)[(from + 1) + i - 1]
    <3>1. /\ from + 1 \in 1..(Len(StringAt(mem, str)) + 1)
          /\ e \in ((from + 1) - 1)..Len(StringAt(mem, str))
      BY <1>3, <2>1
    <3> QED BY <1>9, <3>1, SubSeqProperties
  <2>3. Len(slice) = n /\ e - (from + 1) + 1 = n
    BY <1>3, <1>6, <1>7, <2>2
  <2> HIDE DEF slice
  <2>4. ASSUME NEW i \in 1..n PROVE slice[i] = mem[str + from + (i - 1)]
    <3>1. /\ (from + 1) + i - 1 \in 1..l
          /\ str + ((from + 1) + i - 1) - 1 = str + from + (i - 1)
      BY <1>1, <1>2, <1>3, <1>6
    <3> QED BY <1>9, <2>2, <2>3, <3>1
  <2> QED BY <2>2, <2>3, <2>4
<1> HIDE DEF slice
<1>11. ASSUME NEW other \in Terminated, out \in RoomApart(to - from + 2, other)
       PROVE  (strcmp(r, out, other) = 0) <=> (slice = StringAt(mem, other))
  <2> DEFINE k == strlen(mem, other)
             t == StringAt(mem, other)
  <2>1. other \in Memory /\ other \in Nat /\ HasLength(mem, other, k)
    BY StrlenIs, SizeIs DEF Terminated, Memory
  <2>2. k \in Nat
    BY <2>1 DEF HasLength
  <2>3. out + (to - from + 2) <= other \/ other + (k + 1) <= out
    BY <1>3, <1>11, <2>1, <2>2, RoomIs
  <2> HIDE DEF k
  <2>4. HasLength(r, other, k)
    <3>1. out + n < other \/ other + k < out
      BY <1>3, <1>4, <1>6, <2>1, <2>2, <2>3
    <3>2. str + from \in Nat
      BY <1>1, <1>3
    <3> QED BY <1>4, <1>6, <2>1, <3>1, <3>2, PutKeeps DEF r
  <2>5. (strcmp(r, out, other) = 0) <=> (n = k /\ \A j \in 0..(n - 1) : r[out + j] = r[other + j])
    <3>1. n \in Nat /\ IsMemory(r) /\ HasLength(r, out, n) /\ out \in Memory /\ other \in Memory
      BY <1>4, <1>6, <2>1
    <3> QED BY <2>2, <2>4, <3>1, StrcmpIs
  <2>6. \A j \in 0..(k - 1) : r[other + j] = mem[other + j]
    <3> SUFFICES ASSUME NEW j \in 0..(k - 1) PROVE r[other + j] = mem[other + j]
      OBVIOUS
    <3>1. other + k \in Memory
      BY <2>1 DEF HasLength
    <3>2. other + j \in Memory /\ (other + j) - out \notin 0..(to - from + 1)
      BY <1>3, <1>4, <2>1, <2>2, <2>3, <3>1, SizeIs DEF Memory
    <3> QED BY <1>6, <3>2
  <2>7. /\ t \in Seq(S) /\ Len(t) = k
        /\ \A i \in 1..k : t[i] = mem[other + i - 1]
    BY <1>8, <2>1, <2>2, StringAtIs
  <2> HIDE DEF t
  <2>8. ASSUME n = k, \A j \in 0..(n - 1) : r[out + j] = r[other + j] PROVE slice = t
    <3>1. ASSUME NEW i \in 1..n PROVE slice[i] = t[i]
      <4>1. /\ i - 1 \in 0..(n - 1) /\ i - 1 \in 0..(k - 1)
            /\ other + i - 1 = other + (i - 1) /\ i \in 1..k
        BY <1>6, <2>1, <2>8
      <4>2. slice[i] = r[out + (i - 1)]
        BY <1>6, <1>10, <4>1
      <4>3. t[i] = r[other + (i - 1)]
        BY <2>6, <2>7, <4>1
      <4> QED BY <2>8, <4>1, <4>2, <4>3
    <3> QED BY <1>10, <2>7, <2>8, <3>1, SeqEqual
  <2>9. ASSUME slice = t PROVE n = k /\ \A j \in 0..(n - 1) : r[out + j] = r[other + j]
    <3>1. n = k
      BY <1>10, <2>7, <2>9
    <3>2. ASSUME NEW j \in 0..(n - 1) PROVE r[out + j] = r[other + j]
      <4>1. j + 1 \in 1..n /\ j + 1 \in 1..k /\ j \in 0..(k - 1) /\ (j + 1) - 1 = j
            /\ other + (j + 1) - 1 = other + j
        BY <1>6, <2>1, <3>1
      <4>2. slice[j + 1] = mem[str + from + j]
        BY <1>10, <4>1
      <4>3. t[j + 1] = mem[other + j]
        BY <2>7, <4>1
      <4> QED BY <1>6, <2>6, <2>9, <4>1, <4>2, <4>3
    <3> QED BY <3>1, <3>2
  <2> QED BY <2>5, <2>8, <2>9 DEF t
<1>12. \A a \in Memory : a - out \in 0..(to - from + 1) \/ r[a] = mem[a]
  BY <1>6
<1>13. ASSUME to < l PROVE r[out + to - from + 1] = 0
  <2>1. n = to - from + 1
    BY <1>2, <1>3, <1>13 DEF SliceLength, n
  <2>2. r[out + n] = 0
    BY <1>6 DEF HasLength
  <2>3. out + (to - from + 1) = out + to - from + 1
    BY <1>3, <1>4
  <2> QED BY <2>1, <2>2, <2>3, Zenon
<1> QED BY <1>5, <1>11, <1>12, <1>13, Zenon DEF slice, e, l

-----------------------------------------------------------------------------
(* Calls and faults.                                                       *)

(* The pieces that page_fault has yet to append, and the length that the   *)
(* message can have by then.                                               *)
Building ==
  \/ pieces = <<>> /\ message.len \in 13..47
  \/ pieces = <<8>> /\ message.len \in 13..39
  \/ pieces = <<7, 8>> /\ message.len \in 13..32
  \/ pieces = <<8, 7, 8>> /\ message.len = 13
  \/ pieces = <<9, 7, 8>> /\ message.len \in 13..23
  \/ pieces = <<10, 7, 8>> /\ message.len \in 13..21
  \/ pieces = <<8, 10, 7, 8>> /\ message.len = 13
  \/ pieces = <<10, 9, 7, 8>> /\ message.len = 13

(* The memory is never anything but a function on its addresses, and the   *)
(* message never reaches behind its array.                                 *)
LibraryInv ==
  /\ IsMemory(mem)
  /\ message = [len |-> message.len, top |-> MessageSize - 1]
  /\ Building

LEMMA CallKeeps ==
  ASSUME LibraryInv, NEW m, IsMemory(m), Call(m)
  PROVE  LibraryInv'
<1>1. mem' = m /\ message' = message /\ pieces' = pieces
  BY DEF Call
<1> QED BY <1>1, Zenon DEF LibraryInv, Building, IsMemory, Memory

LEMMA BlocksKept ==
  ASSUME IsMemory(mem), NEW p \in Memory, NEW q \in Memory, NEW n \in Lengths,
         Fits(p, n), Fits(q, n), NEW val
  PROVE  IsMemory(memset(mem, p, val, n)) /\ IsMemory(memmove(mem, p, q, n))
<1>1. DOMAIN mem = Memory
  BY DEF IsMemory
<1>2. IsMemory(memset(mem, p, val, n))
  BY <1>1 DEF IsMemory, memset
<1>3. n \in Nat /\ p \in Nat /\ q \in Nat /\ p + n <= Size /\ q + n <= Size
  BY SizeIs, LibraryAssumption DEF Memory, Fits
<1>4. memmove(mem, p, q, n) = Copied(mem, p, q, n)
  BY <1>3, MemmoveIs
<1>5. IsMemory(Copied(mem, p, q, n))
  BY DEF Copied, IsMemory
<1> QED BY <1>2, <1>4, <1>5

LEMMA StrcpyKept ==
  ASSUME IsMemory(mem), NEW src \in Nonempty, NEW dest \in RoomApart(strlen(mem, src), src)
  PROVE  IsMemory(strcpy(mem, dest, src))
<1> DEFINE n == strlen(mem, src)
<1>1. src \in Nat /\ n \in Nat /\ n >= 1 /\ HasLength(mem, src, n)
  BY NonemptyIs
<1>2. /\ dest \in Nat /\ dest + n <= Size
      /\ dest + n <= src \/ src + (n + 1) <= dest
  BY <1>1, RoomIs
<1> HIDE DEF n
<1>3. dest <= src \/ dest > src + n
  BY <1>1, <1>2
<1>4. strcpy(mem, dest, src) = Copied(mem, dest, src, n)
  BY <1>1, <1>2, <1>3, StrcpyIs
<1>5. IsMemory(Copied(mem, dest, src, n))
  BY DEF Copied, IsMemory
<1> QED BY <1>4, <1>5

LEMMA StrsliceKept ==
  ASSUME IsMemory(mem), NEW str \in Terminated, NEW from \in 0..strlen(mem, str),
         NEW to \in from..strlen(mem, str), NEW out \in RoomApart(to - from + 2, str)
  PROVE  IsMemory(strslice(mem, str, from, to, out))
<1> DEFINE l == strlen(mem, str)
           n == SliceLength(from, to, l)
<1>1. str \in Memory /\ str \in Nat /\ HasLength(mem, str, l)
  BY StrlenIs, SizeIs DEF Terminated, Memory
<1>2. l \in Nat /\ from \in 0..l /\ to \in from..l
  BY <1>1 DEF HasLength
<1>3. to - from + 2 \in Nat
  <2> HIDE DEF l
  <2> QED BY <1>2
<1>4. /\ out \in Nat /\ out + (to - from + 2) <= Size
      /\ out + (to - from + 2) <= str \/ str + (l + 1) <= out
  BY <1>1, <1>2, <1>3, RoomIs
<1> HIDE DEF l
<1>5. strslice(mem, str, from, to, out) = Put(mem, out, str + from, n)
  BY <1>1, <1>2, <1>4, StrsliceIs
<1>6. IsMemory(Put(mem, out, str + from, n))
  BY <1>1, <1>2, <1>4, SliceIs
<1> QED BY <1>5, <1>6

LEMMA StrcatKept ==
  ASSUME IsMemory(mem), NEW dest \in Nonempty, NEW append \in Nonempty,
         NEW buffer \in Buffers(dest, append)
  PROVE  IsMemory(strcat(mem, dest, append, buffer))
<1> DEFINE l == strlen(mem, dest)
           k == strlen(mem, append)
           n == l + k + (IF buffer = dest THEN k ELSE 0) + 1
<1>1. /\ dest \in Memory /\ l \in Nat /\ l >= 1 /\ HasLength(mem, dest, l)
      /\ append \in Memory /\ k \in Nat /\ k >= 1 /\ HasLength(mem, append, k)
  BY NonemptyIs
<1>2. buffer \in Memory /\ CatRoom(dest, l, append, k, buffer, n)
  <2>1. l \in Nat /\ k \in Nat
    BY <1>1
  <2> QED BY <2>1, BufferIs
<1> HIDE DEF l, k, n
<1>3. strcat(mem, dest, append, buffer) = Appended(mem, dest, l, append, k, buffer, n)
  BY <1>1, <1>2, StrcatIs
<1>4. IsMemory(Appended(mem, dest, l, append, k, buffer, n))
  BY Zenon DEF Appended, IsMemory
<1> QED BY <1>3, <1>4

LEMMA NumbersKept ==
  ASSUME NEW m, IsMemory(m), NEW num
  PROVE  IsMemory(int_to_str(m, num, 0)) /\ IsMemory(int_to_hex(m, num, 0))
<1>1. ASSUME NEW x, IsMemory(x), NEW p, NEW bytes PROVE IsMemory(Store(x, p, bytes))
  <2>1. DOMAIN x = Memory
    BY <1>1 DEF IsMemory
  <2> QED BY <2>1 DEF IsMemory, Store
<1>2. ASSUME NEW x, IsMemory(x), NEW p, NEW n PROVE IsMemory(strreverse(x, p, n))
  <2>1. DOMAIN x = Memory
    BY <1>2 DEF IsMemory
  <2> QED BY <2>1 DEF IsMemory, strreverse
<1>3. IsMemory(int_to_str(m, num, 0))
  BY <1>1, <1>2, Zenon DEF int_to_str
<1>4. IsMemory(int_to_hex(m, num, 0))
  BY <1>1, Zenon DEF int_to_hex
<1> QED BY <1>3, <1>4

(* The provers do not join tuples by themselves. *)
LEMMA Joined ==
  ASSUME NEW s \in Seq(Nat), NEW t \in Seq(Nat), NEW u \in Seq(Nat),
         Len(u) = Len(s) + Len(t),
         \A i \in 1..Len(u) : u[i] = IF i <= Len(s) THEN s[i] ELSE t[i - Len(s)]
  PROVE  s \o t = u
<1>1. /\ s \o t \in Seq(Nat) /\ Len(s \o t) = Len(u)
      /\ \A i \in 1..Len(u) : (s \o t)[i] = IF i <= Len(s) THEN s[i] ELSE t[i - Len(s)]
  BY ConcatProperties
<1>2. \A i \in 1..Len(s \o t) : (s \o t)[i] = u[i]
  BY <1>1, Zenon
<1> QED BY <1>1, <1>2, SeqEqual

LEMMA Pairs ==
  ASSUME NEW a \in Nat, NEW b \in Nat, NEW c \in Nat
  PROVE  <<a>> \o <<b>> = <<a, b>> /\ <<a>> \o <<b, c>> = <<a, b, c>>
<1> DEFINE s1 == <<a>>
           s2 == <<b>>
           s3 == <<a, b>>
           s4 == <<b, c>>
           s5 == <<a, b, c>>
<1>1. /\ s1 \in Seq(Nat) /\ Len(s1) = 1 /\ s1[1] = a
      /\ s2 \in Seq(Nat) /\ Len(s2) = 1 /\ s2[1] = b
      /\ s3 \in Seq(Nat) /\ Len(s3) = 2 /\ s3[1] = a /\ s3[2] = b
      /\ s4 \in Seq(Nat) /\ Len(s4) = 2 /\ s4[1] = b /\ s4[2] = c
      /\ s5 \in Seq(Nat) /\ Len(s5) = 3 /\ s5[1] = a /\ s5[2] = b /\ s5[3] = c
  OBVIOUS
<1> HIDE DEF s1, s2, s3, s4, s5
<1>2. s1 \o s2 = s3
  <2>1. \A i \in 1..Len(s3) : s3[i] = IF i <= Len(s1) THEN s1[i] ELSE s2[i - Len(s1)]
    BY <1>1
  <2>2. s1 \in Seq(Nat) /\ s2 \in Seq(Nat) /\ s3 \in Seq(Nat) /\ Len(s3) = Len(s1) + Len(s2)
    BY <1>1
  <2> QED BY <2>1, <2>2, Joined, Zenon
<1>3. s1 \o s4 = s5
  <2>1. \A i \in 1..Len(s5) : s5[i] = IF i <= Len(s1) THEN s1[i] ELSE s4[i - Len(s1)]
    BY <1>1
  <2>2. s1 \in Seq(Nat) /\ s4 \in Seq(Nat) /\ s5 \in Seq(Nat) /\ Len(s5) = Len(s1) + Len(s4)
    BY <1>1
  <2> QED BY <2>1, <2>2, Joined, Zenon
<1> QED BY <1>2, <1>3 DEF s1, s2, s3, s4, s5

LEMMA PairOfPairs ==
  ASSUME NEW a \in Nat, NEW b \in Nat, NEW c \in Nat, NEW d \in Nat
  PROVE  <<a, b>> \o <<c, d>> = <<a, b, c, d>>
<1> DEFINE s == <<a, b>>
           t == <<c, d>>
           u == <<a, b, c, d>>
<1>1. /\ s \in Seq(Nat) /\ Len(s) = 2 /\ s[1] = a /\ s[2] = b
      /\ t \in Seq(Nat) /\ Len(t) = 2 /\ t[1] = c /\ t[2] = d
      /\ u \in Seq(Nat) /\ Len(u) = 4 /\ u[1] = a /\ u[2] = b /\ u[3] = c /\ u[4] = d
  OBVIOUS
<1> HIDE DEF s, t, u
<1>2. \A i \in 1..Len(u) : u[i] = IF i <= Len(s) THEN s[i] ELSE t[i - Len(s)]
  BY <1>1
<1>3. s \in Seq(Nat) /\ t \in Seq(Nat) /\ u \in Seq(Nat) /\ Len(u) = Len(s) + Len(t)
  BY <1>1
<1>4. s \o t = u
  BY <1>2, <1>3, Joined, Zenon
<1> QED BY <1>4 DEF s, t, u

(* The pieces of the faults that the kernel can cause. *)
LEMMA PiecesAre ==
  ASSUME NEW err \in KernelFaults
  PROVE  Pieces(err) \in {<<7, 8>>, <<8, 7, 8>>, <<9, 7, 8>>, <<10, 7, 8>>,
                          <<8, 10, 7, 8>>, <<10, 9, 7, 8>>}
<1>1. ~Bit(err, 2) /\ (Bit(err, 3) => Bit(err, 0))
  BY Zenon DEF KernelFaults
<1> DEFINE all(p0, p1, p3) == p0 \o p1 \o <<>> \o p3 \o <<7, 8>>
<1>2. Pieces(err) = all(IF Bit(err, 0) THEN <<>> ELSE <<8>>,
                        IF Bit(err, 1) THEN <<10>> ELSE <<>>,
                        IF Bit(err, 3) THEN <<9>> ELSE <<>>)
  BY <1>1, Zenon DEF Pieces
<1>3. \A x \in Seq(Nat) : x \o <<>> = x /\ <<>> \o x = x
  BY ConcatEmptySeq
<1>4. /\ <<>> \in Seq(Nat) /\ <<8>> \in Seq(Nat) /\ <<9>> \in Seq(Nat) /\ <<10>> \in Seq(Nat)
      /\ <<7, 8>> \in Seq(Nat) /\ <<8, 10>> \in Seq(Nat)
  OBVIOUS
<1>5. /\ <<8>> \o <<7, 8>> = <<8, 7, 8>>
      /\ <<9>> \o <<7, 8>> = <<9, 7, 8>>
      /\ <<10>> \o <<7, 8>> = <<10, 7, 8>>
      /\ <<8>> \o <<10>> = <<8, 10>> /\ <<8, 10>> \o <<7, 8>> = <<8, 10, 7, 8>>
      /\ <<10>> \o <<9>> = <<10, 9>> /\ <<10, 9>> \o <<7, 8>> = <<10, 9, 7, 8>>
  <2>0. 7 \in Nat /\ 8 \in Nat /\ 9 \in Nat /\ 10 \in Nat
    OBVIOUS
  <2>1. <<8>> \o <<7, 8>> = <<8, 7, 8>>
    BY <2>0, Pairs, Zenon
  <2>2. <<9>> \o <<7, 8>> = <<9, 7, 8>>
    BY <2>0, Pairs, Zenon
  <2>3. <<10>> \o <<7, 8>> = <<10, 7, 8>>
    BY <2>0, Pairs, Zenon
  <2>4. <<8>> \o <<10>> = <<8, 10>>
    BY <2>0, Pairs, Zenon
  <2>5. <<8, 10>> \o <<7, 8>> = <<8, 10, 7, 8>>
    BY <2>0, PairOfPairs, Zenon
  <2>6. <<10>> \o <<9>> = <<10, 9>>
    BY <2>0, Pairs, Zenon
  <2>7. <<10, 9>> \o <<7, 8>> = <<10, 9, 7, 8>>
    BY <2>0, PairOfPairs, Zenon
  <2> QED BY <2>1, <2>2, <2>3, <2>4, <2>5, <2>6, <2>7
<1>6. /\ all(<<>>, <<>>, <<>>) = <<7, 8>>
      /\ all(<<8>>, <<>>, <<>>) = <<8, 7, 8>>
      /\ all(<<>>, <<10>>, <<>>) = <<10, 7, 8>>
      /\ all(<<>>, <<>>, <<9>>) = <<9, 7, 8>>
      /\ all(<<8>>, <<10>>, <<>>) = <<8, 10, 7, 8>>
      /\ all(<<>>, <<10>>, <<9>>) = <<10, 9, 7, 8>>
  BY <1>3, <1>4, <1>5, Zenon
<1> HIDE DEF all
<1>7. CASE Bit(err, 3)
  BY <1>1, <1>2, <1>6, <1>7
<1>8. CASE ~Bit(err, 3)
  BY <1>1, <1>2, <1>6, <1>8
<1> QED BY <1>7, <1>8

(* One piece is appended, within the array. *)
LEMMA PieceStep ==
  ASSUME Building, pieces # <<>>, pieces' = Tail(pieces),
         message'.len = message.len + Head(pieces)
  PROVE  /\ Head(pieces) \in Nat /\ message.len \in Nat
         /\ message.len + 2 * Head(pieces) + 1 <= 63 /\ Building'
<1>1. CASE pieces = <<8>> /\ message.len \in 13..39
  <2>1. Head(pieces) = 8 /\ Tail(pieces) = <<>>
    BY <1>1
  <2>2. /\ message.len \in Nat /\ message.len + 2 * Head(pieces) + 1 <= 63
        /\ message'.len \in 13..47
    <3>1. message'.len = message.len + 8
      BY <2>1, Zenon
    <3>2. \A n \in 13..39 : n \in Nat /\ n + 2 * 8 + 1 <= 63 /\ n + 8 \in 13..47
      OBVIOUS
    <3> QED BY <1>1, <2>1, <3>1, <3>2, Zenon
  <2>3. Building'
    <3>1. pieces' = <<>>
      BY <2>1, Zenon
    <3> QED BY <2>2, <3>1, Zenon DEF Building
  <2> QED BY <2>1, <2>2, <2>3
<1>2. CASE pieces = <<7, 8>> /\ message.len \in 13..32
  <2>1. Head(pieces) = 7 /\ Tail(pieces) = <<8>>
    BY <1>2
  <2> QED BY <1>2, <2>1 DEF Building
<1>3. CASE pieces = <<8, 7, 8>> /\ message.len = 13
  <2>1. Head(pieces) = 8 /\ Tail(pieces) = <<7, 8>>
    BY <1>3
  <2> QED BY <1>3, <2>1 DEF Building
<1>4. CASE pieces = <<9, 7, 8>> /\ message.len \in 13..23
  <2>1. Head(pieces) = 9 /\ Tail(pieces) = <<7, 8>>
    BY <1>4
  <2> QED BY <1>4, <2>1 DEF Building
<1>5. CASE pieces = <<10, 7, 8>> /\ message.len \in 13..21
  <2>1. Head(pieces) = 10 /\ Tail(pieces) = <<7, 8>>
    BY <1>5
  <2> QED BY <1>5, <2>1 DEF Building
<1>6. CASE pieces = <<8, 10, 7, 8>> /\ message.len = 13
  <2>1. Head(pieces) = 8 /\ Tail(pieces) = <<10, 7, 8>>
    BY <1>6
  <2> QED BY <1>6, <2>1 DEF Building
<1>7. CASE pieces = <<10, 9, 7, 8>> /\ message.len = 13
  <2>1. Head(pieces) = 10 /\ Tail(pieces) = <<9, 7, 8>>
    BY <1>7
  <2> QED BY <1>7, <2>1 DEF Building
<1> QED BY <1>1, <1>2, <1>3, <1>4, <1>5, <1>6, <1>7 DEF Building

(* Every call and every step of page_fault preserves the invariant. *)
LEMMA LibraryStep == LibraryInv /\ [Next]_vars => LibraryInv'
<1> SUFFICES ASSUME LibraryInv, [Next]_vars PROVE LibraryInv'
  OBVIOUS
<1>0. IsMemory(mem)
  BY DEF LibraryInv
<1>1. CASE CallMemset
  <2>1. PICK p \in Memory, val \in Bytes, n \in Lengths :
               Fits(p, n) /\ Call(memset(mem, p, val, n))
    BY <1>1 DEF CallMemset
  <2>2. IsMemory(memset(mem, p, val, n))
    BY <1>0, <2>1, BlocksKept
  <2> QED BY <2>1, <2>2, CallKeeps
<1>2. CASE CallMemmove
  <2>1. PICK p \in Memory, q \in Memory, n \in Lengths :
               Fits(p, n) /\ Fits(q, n) /\ Call(memmove(mem, p, q, n))
    BY <1>2 DEF CallMemmove
  <2>2. IsMemory(memmove(mem, p, q, n))
    BY <1>0, <2>1, BlocksKept
  <2> QED BY <2>1, <2>2, CallKeeps
<1>3. CASE CallStrcpy
  <2>1. PICK src \in Nonempty : \E dest \in RoomApart(strlen(mem, src), src) :
               Call(strcpy(mem, dest, src))
    BY <1>3, Zenon DEF CallStrcpy
  <2>2. PICK dest \in RoomApart(strlen(mem, src), src) : Call(strcpy(mem, dest, src))
    BY <2>1, Zenon
  <2>3. IsMemory(strcpy(mem, dest, src))
    BY <1>0, <2>1, <2>2, StrcpyKept
  <2> QED BY <2>2, <2>3, CallKeeps
<1>4. CASE CallStrslice
  <2>1. PICK str \in Terminated : \E from \in 0..strlen(mem, str) :
               \E to \in from..strlen(mem, str) : \E out \in RoomApart(to - from + 2, str) :
                 Call(strslice(mem, str, from, to, out))
    BY <1>4, Zenon DEF CallStrslice
  <2>2. PICK from \in 0..strlen(mem, str) :
               \E to \in from..strlen(mem, str) : \E out \in RoomApart(to - from + 2, str) :
                 Call(strslice(mem, str, from, to, out))
    BY <2>1, Zenon
  <2>3. PICK to \in from..strlen(mem, str) : \E out \in RoomApart(to - from + 2, str) :
               Call(strslice(mem, str, from, to, out))
    BY <2>2, Zenon
  <2>4. PICK out \in RoomApart(to - from + 2, str) : Call(strslice(mem, str, from, to, out))
    BY <2>3, Zenon
  <2>5. IsMemory(strslice(mem, str, from, to, out))
    BY <1>0, StrsliceKept
  <2> QED BY <2>4, <2>5, CallKeeps
<1>5. CASE CallStrcat
  <2>1. PICK dest \in Nonempty, append \in Nonempty : \E buffer \in Buffers(dest, append) :
               Call(strcat(mem, dest, append, buffer))
    BY <1>5, Zenon DEF CallStrcat
  <2>2. PICK buffer \in Buffers(dest, append) : Call(strcat(mem, dest, append, buffer))
    BY <2>1, Zenon
  <2>3. IsMemory(strcat(mem, dest, append, buffer))
    BY <1>0, StrcatKept
  <2> QED BY <2>2, <2>3, CallKeeps
<1>6. CASE CallIntToStr \/ CallIntToHex
  <2>1. PICK num : Call(int_to_str(mem, num, 0)) \/ Call(int_to_hex(mem, num, 0))
    BY <1>6, Zenon DEF CallIntToStr, CallIntToHex
  <2>2. IsMemory(int_to_str(mem, num, 0)) /\ IsMemory(int_to_hex(mem, num, 0))
    BY <1>0, NumbersKept
  <2> QED BY <2>1, <2>2, CallKeeps
<1>7. CASE page_fault
  <2>1. PICK err \in KernelFaults : pieces' = Pieces(err)
    BY <1>7, Zenon DEF page_fault
  <2>2. mem' = mem /\ message' = message /\ message.len = 13
    BY <1>7 DEF page_fault, NewMessage
  <2>3. Building'
    BY <2>1, <2>2, PiecesAre DEF Building
  <2> QED BY <2>2, <2>3, Zenon DEF LibraryInv, IsMemory, Memory
<1>8. CASE AppendPiece
  <2> DEFINE a == Head(pieces)
             T == {message.top, message.len + 2 * a + 1}
  <2>1. /\ message' = [len |-> message.len + a, top |-> Max(T)]
        /\ mem' = mem /\ pieces' = Tail(pieces) /\ pieces # <<>>
    BY <1>8, Zenon DEF AppendPiece
  <2>2. message'.len = message.len + a
    BY <2>1
  <2>3. a \in Nat /\ message.len \in Nat /\ message.len + 2 * a + 1 <= 63 /\ Building'
    BY <2>1, <2>2, PieceStep, Zenon DEF LibraryInv
  <2>4. Max(T) = 63
    <3>1. message.top = 63
      BY DEF LibraryInv, MessageSize
    <3> HIDE DEF a
    <3>2. 63 \in T /\ \A y \in T : y <= 63 /\ y \in Int
      BY <2>3, <3>1
    <3>3. \A x \in T : (\A y \in T : x >= y) => x = 63
      BY <3>2
    <3>4. \A y \in T : 63 >= y
      BY <3>2
    <3> HIDE DEF T
    <3> QED BY <3>2, <3>3, <3>4 DEF Max
  <2> QED BY <2>1, <2>2, <2>3, <2>4 DEF LibraryInv, MessageSize, IsMemory, Memory
<1>9. CASE Panic \/ UNCHANGED vars
  <2>1. mem' = mem /\ message' = message /\ pieces' = pieces
    BY <1>9 DEF Panic, vars
  <2> QED BY <2>1, Zenon DEF LibraryInv, Building, IsMemory, Memory
<1> QED BY <1>1, <1>2, <1>3, <1>4, <1>5, <1>6, <1>7, <1>8, <1>9 DEF Next

-----------------------------------------------------------------------------
(* Loops.                                                                  *)

(* There is a function with the equations of a loop of n rounds on the set *)
(* A, if every round stays in A.                                           *)
Loop(step, A, n) == \A k \in 1..n : \A x \in A : step[k][x] \in A

Run(g, a, step, A, n) ==
  g \in [0..n -> A] /\ g[0] = a /\ \A k \in 1..n : g[k] = step[k][g[k - 1]]

LEMMA Recursion ==
  ASSUME NEW n \in Nat, NEW A, NEW step, Loop(step, A, n), NEW a \in A
  PROVE  \E g : Run(g, a, step, A, n)
<1>0. \A k \in 1..n : \A x \in A : step[k][x] \in A
  BY Zenon DEF Loop
<1> DEFINE P(m) == \E g \in [0..m -> A] :
                     g[0] = a /\ \A k \in 1..m : g[k] = step[k][g[k - 1]]
           S == {m \in Nat : m <= n => P(m)}
<1>1. 0 \in S
  <2> DEFINE g == [k \in 0..0 |-> a]
  <2>1. g \in [0..0 -> A] /\ g[0] = a /\ 1..0 = {}
    OBVIOUS
  <2> HIDE DEF g
  <2>2. P(0)
    BY <2>1
  <2> QED BY <2>2
<1>2. ASSUME NEW m \in Nat, m \in S PROVE m + 1 \in S
  <2> SUFFICES ASSUME m + 1 <= n PROVE P(m + 1)
    OBVIOUS
  <2>1. PICK g \in [0..m -> A] : g[0] = a /\ \A k \in 1..m : g[k] = step[k][g[k - 1]]
    BY <1>2
  <2> DEFINE h == [k \in 0..(m + 1) |-> IF k <= m THEN g[k] ELSE step[k][g[m]]]
  <2>2. step[m + 1][g[m]] \in A
    <3>1. m + 1 \in 1..n /\ m \in 0..m
      OBVIOUS
    <3>2. g[m] \in A
      BY <2>1, <3>1
    <3> QED BY <1>0, <3>1, <3>2
  <2>3. ASSUME NEW k \in 0..(m + 1)
        PROVE  (IF k <= m THEN g[k] ELSE step[k][g[m]]) \in A
    <3>1. CASE k <= m
      <4>1. k \in 0..m
        BY <3>1
      <4> QED BY <2>1, <3>1, <4>1
    <3>2. CASE ~(k <= m)
      <4>1. k = m + 1
        BY <3>2
      <4> QED BY <2>2, <3>2, <4>1
    <3> QED BY <3>1, <3>2
  <2>4. h \in [0..(m + 1) -> A]
    BY <2>3
  <2>5. h[0] = a
    BY <2>1
  <2>6. ASSUME NEW k \in 1..(m + 1) PROVE h[k] = step[k][h[k - 1]]
    <3>1. k - 1 \in 0..(m + 1) /\ k - 1 <= m /\ k \in 0..(m + 1)
      OBVIOUS
    <3>2. h[k - 1] = g[k - 1]
      BY <3>1
    <3>3. CASE k <= m
      <4>1. k \in 1..m /\ h[k] = g[k]
        BY <3>1, <3>3
      <4> QED BY <2>1, <3>2, <4>1
    <3>4. CASE ~(k <= m)
      <4>1. k = m + 1 /\ k - 1 = m
        BY <3>4
      <4>2. h[k] = step[k][g[m]]
        BY <3>1, <3>4
      <4> QED BY <3>2, <4>1, <4>2
    <3> QED BY <3>3, <3>4
  <2> HIDE DEF h
  <2> QED BY <2>4, <2>5, <2>6
<1> HIDE DEF S
<1>3. Nat \subseteq S
  BY <1>1, <1>2, SetInduction
<1>4. n \in S /\ n <= n
  BY <1>3
<1>5. P(n)
  BY <1>4 DEF S
<1> QED BY <1>5, Zenon DEF Run

-----------------------------------------------------------------------------
(* Powers.                                                                 *)

(* The equations of a power's function, on 0..n. *)
IsPowers(f, b, n) == \A k \in 0..n : f[k] = IF k = 0 THEN 1 ELSE b * f[k - 1]

LEMMA PowersExist ==
  ASSUME NEW b \in Nat, NEW n \in Nat
  PROVE  \E f : /\ IsPowers(f, b, n)
                /\ Power(b, n) = f[n]
<1> DEFINE F(f) == f = [k \in 0..n |-> IF k = 0 THEN 1 ELSE b * f[k - 1]]
           f == CHOOSE f : F(f)
           step == [k \in 1..n |-> [x \in Nat |-> b * x]]
<1>1. Power(b, n) = f[n]
  BY Zenon DEF Power
<1>2. \E g : Run(g, 1, step, Nat, n)
  <2>1. Loop(step, Nat, n)
    <3>1. \A x \in Nat : b * x \in Nat
      OBVIOUS
    <3> QED BY <3>1, Zenon DEF Loop
  <2>2. 1 \in Nat
    OBVIOUS
  <2> HIDE DEF step
  <2> QED BY <2>1, <2>2, Recursion
<1>3. PICK g : Run(g, 1, step, Nat, n)
  BY <1>2
<1>4. F(g)
  <2>1. g \in [0..n -> Nat] /\ g[0] = 1 /\ \A k \in 1..n : g[k] = step[k][g[k - 1]]
    BY <1>3, Zenon DEF Run
  <2>2. ASSUME NEW k \in 0..n PROVE g[k] = IF k = 0 THEN 1 ELSE b * g[k - 1]
    <3>1. CASE k = 0
      BY <2>1, <3>1
    <3>2. CASE k # 0
      <4>1. k \in 1..n /\ k - 1 \in 0..n
        BY <3>2
      <4>2. g[k - 1] \in Nat
        BY <2>1, <4>1
      <4>3. step[k][g[k - 1]] = b * g[k - 1]
        BY <4>1, <4>2
      <4> QED BY <2>1, <3>2, <4>1, <4>3
    <3> QED BY <3>1, <3>2
  <2>3. g = [k \in 0..n |-> g[k]]
    BY <2>1
  <2> QED BY <2>2, <2>3, Zenon
<1> HIDE DEF step
<1>5. F(f)
  BY <1>4, Zenon
<1> HIDE DEF f
<1>6. IsPowers(f, b, n)
  BY <1>5, Zenon DEF IsPowers
<1> QED BY <1>1, <1>6

LEMMA PowersUnique ==
  ASSUME NEW b \in Nat, NEW n \in Nat, NEW f, NEW g, IsPowers(f, b, n), IsPowers(g, b, n)
  PROVE  f[n] = g[n] /\ f[n] \in Nat
<1> DEFINE I == [k \in 0..n |-> {x \in Nat : x = g[k]}]
<1>0. \A k \in 0..n : /\ f[k] = IF k = 0 THEN 1 ELSE b * f[k - 1]
                      /\ g[k] = IF k = 0 THEN 1 ELSE b * g[k - 1]
  BY DEF IsPowers
<1>1. f[0] \in I[0]
  BY <1>0
<1>2. ASSUME NEW k \in 1..n, f[k - 1] \in I[k - 1] PROVE f[k] \in I[k]
  <2>1. k \in 0..n /\ k - 1 \in 0..n /\ k # 0
    OBVIOUS
  <2>2. f[k - 1] = g[k - 1] /\ f[k - 1] \in Nat
    BY <1>2, <2>1
  <2>3. f[k] = b * f[k - 1] /\ g[k] = b * g[k - 1]
    BY <1>0, <2>1, Zenon
  <2>4. b * f[k - 1] \in Nat
    BY <2>2
  <2> QED BY <2>1, <2>2, <2>3, <2>4
<1> HIDE DEF I
<1>3. \A k \in 0..n : f[k] \in I[k]
  BY <1>1, <1>2, Induction
<1>4. n \in 0..n
  OBVIOUS
<1> QED BY <1>3, <1>4 DEF I

(* Power is b ^ n. *)
LEMMA PowerIs ==
  ASSUME NEW b \in Nat, NEW n \in Nat
  PROVE  Power(b, n) \in Nat /\ Power(b, 0) = 1 /\ Power(b, n + 1) = b * Power(b, n)
<1>1. PICK f : IsPowers(f, b, n) /\ Power(b, n) = f[n]
  BY PowersExist
<1>2. n + 1 \in Nat /\ 0 \in Nat
  OBVIOUS
<1>3. PICK g : IsPowers(g, b, n + 1) /\ Power(b, n + 1) = g[n + 1]
  BY <1>2, PowersExist
<1>4. PICK h : IsPowers(h, b, 0) /\ Power(b, 0) = h[0]
  BY <1>2, PowersExist
<1>5. Power(b, 0) = 1
  <2>1. 0 \in 0..0
    OBVIOUS
  <2> QED BY <1>4, <2>1 DEF IsPowers
<1>6. IsPowers(g, b, n)
  <2>1. \A k \in 0..n : k \in 0..(n + 1)
    OBVIOUS
  <2> QED BY <1>3, <2>1, Zenon DEF IsPowers
<1>7. f[n] = g[n] /\ f[n] \in Nat
  BY <1>1, <1>6, PowersUnique
<1>8. g[n + 1] = b * g[n]
  <2>1. n + 1 \in 0..(n + 1) /\ n + 1 # 0 /\ (n + 1) - 1 = n
    OBVIOUS
  <2> QED BY <1>3, <2>1 DEF IsPowers
<1> QED BY <1>1, <1>3, <1>5, <1>7, <1>8

LEMMA PowerPositive ==
  ASSUME NEW b \in Nat, b >= 1, NEW n \in Nat
  PROVE  Power(b, n) >= 1
<1> DEFINE S == {k \in Nat : Power(b, k) >= 1}
<1>1. 0 \in S
  <2>1. 0 \in Nat
    OBVIOUS
  <2> QED BY <2>1, PowerIs
<1>2. ASSUME NEW k \in Nat, k \in S PROVE k + 1 \in S
  <2>1. Power(b, k) \in Nat /\ Power(b, k) >= 1 /\ Power(b, k + 1) = b * Power(b, k)
    BY <1>2, PowerIs
  <2>2. \A x \in Nat : x >= 1 => b * x >= 1
    OBVIOUS
  <2> QED BY <2>1, <2>2
<1> HIDE DEF S
<1>3. Nat \subseteq S
  BY <1>1, <1>2, SetInduction
<1> QED BY <1>3 DEF S

(* A power of two ends with none of the digits 0, 3, 5, 7 and 9. *)
LEMMA LastDigit ==
  ASSUME NEW n \in Nat
  PROVE  Power(2, n) % 10 \in {1, 2, 4, 6, 8}
<1> DEFINE S == {k \in Nat : Power(2, k) % 10 \in {1, 2, 4, 6, 8}}
<1>0. 2 \in Nat /\ 0 \in Nat
  OBVIOUS
<1>1. 0 \in S
  <2>1. Power(2, 0) = 1
    BY <1>0, PowerIs
  <2> QED BY <2>1
<1>2. ASSUME NEW k \in Nat, k \in S PROVE k + 1 \in S
  <2>1. Power(2, k) \in Nat /\ Power(2, k + 1) = 2 * Power(2, k)
    BY <1>0, PowerIs
  <2>2. \A x \in Nat : x % 10 \in {1, 2, 4, 6, 8} => (2 * x) % 10 \in {1, 2, 4, 6, 8}
    OBVIOUS
  <2>3. Power(2, k) % 10 \in {1, 2, 4, 6, 8}
    BY <1>2
  <2> QED BY <2>1, <2>2, <2>3
<1> HIDE DEF S
<1>3. Nat \subseteq S
  BY <1>1, <1>2, SetInduction
<1> QED BY <1>3 DEF S

(* Four bits are one hexadecimal digit. *)
LEMMA Sixteen ==
  ASSUME NEW n \in Nat
  PROVE  Power(2, 4 * n) = Power(16, n)
<1> DEFINE S == {k \in Nat : Power(2, 4 * k) = Power(16, k)}
<1>0. 2 \in Nat /\ 0 \in Nat /\ 16 \in Nat
  OBVIOUS
<1>1. 0 \in S
  <2>1. Power(2, 0) = 1 /\ Power(16, 0) = 1 /\ 4 * 0 = 0
    BY <1>0, PowerIs
  <2> QED BY <2>1
<1>2. ASSUME NEW k \in Nat, k \in S PROVE k + 1 \in S
  <2>0. PICK j \in Nat : j = 4 * k
    OBVIOUS
  <2>1. /\ Power(2, j) \in Nat /\ Power(2, j + 1) = 2 * Power(2, j)
        /\ Power(2, (j + 1) + 1) = 2 * Power(2, j + 1)
        /\ Power(2, ((j + 1) + 1) + 1) = 2 * Power(2, (j + 1) + 1)
        /\ Power(2, (((j + 1) + 1) + 1) + 1) = 2 * Power(2, ((j + 1) + 1) + 1)
    <3>1. j + 1 \in Nat /\ (j + 1) + 1 \in Nat /\ ((j + 1) + 1) + 1 \in Nat
      OBVIOUS
    <3> QED BY <1>0, <3>1, PowerIs
  <2>2. (((j + 1) + 1) + 1) + 1 = 4 * (k + 1)
    BY <2>0
  <2>3. Power(16, k) \in Nat /\ Power(16, k + 1) = 16 * Power(16, k)
    BY <1>0, PowerIs
  <2>4. Power(2, j) = Power(16, k)
    BY <1>2, <2>0
  <2>5. Power(2, (((j + 1) + 1) + 1) + 1) = 16 * Power(2, j)
    BY <2>1
  <2>6. Power(2, 4 * (k + 1)) = Power(16, k + 1)
    BY <2>2, <2>3, <2>4, <2>5
  <2> QED BY <2>6
<1> HIDE DEF S
<1>3. Nat \subseteq S
  BY <1>1, <1>2, SetInduction
<1> QED BY <1>3 DEF S

(* The least int is even and no multiple of ten. *)
LEMMA LeastIntIs ==
  /\ -LeastInt \in Nat /\ LeastInt \in Int /\ -LeastInt >= 1
  /\ (-LeastInt) % 10 # 0 /\ LeastInt = -(-LeastInt)
<1>1. 2 \in Nat /\ Width - 1 \in Nat
  BY WidthAssumption
<1> DEFINE p == Power(2, Width - 1)
<1>2. p \in Nat /\ p >= 1 /\ p % 10 \in {1, 2, 4, 6, 8}
  BY <1>1, PowerIs, PowerPositive, LastDigit
<1>3. LeastInt = -p
  BY Zenon DEF LeastInt
<1> HIDE DEF p
<1> QED BY <1>2, <1>3

-----------------------------------------------------------------------------
(* The decimal digits of a number.                                         *)

(* The arguments of int_to_str's loop, and more rounds than it can make. *)
Numbers == LeastInt..(-LeastInt)

Rounds == 1 - LeastInt

(* One round. *)
LEMMA QuotientIs ==
  ASSUME NEW n \in Int
  PROVE  /\ Quotient(n) \in Int /\ Remainder(n) = n - 10 * Quotient(n)
         /\ n >= 0 => Quotient(n) \in 0..n /\ Remainder(n) \in 0..9
         /\ n > 0 => Quotient(n) < n
         /\ n <= 0 => Quotient(n) \in n..0 /\ Remainder(n) \in (-9)..0
         /\ n < 0 => Quotient(n) > n
<1>1. CASE n < 0
  <2>1. PICK m \in Nat : m = -n
    BY <1>1
  <2>2. Quotient(n) = -(m \div 10) /\ Remainder(n) = n - 10 * Quotient(n)
    BY <1>1, <2>1 DEF Quotient, Remainder
  <2>3. PICK q \in Nat : q = m \div 10 /\ q < m /\ m - 10 * q \in 0..9
    BY <1>1, <2>1
  <2> QED BY <1>1, <2>1, <2>2, <2>3
<1>2. CASE n >= 0
  <2>1. Quotient(n) = n \div 10 /\ Remainder(n) = n - 10 * Quotient(n)
    BY <1>2 DEF Quotient, Remainder
  <2>2. n \div 10 \in Nat /\ n - 10 * (n \div 10) \in 0..9
    BY <1>2
  <2> QED BY <1>2, <2>1, <2>2
<1> QED BY <1>1, <1>2

LEMMA NumbersAre ==
  /\ Numbers \subseteq Int /\ 0 \in Numbers
  /\ \A n \in Numbers : Quotient(n) \in Numbers /\ -n \in Numbers /\ Quotient(-n) = -Quotient(n)
  /\ Rounds \in Nat /\ Rounds >= 1
  /\ \A n \in Numbers : n < Rounds /\ -n < Rounds
<1> DEFINE M == -LeastInt
<1>1. M \in Nat /\ LeastInt = -M
  BY LeastIntIs
<1> HIDE DEF M
<1>2. Numbers = (-M)..M /\ Rounds = 1 + M
  BY <1>1 DEF Numbers, Rounds, M
<1>3. ASSUME NEW n \in Numbers PROVE Quotient(n) \in Numbers
  <2>1. n \in Int
    BY <1>1, <1>2
  <2>2. Quotient(n) \in Int /\ (n >= 0 => Quotient(n) \in 0..n) /\ (n <= 0 => Quotient(n) \in n..0)
    BY <2>1, QuotientIs
  <2> QED BY <1>1, <1>2, <2>1, <2>2
<1>4. ASSUME NEW n \in Numbers PROVE Quotient(-n) = -Quotient(n)
  <2>1. n \in Int
    BY <1>1, <1>2
  <2> QED BY <2>1 DEF Quotient
<1> QED BY <1>1, <1>2, <1>3, <1>4

(* What is left of each number after k rounds. *)
IsQuotients(h) ==
  /\ h \in [0..Rounds -> [Numbers -> Numbers]]
  /\ \A n \in Numbers : h[0][n] = n
  /\ \A k \in 1..Rounds : \A n \in Numbers : h[k][n] = Quotient(h[k - 1][n])

Quotients == CHOOSE h : IsQuotients(h)

LEMMA QuotientsAre == IsQuotients(Quotients)
<1> DEFINE A == [Numbers -> Numbers]
           one(x) == [n \in Numbers |-> Quotient(x[n])]
           step == [k \in 1..Rounds |-> [x \in A |-> one(x)]]
           id == [n \in Numbers |-> n]
<1>0. Rounds \in Nat
  BY NumbersAre
<1>1. \A x \in A : one(x) \in A
  <2>1. \A n \in Numbers : Quotient(n) \in Numbers
    BY NumbersAre
  <2> QED BY <2>1
<1>2. Loop(step, A, Rounds)
  <2> HIDE DEF A, one
  <2> QED BY <1>1, Zenon DEF Loop
<1>3. id \in A
  OBVIOUS
<1>4. PICK h : Run(h, id, step, A, Rounds)
  <2> HIDE DEF A, step, id
  <2> QED BY <1>0, <1>2, <1>3, Recursion
<1>5. h \in [0..Rounds -> A] /\ h[0] = id /\ \A k \in 1..Rounds : h[k] = step[k][h[k - 1]]
  BY <1>4, Zenon DEF Run
<1>6. ASSUME NEW k \in 1..Rounds, NEW n \in Numbers PROVE h[k][n] = Quotient(h[k - 1][n])
  <2>1. k - 1 \in 0..Rounds
    BY <1>0
  <2>2. h[k - 1] \in A
    BY <1>5, <2>1
  <2>3. h[k] = one(h[k - 1])
    <3> HIDE DEF A, one
    <3> QED BY <1>5, <2>2
  <2> QED BY <2>3
<1>7. IsQuotients(h)
  BY <1>5, <1>6 DEF IsQuotients
<1> QED BY <1>7, Zenon DEF Quotients

LEMMA QuotientsType ==
  /\ \A k \in 0..Rounds : \A n \in Numbers : Quotients[k][n] \in Numbers /\ Quotients[k][n] \in Int
  /\ \A n \in Numbers : Quotients[0][n] = n
  /\ \A k \in 1..Rounds : \A n \in Numbers : Quotients[k][n] = Quotient(Quotients[k - 1][n])
<1>1. ASSUME NEW k \in 0..Rounds, NEW n \in Numbers PROVE Quotients[k][n] \in Numbers
  <2>1. Quotients \in [0..Rounds -> [Numbers -> Numbers]]
    BY QuotientsAre, Zenon DEF IsQuotients
  <2>2. Quotients[k] \in [Numbers -> Numbers]
    BY <2>1
  <2> QED BY <2>2
<1>2. Numbers \subseteq Int
  BY NumbersAre
<1>3. /\ \A n \in Numbers : Quotients[0][n] = n
      /\ \A k \in 1..Rounds : \A n \in Numbers : Quotients[k][n] = Quotient(Quotients[k - 1][n])
  BY QuotientsAre, Zenon DEF IsQuotients
<1> QED BY <1>1, <1>2, <1>3

(* A round more at the front or at the end. *)
LEMMA Commute ==
  ASSUME NEW n \in Numbers, NEW k \in 0..(Rounds - 1)
  PROVE  Quotients[k][Quotient(n)] = Quotients[k + 1][n]
<1>0. Rounds \in Nat /\ Rounds >= 1 /\ Quotient(n) \in Numbers
  BY NumbersAre
<1> DEFINE N == Rounds - 1
           q == Quotient(n)
           f == [j \in 0..N |-> Quotients[j][q]]
           I == [j \in 0..N |-> {Quotients[j + 1][n]}]
<1>1. N \in Nat
  BY <1>0
<1>2. f[0] \in I[0]
  <2>1. Quotients[0][q] = q /\ Quotients[0][n] = n
    BY <1>0, QuotientsType
  <2>2. 1 \in 1..Rounds /\ 1 - 1 = 0 /\ 0 + 1 = 1 /\ 0 \in 0..N
    BY <1>0
  <2>3. Quotients[1][n] = Quotient(Quotients[1 - 1][n])
    BY <2>2, QuotientsType
  <2>4. Quotients[0 + 1][n] = q
    BY <2>1, <2>2, <2>3
  <2> HIDE DEF q
  <2> QED BY <2>1, <2>2, <2>4
<1>3. ASSUME NEW j \in 1..N, f[j - 1] \in I[j - 1] PROVE f[j] \in I[j]
  <2>1. /\ j \in 0..N /\ j - 1 \in 0..N /\ j \in 1..Rounds /\ j + 1 \in 1..Rounds
        /\ (j + 1) - 1 = j /\ (j - 1) + 1 = j
    BY <1>0
  <2>2. Quotients[j - 1][q] = Quotients[(j - 1) + 1][n]
    BY <1>3, <2>1
  <2>3. Quotients[j][q] = Quotient(Quotients[j - 1][q])
    BY <1>0, <2>1, QuotientsType
  <2>4. Quotients[j + 1][n] = Quotient(Quotients[(j + 1) - 1][n])
    BY <2>1, QuotientsType
  <2>5. Quotients[j][q] = Quotients[j + 1][n]
    BY <2>1, <2>2, <2>3, <2>4
  <2> HIDE DEF q
  <2> QED BY <2>1, <2>5
<1> HIDE DEF f, I, N
<1>4. \A j \in 0..N : f[j] \in I[j]
  BY <1>1, <1>2, <1>3, Induction
<1>5. k \in 0..N
  BY DEF N
<1> QED BY <1>4, <1>5 DEF f, I

(* k rounds take k at least from a number, or all of it. *)
LEMMA Shrinks ==
  ASSUME NEW n \in Numbers, n >= 0, NEW k \in 0..Rounds
  PROVE  Quotients[k][n] \in 0..n /\ (Quotients[k][n] = 0 \/ Quotients[k][n] <= n - k)
<1>0. Rounds \in Nat /\ n \in Nat
  BY NumbersAre
<1> DEFINE f == [j \in 0..Rounds |-> Quotients[j][n]]
           I == [j \in 0..Rounds |-> {x \in 0..n : x = 0 \/ x <= n - j}]
<1>1. f[0] \in I[0]
  <2>1. Quotients[0][n] = n
    BY QuotientsType
  <2> QED BY <1>0, <2>1
<1>2. ASSUME NEW j \in 1..Rounds, f[j - 1] \in I[j - 1] PROVE f[j] \in I[j]
  <2>1. j \in 0..Rounds /\ j - 1 \in 0..Rounds
    BY <1>0
  <2>2. PICK x : x = Quotients[j - 1][n]
    OBVIOUS
  <2>3. x \in 0..n /\ (x = 0 \/ x <= n - (j - 1))
    BY <1>2, <2>1, <2>2
  <2>4. Quotients[j][n] = Quotient(x)
    BY <2>2, QuotientsType
  <2>5. x \in Int /\ x >= 0
    BY <1>0, <2>3
  <2>6. Quotient(x) \in 0..x /\ (x > 0 => Quotient(x) < x)
    BY <2>5, QuotientIs
  <2>7. Quotient(x) \in 0..n /\ (Quotient(x) = 0 \/ Quotient(x) <= n - j)
    BY <1>0, <2>3, <2>5, <2>6
  <2> QED BY <2>1, <2>4, <2>7
<1> HIDE DEF f, I
<1>3. \A j \in 0..Rounds : f[j] \in I[j]
  BY <1>0, <1>1, <1>2, Induction
<1> QED BY <1>3 DEF f, I

(* Negative numbers go the same way. *)
LEMMA Mirror ==
  ASSUME NEW n \in Numbers, NEW k \in 0..Rounds
  PROVE  Quotients[k][-n] = -Quotients[k][n]
<1>0. Rounds \in Nat /\ -n \in Numbers /\ Numbers \subseteq Int
  BY NumbersAre
<1> DEFINE f == [j \in 0..Rounds |-> Quotients[j][-n]]
           I == [j \in 0..Rounds |-> {-Quotients[j][n]}]
<1>1. f[0] \in I[0]
  <2>1. Quotients[0][n] = n /\ Quotients[0][-n] = -n
    BY <1>0, QuotientsType
  <2> QED BY <1>0, <2>1
<1>2. ASSUME NEW j \in 1..Rounds, f[j - 1] \in I[j - 1] PROVE f[j] \in I[j]
  <2>1. j \in 0..Rounds /\ j - 1 \in 0..Rounds
    BY <1>0
  <2>2. PICK x : x = Quotients[j - 1][n]
    OBVIOUS
  <2>3. x \in Numbers /\ Quotients[j - 1][-n] = -x
    BY <1>2, <2>1, <2>2, QuotientsType
  <2>4. Quotients[j][n] = Quotient(x) /\ Quotients[j][-n] = Quotient(-x)
    BY <1>0, <2>2, <2>3, QuotientsType
  <2>5. Quotient(-x) = -Quotient(x)
    BY <2>3, NumbersAre
  <2> QED BY <2>1, <2>4, <2>5
<1> HIDE DEF f, I
<1>3. \A j \in 0..Rounds : f[j] \in I[j]
  BY <1>0, <1>1, <1>2, Induction
<1> QED BY <1>3 DEF f, I

LEMMA Finished ==
  ASSUME NEW n \in Numbers, NEW k \in 0..Rounds, n < k, -n < k
  PROVE  Quotients[k][n] = 0
<1>0. n \in Int /\ -n \in Numbers /\ Rounds \in Nat /\ -(-n) = n
  BY NumbersAre
<1>1. CASE n >= 0
  <2>1. Quotients[k][n] \in 0..n /\ (Quotients[k][n] = 0 \/ Quotients[k][n] <= n - k)
    BY <1>1, Shrinks
  <2> QED BY <1>0, <1>1, <2>1
<1>2. CASE n < 0
  <2>0. PICK m \in Numbers : m = -n /\ m >= 0 /\ n = -m /\ m \in Int /\ m < k
    BY <1>0, <1>2
  <2>1. Quotients[k][m] \in 0..m /\ (Quotients[k][m] = 0 \/ Quotients[k][m] <= m - k)
    BY <2>0, Shrinks
  <2>2. Quotients[k][-m] = -Quotients[k][m]
    BY Mirror
  <2>3. Quotients[k][m] = 0
    BY <1>0, <2>0, <2>1
  <2>4. \A x \in Int : -x = 0 - x
    OBVIOUS
  <2>5. Quotients[k][-m] = 0 - Quotients[k][m]
    BY <2>2, <2>4, QuotientsType
  <2>6. Quotients[k][-m] = 0
    BY <2>3, <2>5
  <2> QED BY <2>0, <2>6, Zenon
<1> QED BY <1>0, <1>1, <1>2

(* The number of digits: rounds of the loop. *)
Count(n) == Min({k \in 1..Rounds : Quotients[k][n] = 0})

LEMMA CountIs ==
  ASSUME NEW n \in Numbers
  PROVE  /\ Count(n) \in 1..Rounds /\ Count(n) \in Nat /\ Quotients[Count(n)][n] = 0
         /\ \A k \in 1..Rounds : Quotients[k][n] = 0 => Count(n) <= k
<1> DEFINE T == {k \in 1..Rounds : Quotients[k][n] = 0}
<1>0. Rounds \in Nat /\ Rounds >= 1 /\ n < Rounds /\ -n < Rounds
  BY NumbersAre
<1>1. Quotients[Rounds][n] = 0
  BY <1>0, Finished
<1>2. T \subseteq Nat /\ T # {}
  BY <1>0, <1>1
<1>3. Count(n) = Min(T)
  BY Zenon DEF Count
<1>4. Count(n) \in T /\ \A y \in T : Count(n) <= y
  <2> HIDE DEF T
  <2> QED BY <1>2, <1>3, MinIs
<1> QED BY <1>0, <1>4

LEMMA CountUnique ==
  ASSUME NEW n \in Numbers, NEW c \in 1..Rounds, Quotients[c][n] = 0,
         \A k \in 1..(c - 1) : Quotients[k][n] # 0
  PROVE  Count(n) = c
<1>0. Rounds \in Nat
  BY NumbersAre
<1>1. Count(n) \in 1..Rounds /\ Quotients[Count(n)][n] = 0 /\ Count(n) <= c
  BY CountIs
<1>2. ~(Count(n) < c)
  <2>1. Count(n) < c => Count(n) \in 1..(c - 1)
    BY <1>0, <1>1
  <2> QED BY <1>1, <2>1
<1> QED BY <1>0, <1>1, <1>2

(* A number has one digit more than its quotient. *)
LEMMA CountStep ==
  ASSUME NEW n \in Numbers
  PROVE  /\ Quotient(n) = 0 => Count(n) = 1
         /\ Quotient(n) # 0 => Count(n) = Count(Quotient(n)) + 1
<1>0. /\ Rounds \in Nat /\ Rounds >= 1 /\ n \in Int /\ n < Rounds /\ -n < Rounds
      /\ Quotient(n) \in Numbers
  BY NumbersAre
<1>1. Quotients[1][n] = Quotient(n)
  <2>1. 1 \in 1..Rounds /\ 1 - 1 = 0
    BY <1>0
  <2>2. Quotients[1][n] = Quotient(Quotients[1 - 1][n])
    BY <2>1, QuotientsType
  <2>3. Quotients[0][n] = n
    BY QuotientsType
  <2> QED BY <2>1, <2>2, <2>3
<1>2. ASSUME Quotient(n) = 0 PROVE Count(n) = 1
  <2>1. 1 \in 1..Rounds /\ 1..(1 - 1) = {}
    BY <1>0
  <2>2. Quotients[1][n] = 0
    BY <1>1, <1>2
  <2> QED BY <2>1, <2>2, CountUnique
<1>3. ASSUME Quotient(n) # 0 PROVE Count(n) = Count(Quotient(n)) + 1
  <2> DEFINE q == Quotient(n)
             c == Count(q)
  <2>1. /\ c \in 1..Rounds /\ c \in Nat /\ Quotients[c][q] = 0
        /\ \A k \in 1..Rounds : Quotients[k][q] = 0 => c <= k
    BY <1>0, CountIs
  <2>2. q \in Int /\ q < Rounds - 1 /\ -q < Rounds - 1
    <3>1. /\ n >= 0 => q \in 0..n
          /\ n > 0 => q < n
          /\ n <= 0 => q \in n..0
          /\ n < 0 => q > n
      BY <1>0, QuotientIs
    <3> HIDE DEF q
    <3>2. q # 0 /\ q \in Int
      BY <1>0, <1>3, NumbersAre DEF q
    <3> QED BY <1>0, <3>1, <3>2
  <2>3. c <= Rounds - 1
    <3> HIDE DEF q, c
    <3>1. Rounds - 1 \in 0..Rounds /\ Rounds - 1 \in 1..Rounds /\ q \in Numbers
      BY <1>0, <2>2 DEF q
    <3>2. Quotients[Rounds - 1][q] = 0
      BY <2>2, <3>1, Finished
    <3> QED BY <2>1, <3>1, <3>2
  <2>4. Quotients[c + 1][n] = 0
    <3>1. c \in 0..(Rounds - 1)
      BY <1>0, <2>1, <2>3
    <3>2. Quotients[c][q] = Quotients[c + 1][n]
      BY <3>1, Commute
    <3> QED BY <2>1, <3>2
  <2>5. ASSUME NEW k \in 1..((c + 1) - 1) PROVE Quotients[k][n] # 0
    <3>1. CASE k = 1
      BY <1>1, <1>3, <3>1
    <3>2. CASE k # 1
      <4>1. k - 1 \in 1..Rounds /\ k - 1 \in 0..(Rounds - 1) /\ (k - 1) + 1 = k /\ k - 1 < c
        BY <1>0, <2>1, <2>3, <3>2
      <4>2. Quotients[k - 1][q] # 0
        <5>1. ~(c <= k - 1)
          BY <2>1, <4>1
        <5> QED BY <2>1, <4>1, <5>1
      <4>3. Quotients[k - 1][q] = Quotients[(k - 1) + 1][n]
        BY <4>1, Commute
      <4> QED BY <4>1, <4>2, <4>3
    <3> QED BY <3>1, <3>2
  <2>6. c + 1 \in 1..Rounds
    BY <1>0, <2>1, <2>3
  <2> HIDE DEF c, q
  <2>7. Count(n) = c + 1
    BY <2>4, <2>5, <2>6, CountUnique
  <2> QED BY <2>7 DEF c, q
<1> QED BY <1>2, <1>3

(* The digits of a number, from the last to the first. *)
DigitsOf(n) == [k \in 1..Count(n) |-> 48 + Remainder(Quotients[k - 1][n])]

LEMMA DigitsOfIs ==
  ASSUME NEW n \in Numbers
  PROVE  /\ DigitsOf(n) \in Seq(Nat) /\ Len(DigitsOf(n)) = Count(n)
         /\ \A k \in 1..Count(n) : DigitsOf(n)[k] = 48 + Remainder(Quotients[k - 1][n])
<1>1. Count(n) \in 1..Rounds /\ Count(n) \in Nat /\ Rounds \in Nat
  BY CountIs, NumbersAre
<1>2. ASSUME NEW k \in 1..Count(n) PROVE 48 + Remainder(Quotients[k - 1][n]) \in Nat
  <2>1. k - 1 \in 0..Rounds
    BY <1>1
  <2>2. PICK x \in Int : x = Quotients[k - 1][n]
    BY <2>1, QuotientsType
  <2>3. Remainder(x) \in (-9)..9
    BY QuotientIs
  <2> QED BY <2>2, <2>3
<1> DEFINE s == DigitsOf(n)
<1>3. s \in [1..Count(n) -> Nat] /\ \A k \in 1..Count(n) : s[k] = 48 + Remainder(Quotients[k - 1][n])
  BY <1>2 DEF DigitsOf
<1> HIDE DEF s
<1>4. s \in Seq(Nat) /\ Len(s) = Count(n)
  BY <1>1, <1>3
<1> QED BY <1>3, <1>4 DEF s

LEMMA DigitsStep ==
  ASSUME NEW n \in Numbers
  PROVE  DigitsOf(n) = <<48 + Remainder(n)>> \o
                         (IF Quotient(n) = 0 THEN <<>> ELSE DigitsOf(Quotient(n)))
<1> DEFINE u == DigitsOf(n)
           q == Quotient(n)
           t == IF q = 0 THEN <<>> ELSE DigitsOf(q)
           d == 48 + Remainder(n)
           s == <<d>>
<1>0. q \in Numbers /\ Rounds \in Nat /\ n \in Int
  BY NumbersAre
<1>1. /\ u \in Seq(Nat) /\ Len(u) = Count(n)
      /\ \A k \in 1..Count(n) : u[k] = 48 + Remainder(Quotients[k - 1][n])
  BY DigitsOfIs
<1>2. /\ q # 0 => t \in Seq(Nat) /\ Len(t) = Count(q)
      /\ q # 0 => \A k \in 1..Count(q) : t[k] = 48 + Remainder(Quotients[k - 1][q])
  BY <1>0, DigitsOfIs
<1>3. q = 0 => t \in Seq(Nat) /\ Len(t) = 0
  OBVIOUS
<1>4. /\ q = 0 => Count(n) = 1
      /\ q # 0 => Count(n) = Count(q) + 1
  BY CountStep
<1>5. Count(n) \in 1..Rounds /\ Count(q) \in 1..Rounds
  BY <1>0, CountIs
<1>6. Quotients[0][n] = n
  BY QuotientsType
<1>7. u[1] = d
  <2>1. 1 \in 1..Count(n) /\ 1 - 1 = 0
    BY <1>0, <1>5
  <2> QED BY <1>1, <1>6, <2>1
<1>8. ASSUME NEW i \in 1..Count(n), i # 1 PROVE q # 0 /\ u[i] = t[i - 1]
  <2>1. q # 0 /\ Count(n) = Count(q) + 1
    BY <1>4, <1>5, <1>8
  <2>2. /\ i - 1 \in 1..Count(q) /\ (i - 1) - 1 \in 0..(Rounds - 1) /\ ((i - 1) - 1) + 1 = i - 1
    BY <1>0, <1>5, <1>8, <2>1
  <2>3. t[i - 1] = 48 + Remainder(Quotients[(i - 1) - 1][q])
    BY <1>2, <2>1, <2>2
  <2>4. Quotients[(i - 1) - 1][q] = Quotients[((i - 1) - 1) + 1][n]
    BY <2>2, Commute
  <2> QED BY <1>1, <2>1, <2>2, <2>3, <2>4
<1>9. d \in Nat
  <2>1. 1 \in 1..Len(u)
    BY <1>0, <1>1, <1>5
  <2> QED BY <1>1, <1>7, <2>1
<1> HIDE DEF u, t, d, q
<1>10. s \in Seq(Nat) /\ Len(s) = 1 /\ s[1] = d
  BY <1>9
<1> HIDE DEF s
<1>11. /\ t \in Seq(Nat) /\ Len(u) = Len(s) + Len(t)
  BY <1>0, <1>1, <1>2, <1>3, <1>4, <1>5, <1>10
<1>12. \A i \in 1..Len(u) : u[i] = IF i <= Len(s) THEN s[i] ELSE t[i - Len(s)]
  <2> SUFFICES ASSUME NEW i \in 1..Len(u)
               PROVE  u[i] = IF i <= Len(s) THEN s[i] ELSE t[i - Len(s)]
    OBVIOUS
  <2>1. i \in 1..Count(n) /\ (i <= Len(s) <=> i = 1)
    BY <1>0, <1>1, <1>5, <1>10
  <2>2. CASE i = 1
    BY <1>7, <1>10, <2>1, <2>2
  <2>3. CASE i # 1
    BY <1>8, <1>10, <2>1, <2>3
  <2> QED BY <2>2, <2>3
<1>13. s \o t = u
  BY <1>1, <1>10, <1>11, <1>12, Joined, Zenon
<1> QED BY <1>13, Zenon DEF s, t, u, d, q

(* int_to_str's digits are these. *)
LEMMA DigitsAre ==
  ASSUME NEW num \in Numbers
  PROVE  Digits(num) = DigitsOf(num)
<1> DEFINE F(f) == f = [n \in LeastInt..(-LeastInt) |->
                          <<48 + Remainder(n)>> \o
                            (IF Quotient(n) = 0 THEN <<>> ELSE f[Quotient(n)])]
           f == CHOOSE f : F(f)
           g == [n \in Numbers |-> DigitsOf(n)]
<1>1. Digits(num) = f[num]
  BY Zenon DEF Digits
<1>2. F(g)
  <2>1. ASSUME NEW n \in Numbers
        PROVE  g[n] = <<48 + Remainder(n)>> \o
                        (IF Quotient(n) = 0 THEN <<>> ELSE g[Quotient(n)])
    <3>1. Quotient(n) \in Numbers
      BY NumbersAre
    <3>2. g[n] = DigitsOf(n) /\ g[Quotient(n)] = DigitsOf(Quotient(n))
      BY <3>1, Zenon
    <3>3. DigitsOf(n) = <<48 + Remainder(n)>> \o
                          (IF Quotient(n) = 0 THEN <<>> ELSE DigitsOf(Quotient(n)))
      BY DigitsStep
    <3> QED BY <3>2, <3>3, Zenon
  <2>2. g = [n \in Numbers |-> g[n]]
    OBVIOUS
  <2> HIDE DEF g
  <2>3. g = [n \in Numbers |-> <<48 + Remainder(n)>> \o
                        (IF Quotient(n) = 0 THEN <<>> ELSE g[Quotient(n)])]
    BY <2>1, <2>2, Zenon
  <2> QED BY <2>3, Zenon DEF Numbers
<1> HIDE DEF g
<1>3. F(f)
  BY <1>2, Zenon
<1> HIDE DEF f
<1>4. ASSUME NEW n \in Numbers
      PROVE  /\ f[n] = <<48 + Remainder(n)>> \o (IF Quotient(n) = 0 THEN <<>> ELSE f[Quotient(n)])
             /\ g[n] = <<48 + Remainder(n)>> \o (IF Quotient(n) = 0 THEN <<>> ELSE g[Quotient(n)])
  BY <1>2, <1>3, Zenon DEF Numbers
<1> DEFINE T == {k \in Nat : \E n \in Numbers : (n = k \/ -n = k) /\ f[n] # g[n]}
<1>5. T = {}
  <2> SUFFICES ASSUME T # {} PROVE FALSE
    OBVIOUS
  <2>1. PICK k \in T : \A y \in T : k <= y
    <3>1. T \subseteq Nat
      OBVIOUS
    <3> HIDE DEF T
    <3> QED BY <3>1, Least
  <2>2. PICK n \in Numbers : (n = k \/ -n = k) /\ f[n] # g[n]
    OBVIOUS
  <2>3. Quotient(n) # 0 /\ f[Quotient(n)] # g[Quotient(n)]
    BY <1>4, <2>2, Zenon
  <2> DEFINE q == Quotient(n)
  <2>4. /\ q \in Numbers /\ q \in Int /\ n \in Int
        /\ n >= 0 => q \in 0..n
        /\ n > 0 => q < n
        /\ n <= 0 => q \in n..0
        /\ n < 0 => q > n
    BY NumbersAre, QuotientIs
  <2>5. k \in Nat
    OBVIOUS
  <2>6. PICK j \in Nat : (q = j \/ -q = j) /\ j < k
    <3> HIDE DEF q, T, f
    <3>0. q # 0
      BY <2>3 DEF q
    <3>1. CASE n >= 0
      <4>1. q \in Nat /\ q < k
        BY <2>2, <2>4, <2>5, <3>0, <3>1
      <4> QED BY <4>1
    <3>2. CASE n < 0
      <4>1. -q \in Nat /\ -q < k
        BY <2>2, <2>4, <2>5, <3>0, <3>2
      <4> QED BY <4>1
    <3> QED BY <2>4, <3>1, <3>2
  <2>7. j \in T
    BY <2>3, <2>4, <2>6
  <2> HIDE DEF T
  <2> QED BY <2>1, <2>5, <2>6, <2>7
<1>6. f[num] = g[num]
  <2>1. num \in Int
    BY NumbersAre
  <2>2. PICK k \in Nat : num = k \/ -num = k
    <3>1. num >= 0 \/ -num >= 0
      BY <2>1
    <3> QED BY <2>1, <3>1
  <2> QED BY <1>5, <2>2
<1> QED BY <1>1, <1>6, Zenon DEF g

(* A larger number has no fewer digits. *)
LEMMA CountMonotone ==
  ASSUME NEW m \in Numbers, NEW n \in Numbers, 0 <= m, m <= n
  PROVE  Count(m) <= Count(n)
<1>0. Rounds \in Nat /\ m \in Nat /\ n \in Nat
  BY NumbersAre
<1> DEFINE f == [j \in 0..Rounds |-> Quotients[j][m]]
           I == [j \in 0..Rounds |-> {x \in Nat : x <= Quotients[j][n]}]
<1>1. f[0] \in I[0]
  <2>1. Quotients[0][m] = m /\ Quotients[0][n] = n
    BY QuotientsType
  <2> QED BY <1>0, <2>1
<1>2. ASSUME NEW j \in 1..Rounds, f[j - 1] \in I[j - 1] PROVE f[j] \in I[j]
  <2>1. j \in 0..Rounds /\ j - 1 \in 0..Rounds
    BY <1>0
  <2>2. PICK x, y : x = Quotients[j - 1][m] /\ y = Quotients[j - 1][n]
    OBVIOUS
  <2>3. x \in Nat /\ y \in Int /\ x <= y
    BY <1>2, <2>1, <2>2, QuotientsType
  <2>4. Quotients[j][m] = Quotient(x) /\ Quotients[j][n] = Quotient(y)
    BY <2>2, QuotientsType
  <2>5. Quotient(x) = x \div 10 /\ Quotient(y) = y \div 10
    BY <2>3 DEF Quotient
  <2>6. x \div 10 \in Nat /\ x \div 10 <= y \div 10
    BY <2>3
  <2>7. Quotients[j][m] \in Nat /\ Quotients[j][m] <= Quotients[j][n]
    BY <2>4, <2>5, <2>6
  <2> QED BY <2>1, <2>7
<1> HIDE DEF f, I
<1>3. \A j \in 0..Rounds : f[j] \in I[j]
  BY <1>0, <1>1, <1>2, Induction
<1>4. \A j \in 0..Rounds : Quotients[j][m] \in Nat /\ Quotients[j][m] <= Quotients[j][n]
  BY <1>3 DEF f, I
<1> DEFINE c == Count(n)
<1>5. c \in 1..Rounds /\ Quotients[c][n] = 0
  BY CountIs
<1>6. /\ \A k \in 1..Rounds : Quotients[k][m] = 0 => Count(m) <= k
  BY CountIs
<1> HIDE DEF c
<1>7. Quotients[c][m] = 0
  <2>1. c \in 0..Rounds
    BY <1>0, <1>5
  <2> QED BY <1>4, <1>5, <2>1
<1>8. Count(m) <= c
  BY <1>5, <1>6, <1>7
<1> QED BY <1>8 DEF c

(* As many digits as of the negative number. *)
LEMMA CountMirror ==
  ASSUME NEW n \in Numbers
  PROVE  Count(-n) = Count(n)
<1>0. Rounds \in Nat /\ -n \in Numbers
  BY NumbersAre
<1>1. ASSUME NEW k \in 1..Rounds PROVE Quotients[k][-n] = 0 <=> Quotients[k][n] = 0
  <2>1. k \in 0..Rounds
    BY <1>0
  <2>2. Quotients[k][-n] = -Quotients[k][n]
    BY <2>1, Mirror
  <2>3. PICK x \in Int : x = Quotients[k][n]
    BY <2>1, QuotientsType
  <2>4. -x = 0 - x
    OBVIOUS
  <2>5. Quotients[k][-n] = 0 - x
    BY <2>2, <2>3, <2>4, Zenon
  <2> QED BY <2>3, <2>5
<1>2. {k \in 1..Rounds : Quotients[k][-n] = 0} = {k \in 1..Rounds : Quotients[k][n] = 0}
  BY <1>1, Zenon
<1> QED BY <1>2, Zenon DEF Count

(* No number has more digits than the greatest int. *)
LEMMA CountWidest ==
  ASSUME NEW n \in Numbers
  PROVE  Count(n) <= Count(-LeastInt - 1)
<1> DEFINE M == -LeastInt
           m == M - 1
<1>1. M \in Nat /\ M >= 1 /\ M % 10 # 0 /\ LeastInt = -M
  BY LeastIntIs
<1> HIDE DEF M
<1>2. Numbers = (-M)..M
  BY <1>1 DEF Numbers, M
<1>3. M \in Numbers /\ m \in Numbers /\ m \in Nat
  BY <1>1, <1>2
<1>4. Quotient(M) = Quotient(m)
  <2>1. Quotient(M) = M \div 10 /\ Quotient(m) = m \div 10
    BY <1>1, <1>3 DEF Quotient
  <2>2. \A x \in Nat : x >= 1 /\ x % 10 # 0 => x \div 10 = (x - 1) \div 10
    OBVIOUS
  <2> QED BY <1>1, <2>1, <2>2
<1> HIDE DEF m
<1>5. Count(M) = Count(m)
  <2>1. /\ Quotient(M) = 0 => Count(M) = 1
        /\ Quotient(M) # 0 => Count(M) = Count(Quotient(M)) + 1
    BY <1>3, CountStep
  <2>2. /\ Quotient(m) = 0 => Count(m) = 1
        /\ Quotient(m) # 0 => Count(m) = Count(Quotient(m)) + 1
    BY <1>3, CountStep
  <2> QED BY <1>4, <2>1, <2>2, Zenon
<1>6. Count(n) <= Count(M)
  <2>1. CASE n >= 0
    <3>1. n <= M
      BY <1>1, <1>2
    <3> QED BY <1>3, <2>1, <3>1, CountMonotone
  <2>2. CASE n < 0
    <3>1. PICK k \in Numbers : k = -n /\ 0 <= k /\ k <= M
      BY <1>1, <1>2, <2>2
    <3>2. Count(k) <= Count(M)
      BY <1>3, <3>1, CountMonotone
    <3>3. Count(k) = Count(n)
      BY <3>1, CountMirror
    <3> QED BY <3>2, <3>3
  <2>3. n \in Int
    BY NumbersAre
  <2> QED BY <2>1, <2>2, <2>3
<1>7. Count(n) <= Count(m)
  BY <1>5, <1>6
<1> QED BY <1>7, Zenon DEF m, M

-----------------------------------------------------------------------------
(* What a string of digits denotes.                                        *)

DigitOf(c) == IF c >= 65 THEN c - 55 ELSE c - 48

(* The L digits are the remainders that q's quotients leave, the last of   *)
(* which is 0.                                                             *)
AreRemainders(digits, L, b, q) ==
  /\ Len(digits) = L
  /\ q \in [0..L -> Int] /\ q[L] = 0
  /\ \A k \in 1..L : DigitOf(digits[k]) = q[L - k] - b * q[L - k + 1]

(* Horner's rule goes back through the quotients. *)
LEMMA ValueIs ==
  ASSUME NEW digits, NEW L \in Nat, NEW b \in Nat, NEW q, AreRemainders(digits, L, b, q)
  PROVE  Value(digits, b) = q[0]
<1>0. /\ Len(digits) = L
      /\ q \in [0..L -> Int] /\ q[L] = 0
      /\ \A k \in 1..L : DigitOf(digits[k]) = q[L - k] - b * q[L - k + 1]
  BY DEF AreRemainders
<1> DEFINE F(f) == f = [k \in 0..Len(digits) |->
                          IF k = 0 THEN 0
                          ELSE b * f[k - 1] + (IF digits[k] >= 65 THEN digits[k] - 55
                                                                  ELSE digits[k] - 48)]
           f == CHOOSE f : F(f)
           g == [k \in 0..L |-> q[L - k]]
<1>1. Value(digits, b) = f[L]
  BY <1>0, Zenon DEF Value
<1>2. ASSUME NEW k \in 1..L, NEW x, x = q[L - (k - 1)]
      PROVE  b * x + DigitOf(digits[k]) = q[L - k]
  <2>1. /\ L - k \in 0..L /\ L - k + 1 \in 0..L /\ L - (k - 1) = L - k + 1
    OBVIOUS
  <2>2. PICK y \in Int : y = q[L - k + 1]
    BY <1>0, <2>1
  <2>3. PICK z \in Int : z = q[L - k]
    BY <1>0, <2>1
  <2>4. DigitOf(digits[k]) = z - b * y
    BY <1>0, <2>2, <2>3
  <2>5. x = y
    BY <1>2, <2>1, <2>2
  <2>6. PICK p \in Int : p = b * y
    OBVIOUS
  <2>7. p + (z - p) = z
    OBVIOUS
  <2> QED BY <2>3, <2>4, <2>5, <2>6, <2>7
<1>3. F(g)
  <2>1. ASSUME NEW k \in 0..L
        PROVE  g[k] = IF k = 0 THEN 0 ELSE b * g[k - 1] + DigitOf(digits[k])
    <3>1. CASE k = 0
      <4>1. L - k = L
        BY <3>1
      <4> QED BY <1>0, <3>1, <4>1
    <3>2. CASE k # 0
      <4>1. k \in 1..L /\ k - 1 \in 0..L
        BY <3>2
      <4>2. g[k - 1] = q[L - (k - 1)] /\ g[k] = q[L - k]
        BY <4>1
      <4> HIDE DEF g
      <4>3. b * g[k - 1] + DigitOf(digits[k]) = q[L - k]
        BY <1>2, <4>1, <4>2
      <4> QED BY <3>2, <4>2, <4>3, Zenon
    <3> QED BY <3>1, <3>2
  <2>2. g = [k \in 0..L |-> g[k]]
    OBVIOUS
  <2> HIDE DEF g
  <2>3. g = [k \in 0..L |-> IF k = 0 THEN 0 ELSE b * g[k - 1] + DigitOf(digits[k])]
    BY <2>1, <2>2, Zenon
  <2> QED BY <1>0, <2>3, Zenon DEF DigitOf
<1>4. g[L] = q[0]
  <2>1. L \in 0..L /\ L - L = 0
    OBVIOUS
  <2> QED BY <2>1
<1> HIDE DEF g
<1>5. F(f)
  <2> HIDE DEF F
  <2> QED BY <1>3, Zenon
<1> HIDE DEF f
<1>6. \A k \in 0..L : f[k] = IF k = 0 THEN 0 ELSE b * f[k - 1] + DigitOf(digits[k])
  BY <1>0, <1>5, Zenon DEF DigitOf
<1> DEFINE I == [k \in 0..L |-> {q[L - k]}]
<1>7. f[0] \in I[0]
  <2>1. 0 \in 0..L /\ L - 0 = L
    OBVIOUS
  <2> QED BY <1>0, <1>6, <2>1
<1>8. ASSUME NEW k \in 1..L, f[k - 1] \in I[k - 1] PROVE f[k] \in I[k]
  <2>1. k \in 0..L /\ k - 1 \in 0..L /\ k # 0
    OBVIOUS
  <2>2. f[k - 1] = q[L - (k - 1)]
    BY <1>8, <2>1
  <2>3. f[k] = b * f[k - 1] + DigitOf(digits[k])
    BY <1>6, <2>1, Zenon
  <2>4. b * f[k - 1] + DigitOf(digits[k]) = q[L - k]
    BY <1>2, <2>2
  <2> QED BY <2>1, <2>3, <2>4
<1> HIDE DEF I
<1>9. \A k \in 0..L : f[k] \in I[k]
  BY <1>7, <1>8, Induction
<1>10. f[L] = q[0]
  <2>1. L \in 0..L /\ L - L = 0
    OBVIOUS
  <2> QED BY <1>9, <2>1 DEF I
<1> QED BY <1>1, <1>10

(* The digits of a number, from the first to the last, denote it.  Those of *)
(* a negative number lie below '0'.                                         *)
LEMMA DecimalValue ==
  ASSUME NEW n \in Numbers, NEW s, Len(s) = Count(n),
         \A k \in 1..Count(n) : s[k] = DigitsOf(n)[Count(n) - k + 1]
  PROVE  Value(s, 10) = n
<1> DEFINE L == Count(n)
           q == [j \in 0..L |-> Quotients[j][n]]
<1>0. L \in Nat /\ L \in 1..Rounds /\ Rounds \in Nat /\ Quotients[L][n] = 0
  BY CountIs, NumbersAre
<1>1. /\ DigitsOf(n) \in Seq(Nat) /\ Len(DigitsOf(n)) = L
      /\ \A k \in 1..L : DigitsOf(n)[k] = 48 + Remainder(Quotients[k - 1][n])
  BY DigitsOfIs
<1> HIDE DEF L
<1>2. ASSUME NEW j \in 0..L PROVE Quotients[j][n] \in Int
  <2>1. j \in 0..Rounds
    BY <1>0
  <2> QED BY <2>1, QuotientsType
<1>3. q \in [0..L -> Int]
  BY <1>2
<1>4. q[L] = 0 /\ q[0] = n
  <2>1. Quotients[0][n] = n /\ 0 \in 0..L /\ L \in 0..L
    BY <1>0, QuotientsType
  <2> QED BY <1>0, <2>1
<1>5. ASSUME NEW k \in 1..L PROVE DigitOf(s[k]) = q[L - k] - 10 * q[L - k + 1]
  <2>1. /\ L - k + 1 \in 1..L /\ (L - k + 1) - 1 = L - k /\ L - k \in 0..L
        /\ L - k + 1 \in 1..Rounds /\ L - k + 1 \in 0..L
    BY <1>0
  <2>2. PICK x \in Int : x = Quotients[L - k][n]
    BY <1>2, <2>1
  <2>3. s[k] = DigitsOf(n)[L - k + 1]
    BY DEF L
  <2>4. s[k] = 48 + Remainder(x)
    BY <1>1, <2>1, <2>2, <2>3
  <2>5. Quotients[L - k + 1][n] = Quotient(x)
    <3>1. Quotients[L - k + 1][n] = Quotient(Quotients[(L - k + 1) - 1][n])
      BY <2>1, QuotientsType
    <3> QED BY <2>1, <2>2, <3>1
  <2>6. PICK y \in Int : y = Remainder(x) /\ y <= 9
    <3>1. x >= 0 \/ x <= 0
      OBVIOUS
    <3>2. Remainder(x) \in 0..9 \/ Remainder(x) \in (-9)..0
      BY <3>1, QuotientIs, Zenon
    <3> HIDE DEF q
    <3> QED BY <3>2
  <2>7. Remainder(x) = x - 10 * Quotient(x)
    BY QuotientIs
  <2>8. DigitOf(s[k]) = Remainder(x)
    <3>1. s[k] = 48 + y
      BY <2>4, <2>6
    <3>2. ~(48 + y >= 65) /\ (48 + y) - 48 = y
      <4>1. y <= 9
        BY <2>6, Zenon
      <4> QED BY <4>1
    <3> QED BY <2>6, <3>1, <3>2 DEF DigitOf
  <2> QED BY <2>1, <2>2, <2>5, <2>7, <2>8
<1> HIDE DEF q
<1>6. Len(s) = L /\ 10 \in Nat
  BY DEF L
<1>7. Value(s, 10) = q[0]
  <2>1. PICK b \in Nat : b = 10
    BY <1>6
  <2>2. AreRemainders(s, L, b, q)
    BY <1>3, <1>4, <1>5, <1>6, <2>1 DEF AreRemainders
  <2>3. Value(s, b) = q[0]
    BY <1>0, <2>2, ValueIs
  <2> QED BY <2>1, <2>3
<1> QED BY <1>4, <1>7

(* Its first digit is 0 only if it is 0. *)
LEMMA FirstDigit ==
  ASSUME NEW n \in Numbers, DigitsOf(n)[Count(n)] = 48
  PROVE  n = 0
<1> DEFINE L == Count(n)
<1>0. /\ L \in Nat /\ L \in 1..Rounds /\ Rounds \in Nat /\ Quotients[L][n] = 0
      /\ \A k \in 1..Rounds : Quotients[k][n] = 0 => L <= k
  BY CountIs, NumbersAre
<1>1. \A k \in 1..L : DigitsOf(n)[k] = 48 + Remainder(Quotients[k - 1][n])
  BY DigitsOfIs
<1>2. DigitsOf(n)[L] = 48
  OBVIOUS
<1> HIDE DEF L
<1>3. L \in 1..L /\ L - 1 \in 0..Rounds
  BY <1>0
<1>4. PICK x \in Int : x = Quotients[L - 1][n]
  BY <1>3, QuotientsType
<1>5. Quotient(x) = 0
  BY <1>0, <1>4, QuotientsType
<1>6. 48 + Remainder(x) = 48
  BY <1>1, <1>2, <1>3, <1>4
<1>7. Remainder(x) = x - 10 * Quotient(x)
  BY QuotientIs
<1>8. x = 0
  BY <1>5, <1>6, <1>7
<1>9. L = 1
  <2> SUFFICES ASSUME L # 1 PROVE FALSE
    OBVIOUS
  <2>1. L - 1 \in 1..Rounds /\ ~(L <= L - 1)
    BY <1>0
  <2> QED BY <1>0, <1>4, <1>8, <2>1
<1>10. Quotients[0][n] = n
  BY QuotientsType
<1>11. L - 1 = 0
  BY <1>9
<1> QED BY <1>4, <1>8, <1>10, <1>11

-----------------------------------------------------------------------------
(* int_to_str.                                                             *)

(* What it writes, digits being its characters from the last to the first. *)
Printed(m, digits) == strreverse(Store(m, 0, Append(digits, 0)), 0, Len(digits))

LEMMA PrintedIs ==
  ASSUME NEW m, IsMemory(m), NEW digits \in Seq(Nat), Len(digits) < Size
  PROVE  /\ IsMemory(Printed(m, digits))
         /\ \A a \in Memory :
              /\ a < Len(digits) => Printed(m, digits)[a] = digits[Len(digits) - a]
              /\ a = Len(digits) => Printed(m, digits)[a] = 0
              /\ a > Len(digits) => Printed(m, digits)[a] = m[a]
<1> DEFINE L == Len(digits)
           bytes == Append(digits, 0)
           x == Store(m, 0, bytes)
           y == strreverse(x, 0, L)
<1>1. /\ L \in Nat /\ bytes \in Seq(Nat) /\ Len(bytes) = L + 1 /\ bytes[L + 1] = 0
      /\ \A i \in 1..L : bytes[i] = digits[i]
  <2>1. 0 \in Nat
    OBVIOUS
  <2> QED BY <2>1, AppendProperties
<1>2. DOMAIN m = Memory
  BY DEF IsMemory
<1> HIDE DEF L, bytes
<1>3. x = [a \in Memory |-> IF a - 0 \in 0..(Len(bytes) - 1) THEN bytes[a - 0 + 1] ELSE m[a]]
  BY <1>2, Zenon DEF Store
<1> HIDE DEF x
<1>4. DOMAIN x = Memory
  BY <1>3
<1>5. y = [a \in Memory |-> IF a - 0 \in 0..(L - 1) THEN x[2 * 0 + L - 1 - a] ELSE x[a]]
  BY <1>4, Zenon DEF strreverse
<1> HIDE DEF y
<1>6. Memory = 0..(Size - 1) /\ Size \in Nat /\ L < Size
  BY SizeIs DEF Memory, L
<1>7. ASSUME NEW a \in Memory PROVE x[a] = IF a <= L THEN bytes[a + 1] ELSE m[a]
  <2>1. a \in Int /\ a >= 0 /\ a - 0 = a /\ a - 0 + 1 = a + 1 /\ (a <= L <=> a - 0 \in 0..(Len(bytes) - 1))
    BY <1>1, <1>6
  <2> QED BY <1>3, <2>1
<1>8. ASSUME NEW a \in Memory PROVE y[a] = IF a < L THEN x[L - 1 - a] ELSE x[a]
  <2>1. 2 * 0 + L - 1 - a = L - 1 - a /\ (a < L <=> a - 0 \in 0..(L - 1))
    BY <1>1, <1>6
  <2> QED BY <1>5, <2>1
<1>9. ASSUME NEW a \in Memory, a < L PROVE y[a] = digits[L - a]
  <2>1. /\ L - 1 - a \in Memory /\ L - 1 - a <= L /\ (L - 1 - a) + 1 = L - a /\ L - a \in 1..L
    BY <1>1, <1>6, <1>9
  <2>2. y[a] = x[L - 1 - a]
    BY <1>8, <1>9
  <2>3. x[L - 1 - a] = bytes[(L - 1 - a) + 1]
    BY <1>7, <2>1
  <2> QED BY <1>1, <2>1, <2>2, <2>3
<1>10. ASSUME NEW a \in Memory, a = L PROVE y[a] = 0
  <2>1. ~(a < L) /\ a <= L
    BY <1>1, <1>10
  <2> QED BY <1>1, <1>7, <1>8, <1>10, <2>1
<1>11. ASSUME NEW a \in Memory, a > L PROVE y[a] = m[a]
  <2>1. ~(a < L) /\ ~(a <= L)
    BY <1>1, <1>6, <1>11
  <2> QED BY <1>7, <1>8, <2>1
<1>12. IsMemory(y)
  BY <1>5, Zenon DEF IsMemory
<1>13. Printed(m, digits) = y
  BY Zenon DEF Printed, y, x, bytes, L
<1> QED BY <1>9, <1>10, <1>11, <1>12, <1>13 DEF L

(* The string that is then there. *)
LEMMA PrintedString ==
  ASSUME NEW m, IsMemory(m), NEW digits \in Seq(Nat), Len(digits) < Size,
         \A i \in 1..Len(digits) : digits[i] # 0
  PROVE  /\ \E S : StringAt(Printed(m, digits), 0) \in Seq(S)
         /\ Len(StringAt(Printed(m, digits), 0)) = Len(digits)
         /\ \A i \in 1..Len(digits) :
              StringAt(Printed(m, digits), 0)[i] = digits[Len(digits) - i + 1]
<1> DEFINE L == Len(digits)
           y == Printed(m, digits)
<1>1. /\ IsMemory(y)
      /\ \A a \in Memory : (a < L => y[a] = digits[L - a]) /\ (a = L => y[a] = 0)
  BY PrintedIs
<1>2. L \in Nat /\ L < Size /\ \A i \in 1..L : digits[i] # 0
  OBVIOUS
<1> HIDE DEF L, y
<1>3. Memory = 0..(Size - 1) /\ Size \in Nat /\ 0 \in Memory
  BY SizeIs DEF Memory
<1>4. ASSUME NEW a \in 0..(L - 1)
      PROVE  a \in Memory /\ y[a] = digits[L - a] /\ L - a \in 1..L /\ 0 + a = a
  <2>1. a \in Memory /\ a < L /\ L - a \in 1..L /\ 0 + a = a
    BY <1>2, <1>3
  <2> QED BY <1>1, <2>1
<1>5. HasLength(y, 0, L)
  <2>1. 0 + L = L /\ L \in Memory
    BY <1>2, <1>3
  <2>2. y[L] = 0
    BY <1>1, <2>1
  <2>3. \A a \in 0..(L - 1) : y[0 + a] # 0
    BY <1>2, <1>4
  <2> QED BY <1>2, <2>1, <2>2, <2>3 DEF HasLength
<1> DEFINE S == {y[a] : a \in Memory}
           s == StringAt(y, 0)
<1>6. \A a \in Memory : y[a] \in S
  OBVIOUS
<1> HIDE DEF S
<1>7. s \in Seq(S) /\ Len(s) = L /\ \A i \in 1..L : s[i] = y[0 + i - 1]
  <2>1. PICK str \in Memory : str = 0
    BY <1>3
  <2>2. HasLength(y, str, L) /\ IsMemory(y) /\ L \in Nat
    BY <1>1, <1>2, <1>5, <2>1
  <2>3. /\ StringAt(y, str) \in Seq(S) /\ Len(StringAt(y, str)) = L
        /\ \A i \in 1..L : StringAt(y, str)[i] = y[str + i - 1]
    BY <1>6, <2>2, StringAtIs
  <2> QED BY <2>1, <2>3
<1> HIDE DEF s
<1>8. ASSUME NEW i \in 1..L PROVE s[i] = digits[L - i + 1]
  <2>1. i - 1 \in 0..(L - 1) /\ 0 + i - 1 = i - 1 /\ L - (i - 1) = L - i + 1
    BY <1>2
  <2>2. y[i - 1] = digits[L - (i - 1)]
    BY <1>4, <2>1
  <2> QED BY <1>7, <2>1, <2>2
<1>9. \E R : s \in Seq(R)
  BY <1>7
<1> QED BY <1>7, <1>8, <1>9 DEF s, y, L

(* The length of the widest number. *)
Widest == Len(Digits(-LeastInt - 1)) + 1

LEMMA WidestIs ==
  /\ Widest \in Nat /\ Widest < Size
  /\ \A n \in Numbers : Count(n) \in Nat /\ Count(n) >= 1 /\ Count(n) + 1 <= Widest
<1> DEFINE M == -LeastInt
           m == M - 1
<1>1. M \in Nat /\ M >= 1 /\ LeastInt = -M
  BY LeastIntIs
<1>2. m \in Numbers
  BY <1>1 DEF Numbers
<1>3. Digits(m) = DigitsOf(m) /\ Len(DigitsOf(m)) = Count(m) /\ Count(m) \in Nat
  BY <1>2, DigitsAre, DigitsOfIs, CountIs
<1>4. Widest = Count(m) + 1
  BY <1>3, Zenon DEF Widest, m, M
<1>5. Widest < Size
  BY RoomAssumption DEF Widest
<1>6. ASSUME NEW n \in Numbers PROVE Count(n) <= Count(m)
  BY CountWidest
<1> HIDE DEF m, M
<1>7. ASSUME NEW n \in Numbers PROVE Count(n) \in Nat /\ Count(n) >= 1
  <2>1. Count(n) \in 1..Rounds /\ Rounds \in Nat
    BY CountIs, NumbersAre
  <2> QED BY <2>1
<1> QED BY <1>3, <1>4, <1>5, <1>6, <1>7

(* The digits are no null characters. *)
LEMMA DigitsShown ==
  ASSUME NEW n \in Numbers
  PROVE  /\ DigitsOf(n) \in Seq(Nat) /\ Len(DigitsOf(n)) = Count(n)
         /\ \A k \in 1..Count(n) : DigitsOf(n)[k] # 0
<1>1. /\ DigitsOf(n) \in Seq(Nat) /\ Len(DigitsOf(n)) = Count(n)
      /\ \A k \in 1..Count(n) : DigitsOf(n)[k] = 48 + Remainder(Quotients[k - 1][n])
  BY DigitsOfIs
<1>2. Count(n) \in 1..Rounds /\ Count(n) \in Nat /\ Rounds \in Nat
  BY CountIs, NumbersAre
<1>3. ASSUME NEW k \in 1..Count(n) PROVE DigitsOf(n)[k] # 0
  <2>1. k - 1 \in 0..Rounds
    BY <1>2
  <2>2. PICK x \in Int : x = Quotients[k - 1][n]
    BY <2>1, QuotientsType
  <2>3. Remainder(x) \in (-9)..9
    BY QuotientIs
  <2>4. DigitsOf(n)[k] = 48 + Remainder(x)
    BY <1>1, <2>2
  <2> QED BY <2>3, <2>4
<1> QED BY <1>1, <1>3

(* A number that is not negative. *)
LEMMA Positive ==
  ASSUME IsMemory(mem), NEW num \in Numbers, num >= 0
  PROVE  /\ StringAt(int_to_str(mem, num, 0), 0) # <<>>
         /\ Value(StringAt(int_to_str(mem, num, 0), 0), 10) = num
         /\ StringAt(int_to_str(mem, num, 0), 0)[1] = 48 => num = 0
         /\ \A a \in Memory : a > Widest => int_to_str(mem, num, 0)[a] = mem[a]
<1> DEFINE digits == DigitsOf(num)
           L == Count(num)
           y == Printed(mem, digits)
           s == StringAt(y, 0)
<1>0. num \in Int /\ Memory \subseteq Int
  BY NumbersAre, SizeIs DEF Memory
<1>1. int_to_str(mem, num, 0) = y
  <2>1. ~(num < 0)
    BY <1>0
  <2>2. Digits(num) = digits
    BY DigitsAre
  <2> QED BY <2>1, <2>2, Zenon DEF int_to_str, Printed
<1>2. /\ digits \in Seq(Nat) /\ Len(digits) = L /\ \A i \in 1..L : digits[i] # 0
  BY DigitsShown
<1>3. L \in Nat /\ L >= 1 /\ L + 1 <= Widest /\ Widest \in Nat /\ Widest < Size /\ L < Size
  BY WidestIs, SizeIs
<1>4. \A a \in Memory : a > Widest => y[a] = mem[a]
  <2>1. \A a \in Memory : a > L => y[a] = mem[a]
    BY <1>2, <1>3, PrintedIs
  <2>2. \A a \in Memory : a > Widest => a > L
    BY <1>0, <1>3
  <2> QED BY <2>1, <2>2
<1> HIDE DEF digits
<1>5. Len(s) = L /\ \A i \in 1..L : s[i] = digits[L - i + 1]
  BY <1>2, <1>3, PrintedString
<1> HIDE DEF s, y
<1>6. s # <<>>
  BY <1>3, <1>5
<1>7. Value(s, 10) = num
  BY <1>5, DecimalValue DEF digits
<1>8. ASSUME s[1] = 48 PROVE num = 0
  <2>1. 1 \in 1..L /\ L - 1 + 1 = L
    BY <1>3
  <2>2. digits[L] = 48
    BY <1>5, <1>8, <2>1
  <2> QED BY <2>2, FirstDigit DEF digits
<1> QED BY <1>1, <1>4, <1>6, <1>7, <1>8 DEF s

(* A negative number: a minus sign in front of the digits of its negation. *)
LEMMA Negative ==
  ASSUME IsMemory(mem), NEW num \in Numbers, num < 0
  PROVE  /\ StringAt(int_to_str(mem, num, 0), 0) # <<>>
         /\ StringAt(int_to_str(mem, num, 0), 0)[1] = 45
         /\ StringAt(int_to_str(mem, num, 0), 0)[2] # 48
         /\ Value(Tail(StringAt(int_to_str(mem, num, 0), 0)), 10) = Negated(num)
         /\ \A a \in Memory : a > Widest => int_to_str(mem, num, 0)[a] = mem[a]
<1> DEFINE n == Negated(num)
           d == DigitsOf(n)
           L == Count(n)
           digits == Append(d, 45)
           y == Printed(mem, digits)
           s == StringAt(y, 0)
<1>0. num \in Int /\ -num \in Numbers /\ Memory \subseteq Int
  BY NumbersAre, SizeIs DEF Memory
<1>1. n \in Numbers /\ n # 0
  <2>1. CASE num = LeastInt
    BY <1>0, <2>1 DEF Negated
  <2>2. CASE num # LeastInt
    <3>1. -num # 0
      BY <1>0
    <3> QED BY <1>0, <2>2, <3>1 DEF Negated
  <2> QED BY <2>1, <2>2
<1>2. int_to_str(mem, num, 0) = y
  <2>1. Digits(n) = d
    BY <1>1, DigitsAre
  <2> QED BY <2>1, Zenon DEF int_to_str, Printed
<1> HIDE DEF n
<1>3. d \in Seq(Nat) /\ Len(d) = L /\ \A i \in 1..L : d[i] # 0
  BY <1>1, DigitsShown
<1>4. /\ L \in Nat /\ L >= 1 /\ L + 1 <= Widest /\ Widest \in Nat /\ Widest < Size
      /\ L + 1 < Size
  BY <1>1, WidestIs, SizeIs
<1> HIDE DEF d, L
<1>5. /\ digits \in Seq(Nat) /\ Len(digits) = L + 1 /\ digits[L + 1] = 45
      /\ \A i \in 1..L : digits[i] = d[i]
  <2>1. 45 \in Nat
    OBVIOUS
  <2> QED BY <1>3, <2>1, AppendProperties
<1> HIDE DEF digits
<1>6. \A i \in 1..Len(digits) : digits[i] # 0
  <2> SUFFICES ASSUME NEW i \in 1..Len(digits) PROVE digits[i] # 0
    OBVIOUS
  <2>1. i = L + 1 \/ i \in 1..L
    BY <1>4, <1>5
  <2> QED BY <1>3, <1>5, <2>1
<1>7. \A a \in Memory : a > Widest => y[a] = mem[a]
  <2>1. Len(digits) < Size
    BY <1>4, <1>5
  <2>2. \A a \in Memory : a > Len(digits) => y[a] = mem[a]
    BY <1>5, <2>1, PrintedIs
  <2>3. \A a \in Memory : a > Widest => a > Len(digits)
    BY <1>0, <1>4, <1>5
  <2> QED BY <2>2, <2>3
<1>8. /\ \E S : s \in Seq(S)
      /\ Len(s) = L + 1 /\ \A i \in 1..(L + 1) : s[i] = digits[(L + 1) - i + 1]
  <2>1. Len(digits) < Size /\ digits \in Seq(Nat)
    BY <1>4, <1>5
  <2>2. /\ \E S : s \in Seq(S)
        /\ Len(s) = Len(digits) /\ \A i \in 1..Len(digits) : s[i] = digits[Len(digits) - i + 1]
    BY <1>6, <2>1, PrintedString
  <2> QED BY <1>5, <2>2
<1> HIDE DEF s, y
<1>9. s # <<>>
  BY <1>4, <1>8
<1>10. s[1] = 45
  <2>1. 1 \in 1..(L + 1) /\ (L + 1) - 1 + 1 = L + 1
    BY <1>4
  <2> QED BY <1>5, <1>8, <2>1
<1>11. ASSUME NEW i \in 1..L PROVE s[i + 1] = d[L - i + 1]
  <2>1. i + 1 \in 1..(L + 1) /\ (L + 1) - (i + 1) + 1 = L - i + 1 /\ L - i + 1 \in 1..L
    BY <1>4
  <2> QED BY <1>5, <1>8, <2>1
<1>12. s[2] # 48 /\ Value(Tail(s), 10) = n
  <2>2. s[2] # 48
    <3> SUFFICES ASSUME s[2] = 48 PROVE FALSE
      OBVIOUS
    <3>1. 1 \in 1..L /\ 1 + 1 = 2 /\ L - 1 + 1 = L
      BY <1>4
    <3>2. d[L] = 48
      BY <1>11, <3>1
    <3> QED BY <1>1, <3>2, FirstDigit DEF d, L
  <2> DEFINE t == Tail(s)
  <2>3. Len(t) = L /\ \A i \in 1..L : t[i] = s[i + 1]
    <3>1. PICK S : s \in Seq(S)
      BY <1>8
    <3>2. /\ Len(t) = Len(s) - 1
          /\ \A i \in 1..Len(t) : t[i] = s[i + 1]
      BY <1>9, <3>1, HeadTailProperties
    <3> HIDE DEF t
    <3> QED BY <1>4, <1>8, <3>2
  <2> HIDE DEF t
  <2>4. \A i \in 1..L : t[i] = d[L - i + 1]
    BY <1>11, <2>3
  <2>5. Value(t, 10) = n
    BY <1>1, <2>3, <2>4, DecimalValue DEF d, L
  <2> QED BY <2>2, <2>5 DEF t
<1> QED BY <1>2, <1>7, <1>9, <1>10, <1>12 DEF s, n

-----------------------------------------------------------------------------
(* int_to_hex.                                                             *)

(* A nibble's character. *)
LEMMA HexCharIs ==
  ASSUME NEW x \in 0..15
  PROVE  HexChar(x) \in Nat /\ HexChar(x) # 0 /\ DigitOf(HexChar(x)) = x
<1>1. CASE x < 10
  <2>1. HexChar(x) = 48 + x
    BY <1>1 DEF HexChar
  <2> QED BY <1>1, <2>1 DEF DigitOf
<1>2. CASE ~(x < 10)
  <2>1. HexChar(x) = 55 + x
    BY <1>2 DEF HexChar
  <2> QED BY <1>2, <2>1 DEF DigitOf
<1> QED BY <1>1, <1>2

(* The string that it writes. *)
LEMMA StoredString ==
  ASSUME NEW m, IsMemory(m), NEW chars \in Seq(Nat), Len(chars) < Size,
         \A i \in 1..Len(chars) : chars[i] # 0
  PROVE  /\ Len(StringAt(Store(m, 0, Append(chars, 0)), 0)) = Len(chars)
         /\ \A i \in 1..Len(chars) : StringAt(Store(m, 0, Append(chars, 0)), 0)[i] = chars[i]
         /\ \A a \in Memory : a > Len(chars) => Store(m, 0, Append(chars, 0))[a] = m[a]
<1> DEFINE L == Len(chars)
           bytes == Append(chars, 0)
           x == Store(m, 0, bytes)
<1>1. /\ L \in Nat /\ L < Size /\ Len(bytes) = L + 1 /\ bytes[L + 1] = 0
      /\ \A i \in 1..L : bytes[i] = chars[i] /\ chars[i] # 0
  <2>1. 0 \in Nat
    OBVIOUS
  <2> QED BY <2>1, AppendProperties
<1>2. DOMAIN m = Memory
  BY DEF IsMemory
<1> HIDE DEF L, bytes
<1>3. x = [a \in Memory |-> IF a - 0 \in 0..(Len(bytes) - 1) THEN bytes[a - 0 + 1] ELSE m[a]]
  BY <1>2, Zenon DEF Store
<1> HIDE DEF x
<1>4. IsMemory(x)
  BY <1>3, Zenon DEF IsMemory
<1>5. Memory = 0..(Size - 1) /\ Size \in Nat /\ 0 \in Memory
  BY SizeIs DEF Memory
<1>6. ASSUME NEW a \in 0..L PROVE x[a] = bytes[a + 1]
  <2>1. a \in Memory /\ a - 0 + 1 = a + 1 /\ a - 0 \in 0..(Len(bytes) - 1)
    BY <1>1, <1>5
  <2> QED BY <1>3, <2>1
<1>7. ASSUME NEW i \in 1..L PROVE x[i - 1] = chars[i]
  <2>1. i - 1 \in 0..L /\ (i - 1) + 1 = i
    BY <1>1
  <2> QED BY <1>1, <1>6, <2>1
<1>8. PICK str \in Memory : str = 0
  BY <1>5
<1>9. HasLength(x, str, L)
  <2>1. str + L = L /\ L \in Memory /\ L \in 0..L
    BY <1>1, <1>5, <1>8
  <2>2. x[L] = 0
    BY <1>1, <1>6, <2>1
  <2>3. ASSUME NEW a \in 0..(L - 1) PROVE x[str + a] # 0
    <3>1. a + 1 \in 1..L /\ (a + 1) - 1 = str + a
      BY <1>1, <1>8
    <3> QED BY <1>1, <1>7, <3>1
  <2> QED BY <1>1, <2>1, <2>2, <2>3 DEF HasLength
<1> DEFINE S == {x[a] : a \in Memory}
           s == StringAt(x, str)
<1>10. \A a \in Memory : x[a] \in S
  OBVIOUS
<1> HIDE DEF S
<1>11. Len(s) = L /\ \A i \in 1..L : s[i] = x[str + i - 1]
  BY <1>1, <1>4, <1>9, <1>10, StringAtIs
<1> HIDE DEF s
<1>12. ASSUME NEW i \in 1..L PROVE s[i] = chars[i]
  <2>1. str + i - 1 = i - 1
    BY <1>1, <1>8
  <2> QED BY <1>7, <1>11, <2>1
<1>13. s = StringAt(Store(m, 0, Append(chars, 0)), 0)
  BY <1>8, Zenon DEF s, x, bytes
<1>14. ASSUME NEW a \in Memory, a > L PROVE x[a] = m[a]
  <2>1. ~(a - 0 \in 0..(Len(bytes) - 1))
    BY <1>1, <1>5, <1>14
  <2> QED BY <1>3, <2>1
<1>15. x = Store(m, 0, Append(chars, 0))
  BY Zenon DEF x, bytes
<1> QED BY <1>11, <1>12, <1>13, <1>14, <1>15 DEF L

(* Eight hexadecimal digits, or as many as an int has nibbles. *)
LEMMA Hexadecimal ==
  ASSUME IsMemory(mem), NEW num \in Int
  PROVE  /\ Len(StringAt(int_to_hex(mem, num, 0), 0)) = Width \div 4
         /\ Value(StringAt(int_to_hex(mem, num, 0), 0), 16) = num % Power(2, Width)
         /\ \A a \in Memory : a > Width \div 4 => int_to_hex(mem, num, 0)[a] = mem[a]
<1> DEFINE N == Width \div 4
           u == num % Power(2, Width)
           Nibble(i) == (u \div Power(16, i)) % 16
           chars == [k \in 1..N |-> HexChar(Nibble(N - k))]
           q == [j \in 0..N |-> u \div Power(16, j)]
           s == StringAt(int_to_hex(mem, num, 0), 0)
<1>0. N \in Nat /\ 4 * N = Width /\ 2 \in Nat /\ 16 \in Nat /\ 2 >= 1 /\ 16 >= 1 /\ Width \in Nat
  BY WidthAssumption
<1>1. int_to_hex(mem, num, 0) = Store(mem, 0, Append(chars, 0))
  BY Zenon DEF int_to_hex
<1> HIDE DEF N
<1>2. Power(2, Width) \in Nat /\ Power(2, Width) >= 1 /\ Power(2, Width) = Power(16, N)
  <2>1. Power(2, Width) \in Nat /\ Power(2, Width) >= 1
    BY <1>0, PowerIs, PowerPositive
  <2>2. Power(2, 4 * N) = Power(16, N)
    BY <1>0, Sixteen
  <2> QED BY <1>0, <2>1, <2>2
<1>3. u \in Nat /\ u < Power(16, N)
  BY <1>2
<1> HIDE DEF u
<1>4. \A j \in Nat : /\ Power(16, j) \in Nat /\ Power(16, j) >= 1
                     /\ Power(16, j + 1) = 16 * Power(16, j)
  BY <1>0, PowerIs, PowerPositive
<1>5. \A p \in Nat : p >= 1 => /\ u \div p \in Nat /\ (u \div p) % 16 \in 0..15
                               /\ u \div (16 * p) = (u \div p) \div 16
                               /\ (u < p => u \div p = 0)
  BY <1>3
<1>6. ASSUME NEW j \in 0..N PROVE u \div Power(16, j) \in Nat /\ Nibble(j) \in 0..15
  <2>1. j \in Nat
    BY <1>0
  <2>2. PICK p \in Nat : p = Power(16, j) /\ p >= 1
    BY <1>4, <2>1
  <2> QED BY <1>5, <2>2
<1>7. q \in [0..N -> Nat] /\ q[N] = 0 /\ q[0] = u
  <2>1. q \in [0..N -> Nat]
    BY <1>6
  <2>2. N \in 0..N /\ 0 \in 0..N
    BY <1>0
  <2>3. u \div Power(16, N) = 0
    BY <1>0, <1>3, <1>4, <1>5
  <2>4. Power(16, 0) = 1 /\ u \div 1 = u
    <3>1. 0 \in Nat
      OBVIOUS
    <3> QED BY <1>0, <1>3, <3>1, PowerIs
  <2> QED BY <2>1, <2>2, <2>3, <2>4
<1>8. ASSUME NEW k \in 1..N
      PROVE  /\ chars[k] \in Nat /\ chars[k] # 0
             /\ DigitOf(chars[k]) = q[N - k] - 16 * q[N - k + 1]
  <2>1. N - k \in 0..N /\ N - k \in Nat /\ N - k + 1 \in 0..N
    BY <1>0
  <2>2. PICK x \in 0..15 : x = Nibble(N - k)
    BY <1>6, <2>1
  <2>3. chars[k] = HexChar(x)
    BY <2>2, Zenon
  <2>4. HexChar(x) \in Nat /\ HexChar(x) # 0 /\ DigitOf(HexChar(x)) = x
    BY HexCharIs
  <2>5. PICK p \in Nat : p = Power(16, N - k) /\ p >= 1 /\ Power(16, N - k + 1) = 16 * p
    BY <1>4, <2>1
  <2>6. PICK v \in Nat : v = u \div p /\ u \div (16 * p) = v \div 16
    BY <1>5, <2>5
  <2>7. q[N - k] = v /\ q[N - k + 1] = v \div 16
    BY <2>1, <2>5, <2>6
  <2>8. x = v % 16
    BY <2>2, <2>5, <2>6
  <2>9. v % 16 = v - 16 * (v \div 16)
    OBVIOUS
  <2> HIDE DEF chars, q
  <2> QED BY <2>3, <2>4, <2>7, <2>8, <2>9
<1>9. chars \in [1..N -> Nat]
  <2>1. chars = [k \in 1..N |-> chars[k]]
    OBVIOUS
  <2> HIDE DEF chars
  <2> QED BY <1>8, <2>1
<1> HIDE DEF chars, q
<1>10. chars \in Seq(Nat) /\ Len(chars) = N
  BY <1>0, <1>9
<1>11. N < Size
  BY RoomAssumption DEF N
<1>12. /\ Len(s) = N /\ \A k \in 1..N : s[k] = chars[k]
       /\ \A a \in Memory : a > N => int_to_hex(mem, num, 0)[a] = mem[a]
  <2>1. /\ Len(chars) < Size /\ \A i \in 1..Len(chars) : chars[i] # 0
    BY <1>8, <1>10, <1>11
  <2>2. /\ Len(StringAt(Store(mem, 0, Append(chars, 0)), 0)) = Len(chars)
        /\ \A i \in 1..Len(chars) : StringAt(Store(mem, 0, Append(chars, 0)), 0)[i] = chars[i]
        /\ \A a \in Memory : a > Len(chars) => Store(mem, 0, Append(chars, 0))[a] = mem[a]
    BY <1>10, <2>1, StoredString
  <2> QED BY <1>1, <1>10, <2>2
<1> HIDE DEF s
<1>13. PICK b \in Nat : b = 16
  BY <1>0
<1>14. AreRemainders(s, N, b, q)
  <2>1. \A k \in 1..N : DigitOf(s[k]) = q[N - k] - 16 * q[N - k + 1]
    BY <1>8, <1>12, Zenon
  <2>2. \A k \in 1..N : DigitOf(s[k]) = q[N - k] - b * q[N - k + 1]
    BY <1>13, <2>1, Zenon
  <2>3. q \in [0..N -> Int]
    BY <1>7
  <2> QED BY <1>7, <1>12, <2>2, <2>3, Zenon DEF AreRemainders
<1>15. Value(s, b) = q[0]
  BY <1>0, <1>14, ValueIs
<1>16. Value(s, 16) = u
  BY <1>7, <1>13, <1>15
<1> QED BY <1>12, <1>16 DEF s, N, u

(* Both, as NumbersPrinted states it. *)
LEMMA Prints == IsMemory(mem) => NumbersPrinted
<1> SUFFICES ASSUME IsMemory(mem), NEW num \in Ints
             PROVE  LET dec == int_to_str(mem, num, 0)
                        s == StringAt(dec, 0)
                        hex == int_to_hex(mem, num, 0)
                        h == StringAt(hex, 0)
                        widest == Len(Digits(-LeastInt - 1)) + 1
                    IN  /\ s # <<>>
                        /\ num >= 0 => Value(s, 10) = num /\ (s[1] = 48 => num = 0)
                        /\ num < 0 => s[1] = 45 /\ s[2] # 48 /\ Value(Tail(s), 10) = Negated(num)
                        /\ \A a \in Memory : a > widest => dec[a] = mem[a]
                        /\ Len(h) = Width \div 4 /\ Value(h, 16) = num % Power(2, Width)
                        /\ \A a \in Memory : a > Width \div 4 => hex[a] = mem[a]
  BY Zenon DEF NumbersPrinted
<1> DEFINE dec == int_to_str(mem, num, 0)
           s == StringAt(dec, 0)
           hex == int_to_hex(mem, num, 0)
           h == StringAt(hex, 0)
<1>1. num \in Numbers /\ num \in Int
  <2>1. num \in LeastInt..(-LeastInt - 1) /\ LeastInt \in Int
    BY LibraryAssumption, LeastIntIs
  <2> QED BY <2>1 DEF Numbers
<1>2. num >= 0 => /\ s # <<>> /\ Value(s, 10) = num /\ (s[1] = 48 => num = 0)
                  /\ \A a \in Memory : a > Widest => dec[a] = mem[a]
  BY <1>1, Positive
<1>3. num < 0 => /\ s # <<>>
                 /\ s[1] = 45 /\ s[2] # 48 /\ Value(Tail(s), 10) = Negated(num)
                 /\ \A a \in Memory : a > Widest => dec[a] = mem[a]
  BY <1>1, Negative
<1>4. /\ Len(h) = Width \div 4 /\ Value(h, 16) = num % Power(2, Width)
      /\ \A a \in Memory : a > Width \div 4 => hex[a] = mem[a]
  BY <1>1, Hexadecimal
<1>5. (num >= 0 \/ num < 0) /\ ~(num >= 0 /\ num < 0)
  BY <1>1
<1>6. \/ num >= 0 /\ ~(num < 0)
      \/ num < 0 /\ ~(num >= 0)
  BY <1>5
<1> HIDE DEF dec, s, hex, h
<1>7. /\ s # <<>>
      /\ num >= 0 => Value(s, 10) = num /\ (s[1] = 48 => num = 0)
      /\ num < 0 => s[1] = 45 /\ s[2] # 48 /\ Value(Tail(s), 10) = Negated(num)
      /\ \A a \in Memory : a > Widest => dec[a] = mem[a]
  BY <1>2, <1>3, <1>6, Zenon
<1> QED BY <1>4, <1>7, Zenon DEF dec, s, hex, h, Widest

-----------------------------------------------------------------------------
(* What holds after any sequence of calls.                                 *)

(* The memory stays a memory and page_fault's message within its array,    *)
(* after any sequence of calls of string.c and common.c.                   *)
THEOREM LibraryInvariant == Spec => []LibraryInv
<1>1. Init => LibraryInv
  <2> SUFFICES ASSUME Init PROVE LibraryInv
    OBVIOUS
  <2>1. IsMemory(mem)
    BY DEF Init, IsMemory
  <2> QED BY <2>1 DEF Init, NewMessage, MessageSize, LibraryInv, Building
<1> QED BY <1>1, LibraryStep, PTL DEF Spec

(* memmove (common.c:29-46) moves as if through a copy, and memcmp         *)
(* (common.c:49-60) tells if it changes something.                         *)
THEOREM MoveIsRight == Spec => []MoveIsSimultaneous
<1>1. LibraryInv => MoveIsSimultaneous
  BY Moves DEF LibraryInv
<1> QED BY <1>1, LibraryInvariant, PTL

(* strcat (string.c:167-172) appends a nonempty string to a nonempty one,  *)
(* of any length, in place too, and clears no byte but the two.            *)
THEOREM AppendIsRight == Spec => []AppendsInPlace
<1>1. LibraryInv => AppendsInPlace
  BY Appends DEF LibraryInv
<1> QED BY <1>1, LibraryInvariant, PTL

(* strcmp (string.c:102-120) recognises what strslice (string.c:87-97) cut *)
(* out of a format, given a buffer of to - from + 2 bytes.  strslice needs *)
(* all of them, although fb_fprint_str's array (vga.c:387) has one less.   *)
THEOREM HintsAreRecognised == Spec => []HintsRecognised
<1>1. LibraryInv => HintsRecognised
  BY Hints DEF LibraryInv
<1> QED BY <1>1, LibraryInvariant, PTL

(* int_to_str (string.c:54-79) writes the decimal of every int, though the *)
(* least one's with characters below '0', int_to_hex (string.c:26-44) the  *)
(* hexadecimal of every int, whatever the width of an int; and neither     *)
(* changes a byte behind what its widest number needs.                     *)
THEOREM NumbersArePrinted == Spec => []NumbersPrinted
<1>1. LibraryInv => NumbersPrinted
  BY Prints DEF LibraryInv
<1> QED BY <1>1, LibraryInvariant, PTL

(* The message of page_fault (paging.c:136-157) stays in its 64 bytes.     *)
THEOREM FaultMessageIsShort == Spec => []FaultMessageFits
<1>1. LibraryInv => FaultMessageFits
  BY DEF LibraryInv, FaultMessageFits, MessageSize
<1> QED BY <1>1, LibraryInvariant, PTL

=============================================================================
