---------------------------- MODULE MemoryProofs ----------------------------
(***************************************************************************)
(* Proofs about the placement allocator and paging, for every page size,   *)
(* every size of the address space and of the tables, every end of the     *)
(* image and place of the four arrays, and all requests.                   *)
(*                                                                         *)
(* DisjointUntilWrap is not inductive: it says nothing of where the next   *)
(* chunk goes.  Bounded adds that all chunks lie below placement_address   *)
(* and that the last one ends there.                                       *)
(*                                                                         *)
(* MapsFirstPages speaks only of the time when paging is on.  The          *)
(* invariant behind it follows initialise_paging: how far each loop has    *)
(* filled the arrays, and which words nobody changes any more.             *)
(***************************************************************************)
EXTENDS Paging, TLAPS

(* An address space has at least one page. *)
LEMMA WordBound == WordSize \in Nat /\ WordSize >= PageSize
  BY KMemoryAssumption DEF WordSize

(* Rounding up in kmalloc_int: the result is less than a page further, on  *)
(* a page boundary, and at most the end of the address space.              *)
LEMMA AlignIs ==
  ASSUME NEW a \in 0..(WordSize - 1)
  PROVE  /\ Align(a) \in a..(a + PageSize - 1)
         /\ Align(a) <= WordSize
         /\ Align(a) % PageSize = 0
<1> DEFINE q == a \div PageSize
           r == a % PageSize
<1>1. q \in Nat /\ r \in 0..(PageSize - 1) /\ a = q * PageSize + r
  BY KMemoryAssumption, WordBound
<1> HIDE DEF q, r
<1>2. CASE r = 0
  BY <1>1, <1>2, KMemoryAssumption, WordBound DEF Align, r
<1>3. CASE r # 0
  <2>1. Align(a) = (q + 1) * PageSize
    <3>1. Align(a) = a - r + PageSize
      BY <1>3 DEF Align, r
    <3> QED BY <1>1, <3>1, KMemoryAssumption
  <2>2. ((q + 1) * PageSize) % PageSize = 0
    BY <1>1, KMemoryAssumption
  <2>3. q + 1 <= Pages
    <3>1. q * PageSize < Pages * PageSize
      BY <1>1, KMemoryAssumption, WordBound DEF WordSize
    <3> QED BY <1>1, <3>1, KMemoryAssumption
  <2>4. (q + 1) * PageSize <= WordSize
    BY <1>1, <2>3, KMemoryAssumption DEF WordSize
  <2>5. (q + 1) * PageSize = a - r + PageSize
    BY <1>1, KMemoryAssumption
  <2> QED BY <1>1, <1>3, <2>1, <2>2, <2>4, <2>5, KMemoryAssumption, WordBound
<1> QED BY <1>2, <1>3

-----------------------------------------------------------------------------
(* The inductive invariant.                                                *)

(* Until the address wraps, the chunks lie one after the other between the *)
(* end of the image and placement_address, where the last one ends.        *)
Bounded ==
  ~wrapped =>
    /\ placement_address >= end
    /\ \A m \in 1..Len(chunks) :
         chunks[m].base + chunks[m].size <= placement_address
    /\ Len(chunks) # 0 =>
         chunks[Len(chunks)].base + chunks[Len(chunks)].size = placement_address

Inv ==
  /\ TypeOK
  /\ Bounded
  /\ DisjointUntilWrap
  /\ ChunksAligned
  /\ NothingWasted

(* placement_address is &end at boot (kmemory.c:4). *)
LEMMA InitInv == Init => Inv
<1> SUFFICES ASSUME Init PROVE Inv
  OBVIOUS
<1>1. TypeOK
  <2>1. placement_address \in 0..(WordSize - 1)
    BY KMemoryAssumption DEF Init
  <2>2. chunks \in Seq(Chunk)
    BY DEF Init
  <2>3. wrapped \in BOOLEAN
    BY DEF Init
  <2> QED BY <2>1, <2>2, <2>3 DEF TypeOK
<1>2. Bounded
  BY KMemoryAssumption DEF Init, Bounded
<1>3. DisjointUntilWrap
  BY DEF Init, DisjointUntilWrap, Disjoint
<1>4. ChunksAligned /\ NothingWasted
  BY DEF Init, ChunksAligned, NothingWasted
<1> QED BY <1>1, <1>2, <1>3, <1>4 DEF Inv

(* What one call of kmalloc_int does, for each of the four wrappers. *)
LEMMA CallResult ==
  ASSUME TypeOK, NEW sz \in Sizes, NEW align \in BOOLEAN, NEW phys \in BOOLEAN,
         kmalloc_int(sz, align, phys)
  PROVE  \E c \in Chunk :
           /\ chunks' = Append(chunks, c)
           /\ c.size = sz /\ c.align = align
           /\ align => c.base % PageSize = 0
           /\ placement_address' \in 0..(WordSize - 1)
           /\ wrapped' \in BOOLEAN
           /\ ~wrapped' => /\ ~wrapped
                           /\ placement_address' = c.base + sz
                           /\ c.base >= placement_address
                           /\ c.base - placement_address <= IF align THEN PageSize - 1 ELSE 0
<1> DEFINE aligned == IF align THEN Align(placement_address) ELSE placement_address
           tmp == aligned % WordSize
           c == [base |-> tmp, size |-> sz, align |-> align,
                 phys |-> IF phys THEN {tmp} ELSE {}]
<1>1. /\ aligned \in 0..WordSize
      /\ aligned >= placement_address
      /\ aligned - placement_address <= IF align THEN PageSize - 1 ELSE 0
      /\ align => aligned % PageSize = 0
  BY AlignIs, WordBound, KMemoryAssumption DEF TypeOK
<1>2. /\ placement_address' = (tmp + sz) % WordSize
      /\ chunks' = Append(chunks, c)
      /\ wrapped' = (wrapped \/ aligned >= WordSize \/ tmp + sz >= WordSize)
  BY DEF kmalloc_int
<1> HIDE DEF aligned
<1>3. /\ tmp \in 0..(WordSize - 1)
      /\ aligned < WordSize => tmp = aligned
      /\ aligned = WordSize => tmp = 0
  BY <1>1, WordBound, KMemoryAssumption
<1> HIDE DEF tmp
<1>4. align => tmp % PageSize = 0
  BY <1>1, <1>3, WordBound, KMemoryAssumption
<1>5. sz \in Nat /\ (tmp + sz) % WordSize \in 0..(WordSize - 1)
  BY <1>3, WordBound, KMemoryAssumption
<1>6. tmp + sz < WordSize => (tmp + sz) % WordSize = tmp + sz
  BY <1>3, <1>5, WordBound, KMemoryAssumption
<1>7. wrapped' \in BOOLEAN
  BY <1>2
<1>8. ~wrapped' => /\ ~wrapped
                   /\ placement_address' = tmp + sz
                   /\ tmp >= placement_address
                   /\ tmp - placement_address <= IF align THEN PageSize - 1 ELSE 0
  <2> SUFFICES ASSUME ~wrapped'
               PROVE  /\ ~wrapped
                      /\ placement_address' = tmp + sz
                      /\ tmp >= placement_address
                      /\ tmp - placement_address <= IF align THEN PageSize - 1 ELSE 0
    OBVIOUS
  <2>1. ~wrapped /\ ~(aligned >= WordSize) /\ ~(tmp + sz >= WordSize)
    BY <1>2, Zenon
  <2>2. aligned < WordSize /\ tmp + sz < WordSize
    BY <1>1, <1>3, <1>5, <2>1, WordBound
  <2>3. tmp = aligned /\ placement_address' = tmp + sz
    BY <1>2, <1>3, <1>6, <2>2
  <2> QED BY <1>1, <2>1, <2>3
<1>9. c \in Chunk
  BY <1>3 DEF Chunk
<1>10. c.base = tmp /\ c.size = sz /\ c.align = align
  OBVIOUS
<1> HIDE DEF c
<1> QED BY <1>2, <1>4, <1>5, <1>7, <1>8, <1>9, <1>10

(* An allocation preserves the invariant: the new chunk begins at or above *)
(* placement_address, behind all the others.                               *)
LEMMA AllocationInv ==
  ASSUME Inv, NEW sz \in Sizes, NEW align \in BOOLEAN, NEW phys \in BOOLEAN,
         kmalloc_int(sz, align, phys)
  PROVE  Inv'
<1>1. PICK c \in Chunk :
           /\ chunks' = Append(chunks, c)
           /\ c.size = sz /\ c.align = align
           /\ align => c.base % PageSize = 0
           /\ placement_address' \in 0..(WordSize - 1)
           /\ wrapped' \in BOOLEAN
           /\ ~wrapped' => /\ ~wrapped
                           /\ placement_address' = c.base + sz
                           /\ c.base >= placement_address
                           /\ c.base - placement_address <= IF align THEN PageSize - 1 ELSE 0
  BY CallResult DEF Inv
<1> DEFINE L == Len(chunks)
<1>2. chunks \in Seq(Chunk) /\ L \in Nat /\ placement_address \in Int /\ end \in Int
  BY KMemoryAssumption, WordBound DEF Inv, TypeOK
<1>3. /\ chunks' \in Seq(Chunk)
      /\ Len(chunks') = L + 1
      /\ \A m \in 1..L : chunks'[m] = chunks[m]
      /\ chunks'[L + 1] = c
  BY <1>1, <1>2
<1>4. ASSUME NEW d \in Chunk PROVE d.base \in Nat /\ d.size \in Nat
  <2>1. d.base \in 0..(WordSize - 1) /\ d.size \in Sizes
    BY DEF Chunk
  <2>2. d.size \in 0..(WordSize - 1)
    BY <2>1, KMemoryAssumption
  <2> QED BY <2>1, <2>2, WordBound
<1>5. \A m \in 1..L : chunks[m].base \in Nat /\ chunks[m].size \in Nat
  BY <1>2, <1>4
<1>6. c.base \in Nat /\ c.size \in Nat
  BY <1>4
<1> HIDE DEF L
<1>7. TypeOK'
  BY <1>1, <1>3 DEF TypeOK
<1>8. Bounded'
  <2> SUFFICES ASSUME ~wrapped'
               PROVE  /\ placement_address' >= end
                      /\ \A m \in 1..(L + 1) :
                           chunks'[m].base + chunks'[m].size <= placement_address'
                      /\ chunks'[L + 1].base + chunks'[L + 1].size = placement_address'
    BY <1>2, <1>3 DEF Bounded
  <2>1. \A m \in 1..L : chunks[m].base + chunks[m].size <= placement_address
    BY <1>1 DEF Inv, Bounded, L
  <2>2. placement_address >= end
    BY <1>1 DEF Inv, Bounded
  <2>3. placement_address' = c.base + c.size /\ c.base >= placement_address
    BY <1>1
  <2>4. placement_address' >= placement_address /\ placement_address' \in Int
    BY <1>2, <1>6, <2>3
  <2>5. ASSUME NEW m \in 1..L
        PROVE  chunks'[m].base + chunks'[m].size <= placement_address'
    <3>1. /\ chunks'[m] = chunks[m]
          /\ chunks[m].base + chunks[m].size <= placement_address
          /\ chunks[m].base \in Nat /\ chunks[m].size \in Nat
      BY <1>3, <1>5, <2>1
    <3> QED BY <1>2, <2>4, <3>1
  <2>6. chunks'[L + 1].base + chunks'[L + 1].size = placement_address'
    BY <1>3, <2>3
  <2>7. \A m \in 1..(L + 1) : m \in 1..L \/ m = L + 1
    BY <1>2
  <2>8. \A m \in 1..(L + 1) : chunks'[m].base + chunks'[m].size <= placement_address'
    BY <2>4, <2>5, <2>6, <2>7
  <2> QED BY <1>2, <2>2, <2>4, <2>6, <2>8
<1>9. DisjointUntilWrap'
  <2> SUFFICES ASSUME ~wrapped', NEW m \in 1..(L + 1)
               PROVE  /\ chunks'[m].base >= end
                      /\ \A n \in 1..(L + 1) :
                           m < n => chunks'[m].base + chunks'[m].size <= chunks'[n].base
    BY <1>3 DEF DisjointUntilWrap, Disjoint
  <2>1. ~wrapped /\ c.base >= placement_address
    BY <1>1
  <2>2. /\ placement_address >= end
        /\ \A k \in 1..L : chunks[k].base + chunks[k].size <= placement_address
    BY <2>1 DEF Inv, Bounded, L
  <2>3. \A k \in 1..L : /\ chunks[k].base >= end
                        /\ \A n \in 1..L : k < n => chunks[k].base + chunks[k].size <= chunks[n].base
    BY <2>1 DEF Inv, DisjointUntilWrap, Disjoint, L
  <2>4. CASE m = L + 1
    BY <1>2, <1>3, <1>6, <2>1, <2>2, <2>4
  <2>5. CASE m \in 1..L
    <3>1. /\ chunks'[m] = chunks[m] /\ chunks[m].base >= end
          /\ chunks[m].base + chunks[m].size <= placement_address
          /\ chunks[m].base \in Nat /\ chunks[m].size \in Nat
      BY <1>3, <1>5, <2>2, <2>3, <2>5
    <3>2. ASSUME NEW n \in 1..L, m < n
          PROVE  chunks'[m].base + chunks'[m].size <= chunks'[n].base
      BY <1>3, <2>3, <2>5, <3>1, <3>2
    <3>3. chunks'[m].base + chunks'[m].size <= chunks'[L + 1].base
      BY <1>2, <1>3, <1>6, <2>1, <3>1
    <3>4. \A n \in 1..(L + 1) : n \in 1..L \/ n = L + 1
      BY <1>2
    <3> QED BY <3>1, <3>2, <3>3, <3>4
  <2> QED BY <1>2, <2>4, <2>5
<1>10. ChunksAligned'
  <2>1. \A m \in 1..L : chunks[m].align => chunks[m].base % PageSize = 0
    BY DEF Inv, ChunksAligned, L
  <2>2. c.align => c.base % PageSize = 0
    BY <1>1
  <2>3. \A m \in 1..(L + 1) : m \in 1..L \/ m = L + 1
    BY <1>2
  <2> QED BY <1>3, <2>1, <2>2, <2>3 DEF ChunksAligned
<1>11. NothingWasted'
  <2> SUFFICES ASSUME ~wrapped', NEW m \in 1..L
               PROVE  chunks'[m + 1].base - (chunks'[m].base + chunks'[m].size)
                        \in 0..(IF chunks'[m + 1].align THEN PageSize - 1 ELSE 0)
    BY <1>2, <1>3 DEF NothingWasted
  <2>1. CASE m = L
    <3>1. chunks[L].base + chunks[L].size = placement_address
      BY <1>1, <1>2, <2>1 DEF Inv, Bounded, L
    <3>2. c.base - placement_address \in 0..(IF c.align THEN PageSize - 1 ELSE 0)
      BY <1>1, <1>2, <1>6, KMemoryAssumption
    <3> QED BY <1>2, <1>3, <2>1, <3>1, <3>2
  <2>2. CASE m \in 1..(L - 1)
    <3>1. chunks[m + 1].base - (chunks[m].base + chunks[m].size)
            \in 0..(IF chunks[m + 1].align THEN PageSize - 1 ELSE 0)
      BY <1>1, <2>2 DEF Inv, NothingWasted, L
    <3>2. chunks'[m + 1] = chunks[m + 1] /\ chunks'[m] = chunks[m]
      BY <1>2, <1>3, <2>2
    <3> QED BY <3>1, <3>2
  <2> QED BY <1>2, <2>1, <2>2
<1> QED BY <1>7, <1>8, <1>9, <1>10, <1>11 DEF Inv

(* Every call of the interface of kmemory.h preserves the invariant. *)
LEMMA NextInv == Inv /\ [Next]_vars => Inv'
<1>1. ASSUME Inv, NEW sz \in Sizes,
             kmalloc(sz) \/ kmalloc_a(sz) \/ kmalloc_p(sz) \/ kmalloc_ap(sz)
      PROVE  Inv'
  BY <1>1, AllocationInv DEF kmalloc, kmalloc_a, kmalloc_p, kmalloc_ap
<1>2. ASSUME Inv, UNCHANGED vars PROVE Inv'
  BY <1>2 DEF vars, Inv, TypeOK, Bounded, DisjointUntilWrap, Disjoint, ChunksAligned,
              NothingWasted
<1> QED BY <1>1, <1>2 DEF Next

(* The invariant holds of every behaviour of the allocator. *)
LEMMA InvHolds == Spec => []Inv
  BY InitInv, NextInv, PTL DEF Spec

-----------------------------------------------------------------------------
(* The theorems.                                                           *)

(* The variables keep their types, placement_address that of a u32int. *)
THEOREM TypeCorrect == Spec => []TypeOK
<1>1. Inv => TypeOK
  BY DEF Inv
<1> QED BY <1>1, InvHolds, PTL

(* kmalloc_int gives out no address twice and none of the image's, for any *)
(* sequence of requests that does not pass the end of the address space.   *)
THEOREM ChunksAreDisjoint == Spec => []DisjointUntilWrap
<1>1. Inv => DisjointUntilWrap
  BY DEF Inv
<1> QED BY <1>1, InvHolds, PTL

(* kmalloc_a and kmalloc_ap return page-aligned chunks, even when rounding *)
(* up passes the end of the address space.                                 *)
THEOREM ChunksAreAligned == Spec => []ChunksAligned
<1>1. Inv => ChunksAligned
  BY DEF Inv
<1> QED BY <1>1, InvHolds, PTL

(* kmalloc_int skips less than a page, and only to align. *)
THEOREM GapsAreSmall == Spec => []NothingWasted
<1>1. Inv => NothingWasted
  BY DEF Inv
<1> QED BY <1>1, InvHolds, PTL

-----------------------------------------------------------------------------
(* The refinement of Allocator.                                            *)

(* The addresses somebody has, as KMemory maps them. *)
Owned == (0..(end - 1)) \cup UNION {Extent(chunks[m]) : m \in 1..Len(chunks)}

(* A chunk takes addresses of the address space, in a row if it does not   *)
(* pass its end.                                                           *)
LEMMA ExtentIs ==
  ASSUME NEW c \in Chunk
  PROVE  /\ Extent(c) \subseteq 0..(WordSize - 1)
         /\ c.base \in Nat /\ c.size \in Nat
         /\ c.base + c.size <= WordSize => Extent(c) = c.base..(c.base + c.size - 1)
<1>1. c.base \in Nat /\ c.size \in Nat
  <2>1. c.base \in 0..(WordSize - 1) /\ c.size \in Sizes
    BY DEF Chunk
  <2>2. c.size \in 0..(WordSize - 1)
    BY <2>1, KMemoryAssumption
  <2> QED BY <2>1, <2>2, WordBound
<1> DEFINE b == c.base
           s == c.size
<1>2. WordSize \in Nat /\ WordSize > 0
  BY WordBound, KMemoryAssumption
<1>3. b \in Nat /\ s \in Nat /\ Extent(c) = {(b + k) % WordSize : k \in 0..(s - 1)}
  BY <1>1 DEF Extent
<1> HIDE DEF b, s
<1>4. \A k \in 0..(s - 1) : (b + k) % WordSize \in 0..(WordSize - 1)
  BY <1>2, <1>3
<1>5. ASSUME b + s <= WordSize
      PROVE  Extent(c) = b..(b + s - 1)
  <2>1. \A k \in 0..(s - 1) : (b + k) % WordSize = b + k
    BY <1>2, <1>3, <1>5
  <2>2. \A a \in b..(b + s - 1) : a - b \in 0..(s - 1) /\ b + (a - b) = a
    BY <1>3
  <2>3. \A k \in 0..(s - 1) : b + k \in b..(b + s - 1)
    BY <1>3
  <2>4. Extent(c) \subseteq b..(b + s - 1)
    BY <1>3, <2>1, <2>3
  <2>5. ASSUME NEW a \in b..(b + s - 1) PROVE a \in Extent(c)
    <3>1. a - b \in 0..(s - 1) /\ (b + (a - b)) % WordSize = a
      BY <2>1, <2>2
    <3> QED BY <1>3, <3>1
  <2> QED BY <2>4, <2>5
<1> QED BY <1>1, <1>3, <1>4, <1>5 DEF b, s

(* What somebody has is in the address space. *)
OwnedInSpace == Owned \subseteq 0..(WordSize - 1)

(* The chunks' types keep what they own in the address space. *)
LEMMA OwnedType == TypeOK => OwnedInSpace
<1> SUFFICES ASSUME TypeOK, NEW a \in Owned PROVE a \in 0..(WordSize - 1)
  BY DEF OwnedInSpace
<1>1. CASE a \in 0..(end - 1)
  BY <1>1, KMemoryAssumption, WordBound
<1>2. CASE \E m \in 1..Len(chunks) : a \in Extent(chunks[m])
  <2>1. PICK m \in 1..Len(chunks) : a \in Extent(chunks[m])
    BY <1>2
  <2>2. chunks[m] \in Chunk
    BY DEF TypeOK
  <2> QED BY <2>1, <2>2, ExtentIs
<1> QED BY <1>1, <1>2 DEF Owned

(* So it is after a step. *)
LEMMA OwnedTypeNext == TypeOK' => OwnedInSpace'
  BY OwnedType, PTL

(* A call of kmalloc_int is an allocation of Allocator, or exhausts it. *)
LEMMA CallImplements ==
  ASSUME Inv, Inv', NEW sz \in Sizes, NEW align \in BOOLEAN, NEW phys \in BOOLEAN,
         kmalloc_int(sz, align, phys)
  PROVE  Alloc!Next
<1>1. PICK c \in Chunk :
           /\ chunks' = Append(chunks, c)
           /\ c.size = sz /\ c.align = align
           /\ align => c.base % PageSize = 0
           /\ placement_address' \in 0..(WordSize - 1)
           /\ wrapped' \in BOOLEAN
           /\ ~wrapped' => /\ ~wrapped
                           /\ placement_address' = c.base + sz
                           /\ c.base >= placement_address
                           /\ c.base - placement_address <= IF align THEN PageSize - 1 ELSE 0
  BY CallResult DEF Inv
<1>2. CASE wrapped'
  <2>1. Owned' \subseteq 0..(WordSize - 1)
    BY OwnedTypeNext DEF Inv, OwnedInSpace
  <2>2. wrapped' = TRUE
    BY <1>1, <1>2, Zenon
  <2>3. Owned' \in SUBSET (0..(WordSize - 1))
    BY <2>1
  <2>4. Alloc!Exhaust
    BY <2>2, <2>3 DEF Alloc!Exhaust, Owned
  <2> QED BY <2>4 DEF Alloc!Next
<1>3. CASE ~wrapped'
  <2> DEFINE region == c.base..(c.base + sz - 1)
  <2>1. /\ c.base \in Nat /\ sz \in Nat
        /\ c.base + sz <= WordSize - 1
        /\ placement_address \in Nat /\ end \in Nat /\ WordSize \in Nat
    BY <1>1, <1>3, ExtentIs, WordBound, KMemoryAssumption DEF Inv, TypeOK
  <2>2. Extent(c) = region
    BY <1>1, <2>1, ExtentIs
  <2>3. Owned' = Owned \cup region
    <3>1. /\ Len(chunks') = Len(chunks) + 1 /\ Len(chunks) \in Nat
          /\ \A m \in 1..Len(chunks) : chunks'[m] = chunks[m]
          /\ chunks'[Len(chunks) + 1] = c
      BY <1>1 DEF Inv, TypeOK
    <3>2. 1..Len(chunks') = (1..Len(chunks)) \cup {Len(chunks) + 1}
      BY <3>1
    <3>3. Owned' = (0..(end - 1)) \cup UNION {Extent(chunks'[m]) : m \in 1..Len(chunks')}
      BY DEF Owned, Extent
    <3> HIDE DEF region
    <3>4. ASSUME NEW a PROVE a \in Owned' <=> a \in Owned \cup region
      <4>1. CASE a \in 0..(end - 1)
        BY <3>3, <4>1, Zenon DEF Owned
      <4>2. CASE a \notin 0..(end - 1)
        <5>1. a \in Owned' <=> \E m \in 1..Len(chunks') : a \in Extent(chunks'[m])
          BY <3>3, <4>2, Zenon
        <5>2. a \in Owned <=> \E m \in 1..Len(chunks) : a \in Extent(chunks[m])
          BY <4>2, Zenon DEF Owned
        <5>3. (\E m \in 1..Len(chunks') : a \in Extent(chunks'[m]))
                <=> \/ \E m \in 1..Len(chunks) : a \in Extent(chunks[m])
                    \/ a \in Extent(c)
          BY <3>1, <3>2, Zenon
        <5> QED BY <2>2, <5>1, <5>2, <5>3, Zenon
      <4> QED BY <4>1, <4>2
    <3> QED BY <3>4, Zenon
  <2>4. region \subseteq (0..(WordSize - 1)) \ Owned
    <3> SUFFICES ASSUME NEW a \in region PROVE a \in 0..(WordSize - 1) /\ a \notin Owned
      OBVIOUS
    <3>1. a \in 0..(WordSize - 1) /\ a >= c.base
      BY <2>1
    <3>2. /\ c.base >= placement_address /\ placement_address >= end
          /\ \A m \in 1..Len(chunks) :
               chunks[m].base + chunks[m].size <= placement_address
      BY <1>1, <1>3 DEF Inv, Bounded
    <3>3. a \notin 0..(end - 1)
      BY <2>1, <3>1, <3>2
    <3>4. ASSUME NEW m \in 1..Len(chunks) PROVE a \notin Extent(chunks[m])
      <4>1. chunks[m] \in Chunk
        BY DEF Inv, TypeOK
      <4> DEFINE b == chunks[m].base
                 s == chunks[m].size
                 cb == c.base
      <4>2. /\ b \in Nat /\ s \in Nat /\ cb \in Nat
            /\ b + s <= placement_address
            /\ b + s <= WordSize => Extent(chunks[m]) = b..(b + s - 1)
            /\ cb >= placement_address /\ cb + sz <= WordSize - 1
            /\ a >= cb
        BY <2>1, <3>1, <3>2, <4>1, ExtentIs
      <4>3. a \in Nat
        BY <2>1, <3>1
      <4> HIDE DEF b, s, cb
      <4>4. b + s <= WordSize /\ a > b + s - 1
        BY <2>1, <4>2, <4>3
      <4> QED BY <4>2, <4>3, <4>4
    <3> QED BY <3>1, <3>3, <3>4 DEF Owned
  <2>5. wrapped = FALSE /\ wrapped' = FALSE
    BY <1>1, <1>3, Zenon DEF Inv, TypeOK
  <2> HIDE DEF region
  <2>6. Alloc!Allocate(c.base, sz)
    BY <2>3, <2>4, <2>5 DEF Alloc!Allocate, Owned, region
  <2>7. c.base \in 0..(WordSize - 1)
    BY <2>1
  <2> QED BY <2>6, <2>7 DEF Alloc!Next
<1> QED BY <1>2, <1>3

(* kmalloc_int (kmemory.c:6-25) implements the abstract allocator: each    *)
(* call gives out a region that is in nobody's hands, the image's          *)
(* included, or passes the end of the address space.                       *)
THEOREM AllocatorImplemented == Spec => ImplementsAllocator
<1>1. Init => Alloc!Init
  BY DEF Init, Alloc!Init
<1>2. ASSUME Inv, Inv', [Next]_vars PROVE [Alloc!Next]_(Alloc!vars)
  <2>1. CASE \E sz \in Sizes :
               kmalloc(sz) \/ kmalloc_a(sz) \/ kmalloc_p(sz) \/ kmalloc_ap(sz)
    BY <1>2, <2>1, CallImplements DEF kmalloc, kmalloc_a, kmalloc_p, kmalloc_ap
  <2>2. CASE UNCHANGED vars
    BY <2>2 DEF vars, Alloc!vars, Extent
  <2> QED BY <1>2, <2>1, <2>2 DEF Next
<1> QED BY <1>1, <1>2, InvHolds, PTL DEF Spec, ImplementsAllocator, Alloc!Spec

-----------------------------------------------------------------------------
(* Paging.                                                                 *)


Indices == 0..(Entries - 1)

(* The sizes that the proofs need: a table's entry has room for flags, and *)
(* the pages of one table are in the address space.                        *)
LEMMA PagingSizes ==
  /\ Entries \in Nat /\ Entries >= 1
  /\ PageSize \in Nat /\ PageSize >= 4 /\ PageSize % 4 = 0
  /\ WordSize = Entries * Entries * PageSize
  /\ Mapped \in Nat /\ Mapped <= WordSize
<1>1. /\ Entries \in Nat /\ Entries >= 1
      /\ PageSize \in Nat /\ PageSize >= 4 /\ PageSize % 4 = 0
      /\ WordSize = Entries * Entries * PageSize
  BY KMemoryAssumption, PagingAssumption DEF WordSize
<1>2. Entries * PageSize \in Nat /\ Entries * PageSize <= Entries * (Entries * PageSize)
  BY <1>1
<1>3. Entries * (Entries * PageSize) = Entries * Entries * PageSize
  BY <1>1
<1> QED BY <1>1, <1>2, <1>3 DEF Mapped

(* A multiple of the page size plus 3 is an entry that is present and      *)
(* whose frame is the multiple; 2 is not present.                          *)
LEMMA EntryIs ==
  ASSUME NEW a \in Nat, a % PageSize = 0
  PROVE  Present(a + 3) /\ Frame(a + 3) = a /\ ~Present(2)
<1> DEFINE q == a \div PageSize
           r == PageSize \div 4
<1>1. q \in Nat /\ a = q * PageSize
  BY PagingSizes
<1>2. r \in Nat /\ PageSize = 4 * r
  BY PagingSizes
<1> HIDE DEF q, r
<1>3. a = 2 * (2 * (q * r)) /\ q * r \in Nat
  BY <1>1, <1>2
<1> DEFINE h == q * r
<1> HIDE DEF h
<1>4. (2 * (2 * h) + 3) % 2 = 1
  BY <1>3 DEF h
<1>5. (q * PageSize + 3) % PageSize = 3
  BY <1>1, PagingSizes
<1>6. (a + 3) - 3 = a
  OBVIOUS
<1> QED BY <1>1, <1>3, <1>4, <1>5, <1>6 DEF Present, Frame, h

(* The arrays are page-aligned and differ. *)
LEMMA ArraysAre ==
  /\ \A a \in Arrays : a \in Nat /\ a % PageSize = 0
  /\ kernel_page_directory # kernel_page_table
  /\ kernel_page_directory # other_page_directory
  /\ kernel_page_directory # other_page_table
  /\ kernel_page_table # other_page_directory
  /\ kernel_page_table # other_page_table
  /\ other_page_directory # other_page_table
  /\ kernel_page_directory \in Arrays /\ kernel_page_table \in Arrays
  /\ other_page_directory \in Arrays /\ other_page_table \in Arrays
  BY PagingAssumption, KMemoryAssumption DEF Arrays

-----------------------------------------------------------------------------
(* The inductive invariant.                                                *)

(* The entry of page k in both tables. *)
Identity(k) ==
  /\ ram[kernel_page_table][k] = k * PageSize + 3
  /\ ram[other_page_table][k] = k * PageSize + 3

Absent(k) ==
  /\ ram[kernel_page_directory][k] = 2
  /\ ram[other_page_directory][k] = 2

(* How far the loops have come, and what has been set since. *)
Progress ==
  /\ pc = "directories" => \A k \in 0..(i - 1) : Absent(k)
  /\ pc \in {"list", "tables", "insert"} => \A k \in Indices : Absent(k)
  /\ pc \in {"list", "start"} => i = 0
  /\ pc = "tables" => \A k \in 0..(i - 1) : Identity(k)
  /\ pc \in {"insert", "load", "enable", "done"} => \A k \in Indices : Identity(k)
  /\ pc \in {"load", "enable", "done"} =>
       /\ ram[kernel_page_directory][0] = kernel_page_table + 3
       /\ ram[other_page_directory][0] = other_page_table + 3
       /\ \A k \in 1..(Entries - 1) : Absent(k)
  /\ pc \in {"tables", "insert", "load", "enable", "done"} =>
       /\ directories[0] = kernel_page_directory
       /\ directories[1] = other_page_directory
  /\ pc \in {"enable", "done"} => cr3 \in {kernel_page_directory, other_page_directory}
  /\ pg => pc = "done"

PagingType ==
  /\ DOMAIN ram = Arrays
  /\ \A a \in Arrays : DOMAIN ram[a] = Indices
  /\ i \in Indices
  /\ pg \in BOOLEAN
  /\ pc \in {"start", "directories", "list", "tables", "insert", "load", "enable", "done"}

(* *phys is the chunk's own address. *)
PhysIsBase == \A m \in 1..Len(chunks) : chunks[m].phys \subseteq {chunks[m].base}

PagingInv == PagingType /\ Progress

(* The arrays start as zeros. *)
LEMMA PagingInitInv == PagingInit => PagingInv
<1> SUFFICES ASSUME PagingInit PROVE PagingInv
  OBVIOUS
<1>1. 0 \in Indices
  BY PagingSizes DEF Indices
<1>2. DOMAIN ram = Arrays /\ \A a \in Arrays : DOMAIN ram[a] = Indices
  BY DEF PagingInit, Indices
<1>3. PagingType
  BY <1>1, <1>2 DEF PagingInit, PagingType
<1>4. Progress
  BY DEF PagingInit, Progress
<1> QED BY <1>3, <1>4 DEF PagingInv

(* What the two assignments of a loop's step do to the arrays. *)
LEMMA StoreIs ==
  ASSUME PagingType, NEW a \in Arrays, NEW b \in Arrays, a # b, NEW k \in Indices,
         NEW word1, NEW word2, Store(a, b, k, word1, word2)
  PROVE  /\ DOMAIN ram' = Arrays
         /\ \A c \in Arrays : DOMAIN ram'[c] = Indices
         /\ \A c \in Arrays, j \in Indices :
              ram'[c][j] = IF j # k THEN ram[c][j]
                           ELSE IF c = a THEN word1
                           ELSE IF c = b THEN word2
                           ELSE ram[c][j]
<1> DEFINE rowa == [ram[a] EXCEPT ![k] = word1]
           rowb == [ram[b] EXCEPT ![k] = word2]
<1>1. ram' = [[ram EXCEPT ![a] = rowa] EXCEPT ![b] = [[ram EXCEPT ![a] = rowa][b] EXCEPT ![k] = word2]]
  BY DEF Store
<1>2. [ram EXCEPT ![a] = rowa][b] = ram[b]
  BY DEF PagingType
<1>3. ram' = [[ram EXCEPT ![a] = rowa] EXCEPT ![b] = rowb]
  BY <1>1, <1>2
<1>4. /\ DOMAIN rowa = Indices /\ DOMAIN rowb = Indices
      /\ \A j \in Indices : rowa[j] = IF j = k THEN word1 ELSE ram[a][j]
      /\ \A j \in Indices : rowb[j] = IF j = k THEN word2 ELSE ram[b][j]
  BY DEF PagingType
<1> HIDE DEF rowa, rowb
<1>5. DOMAIN ram' = Arrays
  BY <1>3 DEF PagingType
<1>6. \A c \in Arrays : ram'[c] = IF c = b THEN rowb ELSE IF c = a THEN rowa ELSE ram[c]
  BY <1>3 DEF PagingType
<1>7. \A c \in Arrays : DOMAIN ram'[c] = Indices
  BY <1>4, <1>6 DEF PagingType
<1>8. ASSUME NEW c \in Arrays, NEW j \in Indices
      PROVE  ram'[c][j] = IF j # k THEN ram[c][j]
                          ELSE IF c = a THEN word1
                          ELSE IF c = b THEN word2
                          ELSE ram[c][j]
  BY <1>4, <1>6
<1> QED BY <1>5, <1>7, <1>8

(* The step of a loop's index: behind the last entry it starts again. *)
LEMMA IndexStep ==
  ASSUME i \in Indices
  PROVE  /\ (i + 1) % Entries \in Indices
         /\ (i + 1) % Entries = 0 => Indices = (0..(i - 1)) \cup {i}
         /\ (i + 1) % Entries # 0 => /\ (i + 1) % Entries = i + 1
                                     /\ 0..((i + 1) - 1) = (0..(i - 1)) \cup {i}
<1>1. CASE i + 1 < Entries
  <2>1. (i + 1) % Entries = i + 1
    BY <1>1, PagingSizes DEF Indices
  <2> QED BY <1>1, <2>1, PagingSizes DEF Indices
<1>2. CASE i + 1 = Entries
  <2>1. (i + 1) % Entries = 0
    BY <1>2, PagingSizes DEF Indices
  <2> QED BY <1>2, <2>1, PagingSizes DEF Indices
<1> QED BY <1>1, <1>2, PagingSizes DEF Indices

(* The first loop. *)
LEMMA ClearDirectoriesInv == PagingInv /\ ClearDirectories => PagingInv'
<1> SUFFICES ASSUME PagingInv, ClearDirectories PROVE PagingInv'
  OBVIOUS
<1>1. /\ pc = "directories" /\ i \in Indices /\ PagingType
      /\ i' = (i + 1) % Entries
      /\ pc' = IF i' = 0 THEN "list" ELSE "directories"
      /\ pg' = pg /\ pg = FALSE
  BY DEF PagingInv, PagingType, Progress, ClearDirectories
<1>2. /\ DOMAIN ram' = Arrays
      /\ \A c \in Arrays : DOMAIN ram'[c] = Indices
      /\ \A c \in {kernel_page_directory, other_page_directory}, j \in Indices :
           ram'[c][j] = IF j # i THEN ram[c][j] ELSE 2
  BY <1>1, StoreIs, ArraysAre DEF ClearDirectories
<1>3. i' \in Indices
  BY <1>1, IndexStep
<1>4. PagingType'
  BY <1>1, <1>2, <1>3 DEF PagingType
<1>5. \A k \in 0..(i - 1) : k \in Indices /\ k # i /\ Absent(k)
  BY <1>1, PagingSizes DEF PagingInv, Progress, Indices
<1>6. \A k \in (0..(i - 1)) \cup {i} : Absent(k)'
  BY <1>1, <1>2, <1>5 DEF Absent
<1>7. Progress'
  BY <1>1, <1>6, IndexStep DEF Progress
<1> QED BY <1>4, <1>7 DEF PagingInv

(* The second loop. *)
LEMMA FillTablesInv == PagingInv /\ FillTables => PagingInv'
<1> SUFFICES ASSUME PagingInv, FillTables PROVE PagingInv'
  OBVIOUS
<1>1. /\ pc = "tables" /\ i \in Indices /\ PagingType
      /\ i' = (i + 1) % Entries
      /\ pc' = IF i' = 0 THEN "insert" ELSE "tables"
      /\ pg' = pg /\ pg = FALSE /\ directories' = directories
      /\ directories[0] = kernel_page_directory
      /\ directories[1] = other_page_directory
  BY DEF PagingInv, PagingType, Progress, FillTables
<1>2. /\ DOMAIN ram' = Arrays
      /\ \A c \in Arrays : DOMAIN ram'[c] = Indices
      /\ \A c \in Arrays, j \in Indices :
           ram'[c][j] = IF j # i THEN ram[c][j]
                        ELSE IF c = kernel_page_table THEN i * PageSize + 3
                        ELSE IF c = other_page_table THEN i * PageSize + 3
                        ELSE ram[c][j]
  BY <1>1, StoreIs, ArraysAre DEF FillTables
<1>3. i' \in Indices
  BY <1>1, IndexStep
<1>4. PagingType'
  BY <1>1, <1>2, <1>3 DEF PagingType
<1>5. \A k \in 0..(i - 1) : k \in Indices /\ k # i /\ Identity(k)
  BY <1>1, PagingSizes DEF PagingInv, Progress, Indices
<1>6. \A k \in (0..(i - 1)) \cup {i} : Identity(k)'
  BY <1>1, <1>2, <1>5, ArraysAre DEF Identity
<1>7. \A k \in Indices : Absent(k)'
  BY <1>1, <1>2, ArraysAre DEF PagingInv, Progress, Absent
<1>8. Progress'
  BY <1>1, <1>6, <1>7, IndexStep DEF Progress
<1> QED BY <1>4, <1>8 DEF PagingInv

(* The first entries of the directories. *)
LEMMA InsertTablesInv == PagingInv /\ InsertTables => PagingInv'
<1> SUFFICES ASSUME PagingInv, InsertTables PROVE PagingInv'
  OBVIOUS
<1>1. /\ pc = "insert" /\ PagingType
      /\ i' = i
      /\ pc' = "load"
      /\ pg' = pg /\ pg = FALSE /\ directories' = directories
      /\ directories[0] = kernel_page_directory
      /\ directories[1] = other_page_directory
  BY DEF PagingInv, PagingType, Progress, InsertTables
<1>2. /\ DOMAIN ram' = Arrays
      /\ \A c \in Arrays : DOMAIN ram'[c] = Indices
      /\ \A c \in Arrays, j \in Indices :
           ram'[c][j] = IF j # 0 THEN ram[c][j]
                        ELSE IF c = kernel_page_directory THEN kernel_page_table + 3
                        ELSE IF c = other_page_directory THEN other_page_table + 3
                        ELSE ram[c][j]
  <2>1. 0 \in Indices
    BY PagingSizes DEF Indices
  <2> QED BY <1>1, <2>1, StoreIs, ArraysAre DEF InsertTables
<1>3. PagingType'
  BY <1>1, <1>2 DEF PagingType
<1>4. \A k \in Indices : Identity(k)'
  BY <1>1, <1>2, ArraysAre DEF PagingInv, Progress, Identity
<1>5. 0 \in Indices /\ \A k \in 1..(Entries - 1) : k \in Indices /\ k # 0
  BY PagingSizes DEF Indices
<1>6. \A k \in 1..(Entries - 1) : Absent(k)'
  BY <1>1, <1>2, <1>5, ArraysAre DEF PagingInv, Progress, Absent
<1>7. /\ ram'[kernel_page_directory][0] = kernel_page_table + 3
      /\ ram'[other_page_directory][0] = other_page_table + 3
  BY <1>2, <1>5, ArraysAre
<1>8. Progress'
  BY <1>1, <1>4, <1>6, <1>7 DEF Progress
<1> QED BY <1>3, <1>8 DEF PagingInv

(* The invariant is kept by all steps. *)
LEMMA PagingNextInv == PagingInv /\ [PagingNext]_allVars => PagingInv'
<1> SUFFICES ASSUME PagingInv, [PagingNext]_allVars PROVE PagingInv'
  OBVIOUS
<1>1. CASE Start
  BY <1>1, PagingSizes DEF Start, PagingInv, PagingType, Progress, Indices
<1>2. CASE ClearDirectories
  BY <1>2, ClearDirectoriesInv
<1>3. CASE ListDirectories
  BY <1>3 DEF ListDirectories, PagingInv, PagingType, Progress, Absent
<1>4. CASE FillTables
  BY <1>4, FillTablesInv
<1>5. CASE InsertTables
  BY <1>5, InsertTablesInv
<1>6. CASE LoadDirectory
  BY <1>6 DEF LoadDirectory, switch_page_directory_i, PagingInv, PagingType, Progress,
              Absent, Identity
<1>7. CASE enablePaging
  BY <1>7 DEF enablePaging, PagingInv, PagingType, Progress, Absent, Identity
<1>8. CASE Escape
  BY <1>8 DEF Escape, switch_page_directory_i, PagingInv, PagingType, Progress,
              Absent, Identity
<1>9. CASE Allocation \/ UNCHANGED allVars
  BY <1>9 DEF Allocation, allVars, pagingVars, PagingInv, PagingType, Progress,
              Absent, Identity
<1> QED BY <1>1, <1>2, <1>3, <1>4, <1>5, <1>6, <1>7, <1>8, <1>9
        DEF PagingNext, initialise_paging

-----------------------------------------------------------------------------
(* What the MMU finds.                                                     *)

(* The two indices that the MMU takes from an address. *)
LEMMA PageOf ==
  ASSUME NEW a \in 0..(WordSize - 1)
  PROVE  LET page == a \div PageSize
         IN  /\ page \div Entries \in Indices
             /\ page % Entries \in Indices
             /\ a < Mapped => page \div Entries = 0 /\ page % Entries = page
             /\ a >= Mapped => page \div Entries # 0
             /\ page \in Nat /\ page * PageSize + (a % PageSize) = a
<1> DEFINE page == a \div PageSize
           d == page \div Entries
           r == page % Entries
<1>1. page \in Nat /\ page * PageSize <= a /\ a < (page + 1) * PageSize
      /\ page * PageSize + (a % PageSize) = a
  BY PagingSizes
<1> HIDE DEF page
<1>2. d \in Nat /\ r \in 0..(Entries - 1) /\ page = d * Entries + r
  BY <1>1, PagingSizes
<1> HIDE DEF d, r
<1>3. page < Entries * Entries
  <2>1. page * PageSize < (Entries * Entries) * PageSize
    BY <1>1, PagingSizes
  <2>2. Entries * Entries \in Nat
    BY PagingSizes
  <2> QED BY <1>1, <2>1, <2>2, PagingSizes
<1>4. d < Entries
  <2>1. d * Entries < Entries * Entries
    BY <1>2, <1>3, PagingSizes
  <2> QED BY <1>2, <2>1, PagingSizes
<1>5. ASSUME a < Mapped PROVE d = 0 /\ r = page
  <2>1. page * PageSize < Entries * PageSize
    BY <1>1, <1>5, PagingSizes DEF Mapped
  <2>2. page < Entries
    BY <1>1, <2>1, PagingSizes
  <2>3. d * Entries < 1 * Entries
    BY <1>2, <2>2, PagingSizes
  <2> QED BY <1>2, <2>3, PagingSizes
<1>6. ASSUME a >= Mapped PROVE d # 0
  <2>1. Entries * PageSize < (page + 1) * PageSize
    BY <1>1, <1>6, PagingSizes DEF Mapped
  <2>2. Entries < page + 1
    BY <1>1, <2>1, PagingSizes
  <2> QED BY <1>1, <1>2, <2>2, PagingSizes
<1>7. d \in Indices /\ r \in Indices
  BY <1>2, <1>4, PagingSizes DEF Indices
<1> QED BY <1>1, <1>5, <1>6, <1>7 DEF page, d, r

(* With paging on, the directory in use has one table, whose entries are   *)
(* the first pages.                                                        *)
LEMMA TranslateIs == PagingInv => MapsFirstPages
<1> SUFFICES ASSUME PagingInv, pg = TRUE, NEW a \in 0..(WordSize - 1)
             PROVE  Translate(a) = IF a < Mapped THEN a ELSE Fault
  BY DEF MapsFirstPages, PagingInv, PagingType
<1> DEFINE page == a \div PageSize
           d == page \div Entries
           pde == WordAt(cr3, d)
           pte == WordAt(Frame(pde), page % Entries)
<1>1. /\ d \in Indices
      /\ page % Entries \in Indices
      /\ a < Mapped => d = 0 /\ page % Entries = page
      /\ a >= Mapped => d # 0
      /\ page \in Nat /\ page * PageSize + (a % PageSize) = a
  BY PageOf
<1>2. Translate(a) = IF Present(pde) /\ Present(pte) THEN Frame(pte) + (a % PageSize)
                                                     ELSE Fault
  BY DEF Translate
<1>3. /\ cr3 \in {kernel_page_directory, other_page_directory}
      /\ ram[kernel_page_directory][0] = kernel_page_table + 3
      /\ ram[other_page_directory][0] = other_page_table + 3
      /\ \A k \in 1..(Entries - 1) : Absent(k)
      /\ \A k \in Indices : Identity(k)
  BY DEF PagingInv, Progress
<1>4. pde = ram[cr3][d]
  BY <1>3, ArraysAre DEF WordAt
<1> HIDE DEF pde
<1>5. CASE a >= Mapped
  <2>1. d \in 1..(Entries - 1)
    BY <1>1, <1>5, PagingSizes DEF Indices
  <2>2. pde = 2
    BY <1>3, <1>4, <2>1 DEF Absent
  <2>3. ~Present(2)
    BY ArraysAre, EntryIs
  <2>4. ~(a < Mapped)
    BY <1>5, PagingSizes
  <2> QED BY <1>2, <2>2, <2>3, <2>4
<1>6. CASE a < Mapped
  <2>1. d = 0 /\ page % Entries = page /\ page \in Indices
    BY <1>1, <1>6
  <2>2. PICK t \in {kernel_page_table, other_page_table} : pde = t + 3
    BY <1>3, <1>4, <2>1
  <2>3. Present(pde) /\ Frame(pde) = t /\ t \in Arrays
    BY <2>2, ArraysAre, EntryIs
  <2>4. pte = ram[t][page]
    BY <2>1, <2>3 DEF WordAt
  <2> HIDE DEF pte
  <2>5. pte = page * PageSize + 3
    BY <1>3, <2>1, <2>2, <2>4 DEF Identity
  <2>6. page * PageSize \in Nat /\ (page * PageSize) % PageSize = 0
    BY <1>1, PagingSizes
  <2>7. Present(pte) /\ Frame(pte) = page * PageSize
    BY <2>5, <2>6, EntryIs
  <2>8. Translate(a) = page * PageSize + (a % PageSize)
    BY <1>2, <2>3, <2>7
  <2> QED BY <1>1, <1>6, <2>8
<1> QED BY <1>5, <1>6, PagingSizes

(* initialise_paging maps the first pages to themselves and nothing else,  *)
(* in both directories, for tables and pages of every size (paging.c).     *)
THEOREM MapIsIdentity == PagingSpec => []MapsFirstPages
  BY PagingInitInv, PagingNextInv, TranslateIs, PTL DEF PagingSpec

-----------------------------------------------------------------------------
(* The allocator under paging.                                             *)

(* A step of the composition is one of the allocator or none. *)
THEOREM AllocatorUnchanged == PagingSpec => Spec
<1>1. PagingInit => Init
  BY DEF PagingInit
<1>2. [PagingNext]_allVars => [Next]_vars
  BY DEF PagingNext, allVars, initialise_paging, Start, ClearDirectories, ListDirectories,
         FillTables, InsertTables, LoadDirectory, enablePaging, Escape, Allocation
<1> QED BY <1>1, <1>2, PTL DEF PagingSpec, Spec

(* kmalloc_int sets *phys to the address it returns. *)
LEMMA PhysNext == TypeOK /\ PhysIsBase /\ [Next]_vars => PhysIsBase'
<1> SUFFICES ASSUME TypeOK, PhysIsBase, [Next]_vars PROVE PhysIsBase'
  OBVIOUS
<1>1. ASSUME NEW sz \in Sizes, NEW align, NEW phys, kmalloc_int(sz, align, phys)
      PROVE  PhysIsBase'
  <2> DEFINE aligned == IF align THEN Align(placement_address) ELSE placement_address
             tmp == aligned % WordSize
             c == [base |-> tmp, size |-> sz, align |-> align,
                   phys |-> IF phys THEN {tmp} ELSE {}]
  <2>1. chunks' = Append(chunks, c)
    BY <1>1 DEF kmalloc_int
  <2>2. c.phys \subseteq {c.base}
    OBVIOUS
  <2> HIDE DEF c
  <2>3. /\ Len(chunks') = Len(chunks) + 1 /\ Len(chunks) \in Nat
        /\ \A m \in 1..Len(chunks) : chunks'[m] = chunks[m]
        /\ chunks'[Len(chunks) + 1] = c
    BY <2>1 DEF TypeOK
  <2>4. \A m \in 1..Len(chunks') : m \in 1..Len(chunks) \/ m = Len(chunks) + 1
    BY <2>3
  <2> QED BY <2>2, <2>3, <2>4 DEF PhysIsBase
<1>2. CASE UNCHANGED vars
  BY <1>2 DEF vars, PhysIsBase
<1> QED BY <1>1, <1>2 DEF Next, kmalloc, kmalloc_a, kmalloc_p, kmalloc_ap

(* "The physical location of the allocated chunk": a chunk in the mapped   *)
(* pages is at *phys in physical memory, although kmalloc_int stores a     *)
(* virtual address (kmemory.c:20), in both directories and for every size. *)
THEOREM PhysIsRight == PagingSpec => []PhysIsPhysical
<1>1. Init => PhysIsBase
  BY DEF Init, PhysIsBase
<1>2. ASSUME TypeOK, PhysIsBase, PagingInv PROVE PhysIsPhysical
  <2> SUFFICES ASSUME NEW m \in 1..Len(chunks), NEW p \in chunks[m].phys,
                      NEW k \in 0..(chunks[m].size - 1), chunks[m].base + k < Mapped
               PROVE  Translate(chunks[m].base + k) = p + k
    BY DEF PhysIsPhysical
  <2>1. p = chunks[m].base
    BY <1>2 DEF PhysIsBase
  <2>2. chunks[m].base \in Nat /\ chunks[m].size \in Nat
    <3>1. chunks[m] \in Chunk
      BY <1>2 DEF TypeOK
    <3> QED BY <3>1, ExtentIs
  <2>3. chunks[m].base + k \in 0..(WordSize - 1)
    BY <2>2, PagingSizes
  <2>4. CASE pg
    BY <1>2, <2>1, <2>3, <2>4, TranslateIs DEF MapsFirstPages
  <2>5. CASE ~pg
    BY <2>1, <2>5 DEF Translate
  <2> QED BY <2>4, <2>5
<1>3. Spec => []PhysIsBase
  BY <1>1, PhysNext, TypeCorrect, PTL DEF Spec
<1>4. PagingSpec => []PagingInv
  BY PagingInitInv, PagingNextInv, PTL DEF PagingSpec
<1> QED BY <1>2, <1>3, <1>4, AllocatorUnchanged, TypeCorrect, PTL

=============================================================================
