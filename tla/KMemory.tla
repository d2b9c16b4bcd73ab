------------------------------ MODULE KMemory -------------------------------
(***************************************************************************)
(* The kernel's placement allocator, kmemory.c: placement_address starts   *)
(* behind the kernel's image and every allocation moves it up; nothing is  *)
(* ever freed.  Addresses are unsigned words, so that it can wrap around.  *)
(***************************************************************************)
EXTENDS Integers, Sequences

CONSTANTS
  PageSize,  (* 0x1000                                                     *)
  Pages,     (* the number of pages of the address space                   *)
  end,       (* the linker's symbol for the end of the image               *)
  Sizes,     (* the sizes that are asked for                               *)
  MaxCalls   (* bound on the number of allocations                         *)

(* The number of values of a u32int. *)
WordSize == Pages * PageSize

ASSUME KMemoryAssumption ==
  /\ PageSize \in Nat \ {0}
  /\ Pages \in Nat \ {0}
  /\ end \in 0..(WordSize - 1)
  /\ Sizes \subseteq 0..(WordSize - 1)
  /\ MaxCalls \in Nat

VARIABLES
  placement_address,
  chunks,    (* the calls' results, in order                               *)
  wrapped    (* has an address passed the end of the address space?        *)

vars == <<placement_address, chunks, wrapped>>

Init ==
  /\ placement_address = end
  /\ chunks = <<>>
  /\ wrapped = FALSE

(* Variant: an address on a page boundary is moved to the next page too. *)
AlignAlways(a) == a - (a % PageSize) + PageSize

(* Variant: the address is rounded down. *)
AlignDown(a) == a - (a % PageSize)

(* Variant: the offset in the page is not cleared. *)
AlignUnmasked(a) == IF a % PageSize = 0 THEN a ELSE a + PageSize

(* a & 0xFFFFF000, plus 0x1000, unless a is on a page boundary. *)
Align(a) == IF a % PageSize = 0 THEN a ELSE a - (a % PageSize) + PageSize

(* Variant: the sum is not a u32int. *)
KmallocWide(sz, align, phys) ==
  LET tmp == IF align THEN Align(placement_address) ELSE placement_address
  IN  /\ Len(chunks) < MaxCalls
      /\ placement_address' = tmp + sz
      /\ chunks' = Append(chunks, [base |-> tmp, size |-> sz, align |-> align,
                                   phys |-> IF phys THEN {tmp} ELSE {}])
      /\ wrapped' = wrapped

(* align and phys are the flags of the call; phys is where *phys is set. *)
kmalloc_int(sz, align, phys) ==
  LET aligned == IF align THEN Align(placement_address) ELSE placement_address
      tmp == aligned % WordSize
  IN  /\ Len(chunks) < MaxCalls
      /\ placement_address' = (tmp + sz) % WordSize
      /\ chunks' = Append(chunks, [base |-> tmp, size |-> sz, align |-> align,
                                   phys |-> IF phys THEN {tmp} ELSE {}])
      /\ wrapped' = (wrapped \/ aligned >= WordSize \/ tmp + sz >= WordSize)

kmalloc(sz) == kmalloc_int(sz, FALSE, FALSE)

kmalloc_a(sz) == kmalloc_int(sz, TRUE, FALSE)

kmalloc_p(sz) == kmalloc_int(sz, FALSE, TRUE)

kmalloc_ap(sz) == kmalloc_int(sz, TRUE, TRUE)

Next ==
  \E sz \in Sizes : kmalloc(sz) \/ kmalloc_a(sz) \/ kmalloc_p(sz) \/ kmalloc_ap(sz)

Spec == Init /\ [][Next]_vars

-----------------------------------------------------------------------------
(* Properties.                                                             *)

Chunk ==
  [base : 0..(WordSize - 1), size : Sizes, align : BOOLEAN,
   phys : SUBSET (0..(WordSize - 1))]

(* The variables have their types. *)
TypeOK ==
  /\ placement_address \in 0..(WordSize - 1)
  /\ chunks \in Seq(Chunk)
  /\ wrapped \in BOOLEAN

(* Two chunks have no address in common, and none is in the image. *)
Disjoint ==
  \A m \in 1..Len(chunks) :
    /\ chunks[m].base >= end
    /\ \A n \in 1..Len(chunks) :
         m < n => chunks[m].base + chunks[m].size <= chunks[n].base

(* kmalloc_int (kmemory.c:22-24) gives out each address at most once and   *)
(* none of the kernel's own, until an address passes the end of the        *)
(* address space.                                                          *)
DisjointUntilWrap == wrapped \/ Disjoint

(* "If align == 1, the chunk must be page-aligned" (kmemory.h:6-7), after  *)
(* the address has wrapped too.                                            *)
ChunksAligned ==
  \A m \in 1..Len(chunks) : chunks[m].align => chunks[m].base % PageSize = 0

(* An allocation skips memory only to align, and less than a page of it    *)
(* (kmemory.c:12-17: an address on a page boundary stays where it is).     *)
NothingWasted ==
  \A m \in 1..(Len(chunks) - 1) :
    LET gap == chunks[m + 1].base - (chunks[m].base + chunks[m].size)
    IN  ~wrapped => gap \in 0..(IF chunks[m + 1].align THEN PageSize - 1 ELSE 0)

-----------------------------------------------------------------------------
(* The abstract specification that the allocator implements.               *)

(* The addresses of a chunk, counted modulo the word size. *)
Extent(c) == {(c.base + k) % WordSize : k \in 0..(c.size - 1)}

Alloc == INSTANCE Allocator WITH
  Addresses <- 0..(WordSize - 1),
  Reserved <- 0..(end - 1),
  owned <- (0..(end - 1)) \cup UNION {Extent(chunks[m]) : m \in 1..Len(chunks)},
  exhausted <- wrapped

(* kmalloc_int (kmemory.c:6-25) is an allocator: each call, whatever its   *)
(* flags, gives out a region that nobody has, neither the kernel's image   *)
(* nor an earlier caller, and nothing but a wrap-around ends the promise.  *)
ImplementsAllocator == Alloc!Spec

=============================================================================
