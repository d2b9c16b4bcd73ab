------------------------------- MODULE Paging -------------------------------
(***************************************************************************)
(* Paging, paging.c and pager.s: initialise_paging fills two directories   *)
(* and two tables, loads CR3 and sets CR0.PG; the Escape key switches to   *)
(* the second directory later.  The addresses that kmemory.c gives out are *)
(* virtual from then on, so that its phys is right only if the map is the  *)
(* identity.                                                               *)
(*                                                                         *)
(* An entry of a directory or a table is a word: a page-aligned address    *)
(* plus flags in the low bits, 1 for present and 2 for writable.  The MMU  *)
(* is hardware: it walks the directory and the table that the words in     *)
(* memory point to.  The lines that the functions print are left out here  *)
(* (Keyboard has those of switch_page_directory); interrupts are off until *)
(* initialise_paging has returned.                                         *)
(***************************************************************************)
EXTENDS KMemory

CONSTANTS
  Entries,   (* the entries of a directory and of a table, 1024            *)
  kernel_page_directory, kernel_page_table,
  other_page_directory, other_page_table
             (* the addresses of the four arrays, in the kernel's image    *)

Arrays ==
  {kernel_page_directory, kernel_page_table, other_page_directory, other_page_table}

ASSUME PagingAssumption ==
  /\ Entries \in Nat \ {0}
  /\ Pages = Entries * Entries
  /\ PageSize % 4 = 0
  /\ \A a \in Arrays : a \in 0..(end - PageSize) /\ a % PageSize = 0
  /\ kernel_page_directory \notin
       {kernel_page_table, other_page_directory, other_page_table}
  /\ kernel_page_table \notin {other_page_directory, other_page_table}
  /\ other_page_directory # other_page_table

VARIABLES
  ram,          (* the words of the four arrays                            *)
  directories,  (* directories[0] and directories[1]                       *)
  cr3,          (* the address of the directory in use                     *)
  pg,           (* CR0.PG                                                  *)
  pc,           (* where initialise_paging is                              *)
  i             (* the index of its loops                                  *)

pagingVars == <<ram, directories, cr3, pg, pc, i>>

allVars == <<vars, pagingVars>>

(* The arrays are in .bss. *)
PagingInit ==
  /\ Init
  /\ ram = [a \in Arrays |-> [k \in 0..(Entries - 1) |-> 0]]
  /\ directories = [d \in {0, 1} |-> 0]
  /\ cr3 = 0
  /\ pg = FALSE
  /\ pc = "start"
  /\ i = 0

-----------------------------------------------------------------------------
(* The MMU.                                                                *)

Fault == -1

Present(word) == word % 2 = 1

(* The word at index k of the page at a; nothing is known of other pages. *)
WordAt(a, k) == IF a \in Arrays THEN ram[a][k] ELSE 0

Frame(word) == word - (word % PageSize)

(* The physical address of a, or Fault. *)
Translate(a) ==
  LET page == a \div PageSize
      pde == WordAt(cr3, page \div Entries)
      pte == WordAt(Frame(pde), page % Entries)
  IN  IF ~pg THEN a
      ELSE IF Present(pde) /\ Present(pte) THEN Frame(pte) + (a % PageSize)
      ELSE Fault

-----------------------------------------------------------------------------
(* initialise_paging.                                                      *)

Store(a, b, k, word1, word2) ==
  ram' = [ram EXCEPT ![a] = [@ EXCEPT ![k] = word1], ![b] = [@ EXCEPT ![k] = word2]]

Start ==
  /\ pc = "start"
  /\ pc' = "directories"
  /\ i' = 0
  /\ UNCHANGED <<vars, ram, directories, cr3, pg>>

(* The first loop: every entry of both directories is not present. *)
ClearDirectories ==
  /\ pc = "directories"
  /\ Store(kernel_page_directory, other_page_directory, i, 2, 2)
  /\ i' = (i + 1) % Entries
  /\ pc' = IF i' = 0 THEN "list" ELSE "directories"
  /\ UNCHANGED <<vars, directories, cr3, pg>>

ListDirectories ==
  /\ pc = "list"
  /\ directories' = [d \in {0, 1} |-> IF d = 0 THEN kernel_page_directory
                                               ELSE other_page_directory]
  /\ pc' = "tables"
  /\ UNCHANGED <<vars, ram, cr3, pg, i>>

(* Variant: the other table maps the pages behind those of the first. *)
FillTablesInTurn ==
  /\ pc = "tables"
  /\ Store(kernel_page_table, other_page_table, i,
           i * PageSize + 3, (Entries + i) * PageSize + 3)
  /\ i' = (i + 1) % Entries
  /\ pc' = IF i' = 0 THEN "insert" ELSE "tables"
  /\ UNCHANGED <<vars, directories, cr3, pg>>

(* The second loop: entry i of both tables is page i, writable, present. *)
FillTables ==
  /\ pc = "tables"
  /\ Store(kernel_page_table, other_page_table, i, i * PageSize + 3, i * PageSize + 3)
  /\ i' = (i + 1) % Entries
  /\ pc' = IF i' = 0 THEN "insert" ELSE "tables"
  /\ UNCHANGED <<vars, directories, cr3, pg>>

(* Variant: the second directory is forgotten. *)
InsertKernelTable ==
  /\ pc = "insert"
  /\ Store(kernel_page_directory, other_page_directory, 0, kernel_page_table + 3, 2)
  /\ pc' = "load"
  /\ UNCHANGED <<vars, directories, cr3, pg, i>>

InsertTables ==
  /\ pc = "insert"
  /\ Store(kernel_page_directory, other_page_directory, 0,
           kernel_page_table + 3, other_page_table + 3)
  /\ pc' = "load"
  /\ UNCHANGED <<vars, directories, cr3, pg, i>>

switch_page_directory_i(d) == cr3' = directories[d]

LoadDirectory ==
  /\ pc = "load"
  /\ switch_page_directory_i(0)
  /\ pc' = "enable"
  /\ UNCHANGED <<vars, ram, directories, pg, i>>

enablePaging ==
  /\ pc = "enable"
  /\ pg' = TRUE
  /\ pc' = "done"
  /\ UNCHANGED <<vars, ram, directories, cr3, i>>

initialise_paging ==
  \/ Start \/ ClearDirectories \/ ListDirectories \/ FillTables \/ InsertTables
  \/ LoadDirectory \/ enablePaging

-----------------------------------------------------------------------------
(* What may come before it and after it.                                   *)

(* The Escape key, at any time once interrupts are on. *)
Escape ==
  /\ pc = "done"
  /\ switch_page_directory_i(1)
  /\ UNCHANGED <<vars, ram, directories, pg, pc, i>>

Allocation ==
  /\ pc \in {"start", "done"}
  /\ Next
  /\ UNCHANGED pagingVars

PagingNext == initialise_paging \/ Escape \/ Allocation

PagingSpec == PagingInit /\ [][PagingNext]_allVars

-----------------------------------------------------------------------------
(* Properties.                                                             *)

(* The number of addresses that a table maps. *)
Mapped == Entries * PageSize

(* From the moment paging is on, and whichever directory is in use, the    *)
(* first Entries pages are mapped to themselves and nothing else is mapped *)
(* (paging.c:33-84): the code, the stack and the frame buffer stay where   *)
(* they are across enablePaging and across the Escape key's switch.        *)
MapsFirstPages ==
  pg => \A a \in 0..(WordSize - 1) : Translate(a) = IF a < Mapped THEN a ELSE Fault

(* "The physical location of the allocated chunk will be stored into phys" *)
(* (kmemory.h:7-8): kmalloc_int stores a virtual address (kmemory.c:20),   *)
(* yet every byte of a chunk below the mapped pages' end is at that        *)
(* offset from *phys in physical memory, whether it was allocated before   *)
(* or after paging was turned on and in either directory.                  *)
PhysIsPhysical ==
  \A m \in 1..Len(chunks) : \A p \in chunks[m].phys :
    \A k \in 0..(chunks[m].size - 1) :
      chunks[m].base + k < Mapped => Translate(chunks[m].base + k) = p + k

=============================================================================
