------------------------------ MODULE MCPaging ------------------------------
(***************************************************************************)
(* Instances of Paging for TLC: pages of 4 bytes, directories of 5         *)
(* entries and so 25 pages, of which 5 are mapped.  The four arrays take   *)
(* the first four pages and the image ends inside the fifth.  Sizes of     *)
(* nothing, less than a page, more than a page, and enough to wrap around. *)
(***************************************************************************)
EXTENDS Paging

MCSizes == {0, 1, 4, 6, 80}

=============================================================================
