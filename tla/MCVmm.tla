------------------------------- MODULE MCVmm -------------------------------
(* Memory of a few page tables of three entries.  The load address of the     *)
(* programs is a page number that is also a frame, so that kernel memory can  *)
(* grow into the programs' directory entries.                                 *)
EXTENDS Vmm

\* Two segments that meet in one page, as .text and .data do.
MCImages == {<<[virt |-> 16, pages |-> 1], [virt |-> 16, pages |-> 2]>>}
=============================================================================
