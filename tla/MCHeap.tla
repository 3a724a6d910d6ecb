------------------------------- MODULE MCHeap -------------------------------
(* A heap of one small page that may grow to a few.                         *)
EXTENDS Heap

=============================================================================
