------------------------------- MODULE MCHeap -------------------------------
(* A small instance of Heap.                                                *)
EXTENDS Heap

CONSTANTS one, two

MCThreads == {one, two}
=============================================================================
