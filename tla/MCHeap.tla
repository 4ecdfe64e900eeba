------------------------------- MODULE MCHeap -------------------------------
(***************************************************************************)
(* The allocator with words of nine bits and an area for three blocks.     *)
(***************************************************************************)
EXTENDS Heap

\* Zero, a negative size, two sizes that are rounded up (one fits into the block of the
\* other), and one larger than the area.
MCSizes == {0, 400, 3, 5, 70}
=============================================================================
