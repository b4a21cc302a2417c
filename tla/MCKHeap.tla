------------------------------- MODULE MCKHeap -------------------------------
(***************************************************************************)
(* KHeap on a heap of three bitfields.  Three holders are enough for a     *)
(* block to be freed between two others and for the hint to point behind,  *)
(* into or after a hole; the sizes are less than, equal to and more than a *)
(* bitfield, so blocks start and end inside and at the ends of bitfields.  *)
(***************************************************************************)
EXTENDS NewMemLoops

\* Bitfields that are empty and full, used at one end, at both, inside and but
\* for one bit: what kheap_get_free_mem2 may leave behind, too.
MCPatterns == {{}, 0 .. 7, {0}, {7}, {3}, 0 .. 3, 4 .. 7, {0, 7}, 0 .. 6, 1 .. 7}
=============================================================================
