------------------------------ MODULE MCKAlloc ------------------------------
(***************************************************************************)
(* The allocation table on a heap of a few bitfields.                      *)
(***************************************************************************)
EXTENDS KAlloc

\* Task structures are told from other blocks by their size.
ASSUME TaskSizeIsUnique == TaskSize \notin Sizes
=============================================================================
