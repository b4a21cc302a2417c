----------------------------- MODULE NewMemLoops -----------------------------
(***************************************************************************)
(* The two searches of newmem.c as the loops the code runs, with the       *)
(* counters it keeps.  NewMem gives their results in closed form; the      *)
(* invariant at the end says that the two agree.                           *)
(***************************************************************************)
EXTENDS KHeap

CONSTANT Patterns     \* used bits of one bitfield that are tried

ASSUME PatternsAssumption == Patterns \subseteq SUBSET (0 .. BitsPerField - 1)

\* A loop's counters: the place it has chosen: `count' is aligned_bytes, `place' is
\* start_bitfield * 8 + start_bit, `done' says the loop has broken off.

-----------------------------------------------------------------------------
\* The header bits of kheap_get_free_mem2, one at a time.  The test for a full
\* bitfield skips all of its bits at once, to the same effect on each.
Mem2Bit(h, n, c, b) ==
  LET f == b \div BitsPerField
  IN  CASE c.done -> c
        [] ~c.done /\ FieldIsFull(h, f) ->
             [count |-> 0, place |-> BitsPerField * (f + 1), done |-> FALSE]
        [] ~c.done /\ ~FieldIsFull(h, f) /\ b \in h.header ->
             [count |-> 0, done |-> FALSE,
              place |-> IF (b % BitsPerField) + 1 < BitsPerField
                        THEN b + 1 ELSE BitsPerField * f]
        [] OTHER -> [c EXCEPT !.count = @ + 1, !.done = c.count + 1 = n]

Mem2Loop(h, n, from) ==
  LET First == BitsPerField * from
      Scan[b \in First - 1 .. Total - 1] ==
        IF b = First - 1 THEN [count |-> 0, place |-> 0, done |-> FALSE]
                         ELSE Mem2Bit(h, n, Scan[b - 1], b)
  IN  Scan[Total - 1]

-----------------------------------------------------------------------------
\* The bitfields of kheap_get_free_aligned, one at a time: an empty one adds 8
\* bytes; in another the bits before its first used bit may complete the run,
\* or else the search starts over at the next bitfield.
AlignedField(h, n, c, f) ==
  LET used == Span(BitsPerField * f, BitsPerField) \cap h.header
      before == Least(used) - BitsPerField * f
  IN  CASE c.done -> c
        [] ~c.done /\ used = {} ->
             [c EXCEPT !.count = @ + 8, !.done = c.count + 8 >= n]
        [] ~c.done /\ used # {} /\ c.count + before >= n ->
             [c EXCEPT !.count = n, !.done = TRUE]
        [] OTHER -> [count |-> 0, place |-> BitsPerField * (f + 1), done |-> FALSE]

AlignedLoop(h, n, from) ==
  LET Scan[f \in from - 1 .. HeaderSize - 1] ==
        IF f = from - 1
        THEN [count |-> 0, place |-> BitsPerField * from, done |-> FALSE]
        ELSE AlignedField(h, n, Scan[f - 1], f)
  IN  Scan[HeaderSize - 1]

-----------------------------------------------------------------------------
\* From the hint and from the beginning, each loop stops exactly when the
\* closed form says there is something to find, and at the place it names.
Agree(h) ==
  \A n \in Sizes, from \in {0, h.last} :
    /\ Mem2Loop(h, n, from).done <=> RunStarts(h, from, n) # {}
    /\ RunStarts(h, from, n) # {} =>
         Mem2Loop(h, n, from).place = SearchMem2(h, from, n).block.ptr
    /\ AlignedLoop(h, n, from).done <=> AlignedStarts(h, from, n) # {}
    /\ AlignedStarts(h, from, n) # {} =>
         AlignedLoop(h, n, from).place = SearchAligned(h, from, n, 1).block.ptr

\* The used bytes when field f has the used bits of pattern[f].
HeaderOf(pattern) ==
  {b \in Bytes : b % BitsPerField \in pattern[b \div BitsPerField]}

\* The loops of both searches find what the closed forms of NewMem find, on every
\* heap the callers reach and, with any hint, on every header made of Patterns.
SearchesMatchLoops ==
  /\ Agree(heap)
  /\ heap = NewHeap => \A pattern \in [Fields -> Patterns], last \in Fields :
       Agree([heap EXCEPT !.header = HeaderOf(pattern), !.last = last])
=============================================================================
