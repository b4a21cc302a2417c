----------------------------- MODULE ByteRegions -----------------------------
(***************************************************************************)
(* What a byte allocator promises its callers: a granted block is a run of *)
(* bytes of the heap that no other live block shares, it stays as it is    *)
(* until its holder gives it back, and a request may be refused.  Nothing  *)
(* is said about where a block lies, or about any bookkeeping.             *)
(***************************************************************************)
EXTENDS Integers

CONSTANTS Holders,    \* who may hold a block
          Capacity,   \* bytes in the heap
          None        \* "holds no block"

VARIABLE granted      \* granted[s]: the block s holds, or None

BytesOf(b) == IF b = None THEN {} ELSE b.ptr .. b.ptr + b.size - 1

Init == granted = [s \in Holders |-> None]

Give(s) ==
  /\ granted[s] = None
  /\ \E p \in 0 .. Capacity - 1, n \in 1 .. Capacity :
       /\ p + n <= Capacity
       /\ \A r \in Holders : BytesOf(granted[r]) \cap (p .. p + n - 1) = {}
       /\ granted' = [granted EXCEPT ![s] = [ptr |-> p, size |-> n]]

TakeBack(s) ==
  /\ granted[s] # None
  /\ granted' = [granted EXCEPT ![s] = None]

Next == \E s \in Holders : Give(s) \/ TakeBack(s)

Spec == Init /\ [][Next]_granted
=============================================================================
