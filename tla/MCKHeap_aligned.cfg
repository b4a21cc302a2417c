\* The Rust allocator alone, on a heap that starts at a multiple of 8.
SPECIFICATION Spec
CONSTANTS
  HeaderSize = 3
  MemBase = 0
  Holders = {h1, h2, h3}
  Sizes = {1, 5, 7, 8, 11}
  Requests = {"aligned"}
  Patterns <- MCPatterns
INVARIANTS
  TypeOK
  HeapIsExact
  RefusedOnlyWhenFull
  SearchesMatchLoops
PROPERTIES
  KeepsPromise
