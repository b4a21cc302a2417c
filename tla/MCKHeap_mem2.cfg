\* kmalloc alone.
SPECIFICATION Spec
CONSTANTS
  HeaderSize = 3
  MemBase = 0
  Holders = {h1, h2, h3}
  Sizes = {8}
  Requests = {"mem2"}
  Patterns <- MCPatterns
INVARIANTS
  Mem2GrantsFreeBytes
