\* Five bitfields; the first table has two slots of four bytes and moves once.
CONSTANTS
  HeaderSize = 5
  MemBase = 0
  SlotsAtStart = 2
  SlotSize = 4
  TaskSize = 7
  Sizes = {5, 12}
  Requests = {"aligned"}
  Aligns = {8}
SPECIFICATION Spec
INVARIANTS TypeOK  OwnersAlive 
PROPERTIES  TableMovesWhenFull
