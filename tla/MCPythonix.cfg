CONSTANTS
  IntBits = 2
  MaxLen = 2
  Names <- MCNames
  Hash <- MCHash
  Typed = {"quit", "aad", "daa"}
  TypedMethods = {"__copy__", "__str__", "unknown"}
  TypedOps = {"__add__", "__mul__", "__div__"}
  Literals = {1}
  Texts = {1}
  Sentinel <- MCSentinel
  MaxObjects = 7
  NoObject = NoObject
  None = None
SPECIFICATION Spec
INVARIANTS TypeOK NamesLeadToObjects OnlyVariablesLive NamesAreSorted
 
\* A division by 0 stops the kernel.
CHECK_DEADLOCK FALSE
