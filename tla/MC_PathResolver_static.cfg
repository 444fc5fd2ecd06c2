CONSTANTS
  MaxDepth = 2
  ApiIno = 2
  Inos <- MC_Inos
  Entries <- MC_Entries
  MaxChanges = 0
  MaxCalls = 2

SPECIFICATION Spec

PROPERTY ResolvesNearest
