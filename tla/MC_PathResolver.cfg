CONSTANTS
  MaxDepth = 2
  ApiIno = 2
  Inos <- MC_Inos
  Entries <- MC_Entries
  MaxChanges = 1
  MaxCalls = 2

SPECIFICATION Spec

INVARIANT TypeOK
PROPERTY OpenReturns
