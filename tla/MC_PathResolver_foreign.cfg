CONSTANTS
  MaxDepth = 2
  ApiIno = 2
  Inos <- MC_Inos
  Entries <- MC_EntriesForeign
  MaxChanges = 0
  MaxCalls = 2

SPECIFICATION Spec

INVARIANT OpenedControlFile
