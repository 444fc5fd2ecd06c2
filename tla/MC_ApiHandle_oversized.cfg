CONSTANTS
  r1 = r1
  r2 = r2
  NoReq = NoReq
  NoReply = NoReply
  ReqIds <- MC_ReqIds
  Requests <- MC_RequestsOversized
  Replies <- MC_RepliesFit
  Chunk = 4
  MaxBuf = 10
  MaxCalls = 3

SPECIFICATION Spec

INVARIANT HandleUsableAfterEof
