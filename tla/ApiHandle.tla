------------------------------ MODULE ApiHandle ------------------------------
(***************************************************************************)
(* One ApiImpl handle (qfs_client_implementation.cc) making GetAccessed    *)
(* calls, one after another, through the control file.  A call is the      *)
(* sequence of steps its code takes, with the I/O each step performs:      *)
(*                                                                         *)
(*   GetAccessed   validate the workspace, serialise, CopyString           *)
(*   Open          DeterminePath if no path is known, open the stream      *)
(*   Write         WriteCommand: seekp(0), write, flush                    *)
(*   ReadStart     ReadResponse: seekg(0), Reset                           *)
(*   ReadChunk     one turn of the read loop: read, Append                 *)
(*   Decode        CheckCommonApiResponse, PrepareAccessedListResponse     *)
(*                                                                         *)
(* The stream's failbit and eofbit outlive the call that set them: they    *)
(* are the state one call hands to the next.  The filesystem side of the   *)
(* api file is modelled from the spec: a command that reaches it replaces  *)
(* the file's content by a response to that command; reads return the     *)
(* content.                                                                *)
(***************************************************************************)
EXTENDS Naturals, Sequences, CommandBuffer, ApiCodec

CONSTANTS
  Chunk,      \* bytes per read in ReadResponse (4096 in the code)
  MaxCalls,   \* calls the host makes on the handle
  ReqIds,     \* identities of requests
  Requests,   \* GetAccessed requests: workspace path and JSON length
  Replies,    \* responses the filesystem may give
  NoReq,      \* no request
  NoReply     \* an api file holding no response

\* Characters of a workspace path, as far as CheckWorkspacePathValid sees.
WsChars == {"/", "c"}

\* A response: which request it answers, its length in bytes and the
\* envelope features the decoder branches on.
ReplyRec ==
  [req : ReqIds, len : Nat, top : Tops, hasEC : BOOLEAN, hasMsg : BOOLEAN,
   ecInt : BOOLEAN, ec : ErrorCodeValues, term : BOOLEAN,
   hasAccessList : BOOLEAN]

ASSUME ChunkAssumption == Chunk \in Nat \ {0}
ASSUME MaxCallsAssumption == MaxCalls \in Nat
ASSUME RequestsAssumption ==
  Requests \subseteq [id : ReqIds, ws : Seq(WsChars), size : Nat]
ASSUME RepliesAssumption == Replies \subseteq ReplyRec
ASSUME NoneAssumption == NoReq \notin ReqIds /\ NoReply \notin ReplyRec

VARIABLES
  pathKnown,    \* ApiImpl::path is non-empty
  isOpen,       \* file.is_open()
  failbit,      \* file.fail(): failbit or badbit set
  eofbit,       \* file.eof()
  apiFile,      \* the response the api file holds
  pc,           \* the step the current call is at; "idle" between calls
  cur,          \* the request of the current call
  commandSize,  \* bytes in the command CommandBuffer
  filePos,      \* read position in the api file
  responseSize, \* bytes in the response CommandBuffer
  result,       \* what the last call returned
  calls         \* calls made so far

vars == <<pathKnown, isOpen, failbit, eofbit, apiFile, pc, cur, commandSize,
          filePos, responseSize, result, calls>>

Steps == {"idle", "open", "write", "readstart", "read", "decode"}

Results ==
  [err : ErrorCodes, req : ReqIds \cup {NoReq}, decoded : BOOLEAN,
   reply : Replies \cup {NoReply}]

TypeOK ==
  /\ pathKnown \in BOOLEAN
  /\ isOpen \in BOOLEAN
  /\ failbit \in BOOLEAN
  /\ eofbit \in BOOLEAN
  /\ apiFile \in Replies \cup {NoReply}
  /\ pc \in Steps
  /\ cur \in Requests \cup {NoReq}
  /\ commandSize \in Nat
  /\ filePos \in Nat
  /\ responseSize \in 0 .. MaxBuf
  /\ result \in Results
  /\ calls \in 0 .. MaxCalls
-----------------------------------------------------------------------------
\* Length of what the api file holds.
FileLen(f) == IF f = NoReply THEN 0 ELSE f.len

(***************************************************************************)
(* CheckWorkspacePathValid (lines 271-291): three successive find('/')     *)
(* calls; the path is valid when the first two find a '/' and the third    *)
(* does not.  Positions are 1-based and 0 stands for npos.                 *)
(***************************************************************************)
FindFrom(s, c, from) ==
  LET hits == {i \in from .. Len(s) : s[i] = c}
  IN  IF hits = {} THEN 0 ELSE CHOOSE i \in hits : \A j \in hits : i <= j

CheckWorkspacePathValid(ws) ==
  LET first  == FindFrom(ws, "/", 1)
      second == FindFrom(ws, "/", first + 1)
      third  == FindFrom(ws, "/", second + 1)
  IN  first # 0 /\ second # 0 /\ third = 0

\* The call returns error e before anything was decoded.
Fail(e) ==
  /\ pc' = "idle"
  /\ result' = [err |-> e, req |-> cur.id, decoded |-> FALSE, reply |-> NoReply]
-----------------------------------------------------------------------------
Init ==
  /\ pathKnown \in BOOLEAN    \* ApiImpl() or ApiImpl(path)
  /\ isOpen = FALSE
  /\ failbit = FALSE
  /\ eofbit = FALSE
  /\ apiFile = NoReply
  /\ pc = "idle"
  /\ cur = NoReq
  /\ commandSize = 0
  /\ filePos = 0
  /\ responseSize = 0
  /\ result = [err |-> "None", req |-> NoReq, decoded |-> FALSE, reply |-> NoReply]
  /\ calls = 0

(***************************************************************************)
(* GetAccessed (lines 393-414) up to SendJson's call of SendCommand (lines *)
(* 362-380).  The return code of CopyString is ignored (line 374): when    *)
(* the request does not fit, the command buffer is left empty and the call *)
(* goes on.                                                                *)
(***************************************************************************)
GetAccessed(r) ==
  /\ pc = "idle"
  /\ calls < MaxCalls
  /\ calls' = calls + 1
  /\ cur' = r
  /\ \/ /\ ~CheckWorkspacePathValid(r.ws)
        /\ pc' = "idle"
        /\ result' = [err |-> "WorkspacePathInvalid", req |-> r.id,
                      decoded |-> FALSE, reply |-> NoReply]
        /\ UNCHANGED commandSize
     \/ /\ CheckWorkspacePathValid(r.ws)
        /\ commandSize' = CopyString(r.size)
        /\ pc' = "open"
        /\ UNCHANGED result
  /\ UNCHANGED <<pathKnown, isOpen, failbit, eofbit, apiFile, filePos,
                 responseSize>>

(***************************************************************************)
(* Open (lines 109-128), called first by SendCommand (lines 137-140).  The *)
(* directory walk of DeterminePath is abstracted to its outcome here.  A   *)
(* successful open() clears the stream state; a failed one sets failbit.   *)
(* An open stream is kept as it is, whatever its state.                    *)
(***************************************************************************)
OpenStream ==
  \/ /\ isOpen
     /\ pc' = "write"
     /\ UNCHANGED <<isOpen, failbit, eofbit, result>>
  \/ /\ ~isOpen
     /\ isOpen' = TRUE
     /\ failbit' = FALSE
     /\ eofbit' = FALSE
     /\ pc' = "write"
     /\ UNCHANGED result
  \/ /\ ~isOpen
     /\ failbit' = TRUE
     /\ Fail("CantOpenApiFile")
     /\ UNCHANGED <<isOpen, eofbit>>

Open ==
  /\ pc = "open"
  /\ \/ /\ ~pathKnown
        /\ \E e \in {"DontKnowCwd", "CantFindApiFile"} : Fail(e)
        /\ UNCHANGED <<pathKnown, isOpen, failbit, eofbit>>
     \/ /\ pathKnown' = TRUE    \* known already, or found by DeterminePath
        /\ OpenStream
  /\ UNCHANGED <<apiFile, cur, commandSize, filePos, responseSize, calls>>

(***************************************************************************)
(* Mutations: plausible bugs in the code the actions below model, each the *)
(* form an action would take with that bug.  They are not part of Next.    *)
(***************************************************************************)

\* WriteCommand without the early return after a failed write: the call
\* goes on to read the file although its command never reached it.
WriteNoReturnOnError ==
  /\ pc = "write"
  /\ \/ /\ failbit
        /\ Fail("ApiFileSeekFail")
        /\ UNCHANGED <<failbit, apiFile>>
     \/ /\ ~failbit
        /\ pc' = "readstart"
        /\ UNCHANGED <<apiFile, failbit, result>>
     \/ /\ ~failbit
        /\ pc' = "readstart"
        /\ IF commandSize > 0
             THEN apiFile' \in {f \in Replies : f.req = cur.id}
             ELSE UNCHANGED apiFile
        /\ UNCHANGED <<failbit, result>>
  /\ UNCHANGED <<pathKnown, isOpen, eofbit, cur, commandSize, filePos,
                 responseSize, calls>>

\* The read loop with its parts changed one at a time: no bound check on
\* Append, the last short chunk dropped, no clear() after the loop, no
\* return after a read error (a failed stream then reads nothing and never
\* reaches end-of-stream).
ReadChunkWith(bounded, keepLast, clearAtEnd, returnOnError) ==
  /\ pc = "read"
  /\ LET left  == FileLen(apiFile) - filePos
         n     == IF left < Chunk THEN left ELSE Chunk
         short == left < Chunk
         fits  == AppendFits(responseSize, n) \/ ~bounded
         kept  == IF short /\ ~keepLast THEN 0 ELSE n
     IN  \/ /\ failbit
            /\ UNCHANGED <<failbit, eofbit, filePos, responseSize, pc, result>>
         \/ /\ ~failbit
            /\ failbit' = TRUE
            /\ IF returnOnError THEN Fail("ApiFileReadFail")
                                ELSE UNCHANGED <<pc, result>>
            /\ UNCHANGED <<eofbit, filePos, responseSize>>
         \/ /\ ~failbit
            /\ ~fits
            /\ failbit' = short
            /\ eofbit' = short
            /\ filePos' = filePos + n
            /\ Fail("BufferTooBig")
            /\ UNCHANGED responseSize
         \/ /\ ~failbit
            /\ fits
            /\ ~short
            /\ filePos' = filePos + n
            /\ responseSize' = responseSize + n
            /\ UNCHANGED <<failbit, eofbit, pc, result>>
         \/ /\ ~failbit
            /\ fits
            /\ short
            /\ filePos' = filePos + n
            /\ responseSize' = responseSize + kept
            /\ failbit' = ~clearAtEnd
            /\ eofbit' = ~clearAtEnd
            /\ pc' = "decode"
            /\ UNCHANGED result
  /\ UNCHANGED <<pathKnown, isOpen, apiFile, cur, commandSize, calls>>

ReadChunkUnbounded == ReadChunkWith(FALSE, TRUE, TRUE, TRUE)
ReadChunkDropLast == ReadChunkWith(TRUE, FALSE, TRUE, TRUE)
ReadChunkNoClear == ReadChunkWith(TRUE, TRUE, FALSE, TRUE)
ReadChunkNoReturnOnError == ReadChunkWith(TRUE, TRUE, TRUE, FALSE)

(***************************************************************************)
(* WriteCommand (lines 157-178) and its check in SendCommand (142-145).    *)
(* seekp does nothing on a stream whose failbit is set, so such a stream   *)
(* fails at the seek.  Otherwise the seek, the write or the flush may fail *)
(* with an I/O error, setting failbit.  The command reaches the filesystem *)
(* only when all three succeed, and only if it has bytes: an empty write   *)
(* issues no system call.  Open leaves the stream open, so the             *)
(* ApiFileNotOpen branch is not reachable from SendCommand.                *)
(***************************************************************************)
Write ==
  /\ pc = "write"
  /\ \/ /\ failbit
        /\ Fail("ApiFileSeekFail")
        /\ UNCHANGED <<failbit, apiFile>>
     \/ /\ ~failbit
        /\ \E e \in {"ApiFileSeekFail", "ApiFileWriteFail", "ApiFileFlushFail"} :
              Fail(e)
        /\ failbit' = TRUE
        /\ UNCHANGED apiFile
     \/ /\ ~failbit
        /\ pc' = "readstart"
        /\ IF commandSize > 0
             THEN apiFile' \in {f \in Replies : f.req = cur.id}
             ELSE UNCHANGED apiFile
        /\ UNCHANGED <<failbit, result>>
  /\ UNCHANGED <<pathKnown, isOpen, eofbit, cur, commandSize, filePos,
                 responseSize, calls>>

(***************************************************************************)
(* ReadResponse, lines 180-193: seekg(0), which may fail with an I/O       *)
(* error, then Reset of the response buffer.  The stream is good here:     *)
(* Write just succeeded on it.                                             *)
(***************************************************************************)
ReadStart ==
  /\ pc = "readstart"
  /\ \/ /\ failbit' = TRUE
        /\ Fail("ApiFileSeekFail")
        /\ UNCHANGED <<filePos, responseSize>>
     \/ /\ filePos' = 0
        /\ responseSize' = 0
        /\ pc' = "read"
        /\ UNCHANGED <<failbit, result>>
  /\ UNCHANGED <<pathKnown, isOpen, eofbit, apiFile, cur, commandSize, calls>>

(***************************************************************************)
(* One turn of the read loop, lines 196-216.  read() of Chunk bytes sets   *)
(* eofbit and failbit together when fewer than Chunk bytes remain; an I/O  *)
(* error sets badbit alone (ApiFileReadFail).  The bytes read are          *)
(* appended; an Append that does not fit returns BufferTooBig at once,     *)
(* leaving the stream state as the read set it.  The loop ends on eofbit   *)
(* and then clear() resets the stream state.                               *)
(***************************************************************************)
ReadChunk ==
  /\ pc = "read"
  /\ LET left  == FileLen(apiFile) - filePos
         n     == IF left < Chunk THEN left ELSE Chunk
         short == left < Chunk
     IN  \/ /\ failbit' = TRUE
            /\ Fail("ApiFileReadFail")
            /\ UNCHANGED <<eofbit, filePos, responseSize>>
         \/ /\ ~AppendFits(responseSize, n)
            /\ failbit' = short
            /\ eofbit' = short
            /\ filePos' = filePos + n
            /\ Fail("BufferTooBig")
            /\ UNCHANGED responseSize
         \/ /\ AppendFits(responseSize, n)
            /\ ~short
            /\ filePos' = filePos + n
            /\ responseSize' = AppendBytes(responseSize, n)
            /\ UNCHANGED <<failbit, eofbit, pc, result>>
         \/ /\ AppendFits(responseSize, n)
            /\ short
            /\ filePos' = filePos + n
            /\ responseSize' = AppendBytes(responseSize, n)
            /\ failbit' = FALSE
            /\ eofbit' = FALSE
            /\ pc' = "decode"
            /\ UNCHANGED result
  /\ UNCHANGED <<pathKnown, isOpen, apiFile, cur, commandSize, calls>>

(***************************************************************************)
(* SendJson's check of the response (lines 385-388, CheckCommonApiResponse *)
(* lines 293-360) and, on success, PrepareAccessedListResponse (lines      *)
(* 422-425, 434-465), which fails when AccessList is missing.  An api file *)
(* holding no response reads as zero bytes, which json_loads rejects.      *)
(***************************************************************************)
Decoded(f, tail) ==
  IF f = NoReply THEN "JsonDecodingError"
  ELSE LET e == CheckCommonApiResponse(f, tail)
       IN  IF e = "Success" /\ ~f.hasAccessList THEN "MissingJsonObject" ELSE e

TailsOf(f) == IF f # NoReply /\ f.term THEN {"nul"} ELSE Tails

Decode ==
  /\ pc = "decode"
  /\ \E tail \in TailsOf(apiFile) :
        result' = [err |-> Decoded(apiFile, tail), req |-> cur.id,
                   decoded |-> TRUE, reply |-> apiFile]
  /\ pc' = "idle"
  /\ UNCHANGED <<pathKnown, isOpen, failbit, eofbit, apiFile, cur,
                 commandSize, filePos, responseSize, calls>>

\* Close (lines 130-134): closes an open stream.  basic_fstream::close()
\* sets failbit when closing the file fails, and otherwise leaves the stream
\* state as it is.
Close ==
  /\ pc = "idle"
  /\ isOpen
  /\ isOpen' = FALSE
  /\ failbit' \in {failbit, TRUE}
  /\ UNCHANGED <<pathKnown, eofbit, apiFile, pc, cur, commandSize,
                 filePos, responseSize, result, calls>>

\* The host has made all its calls.
Finished ==
  /\ pc = "idle"
  /\ calls = MaxCalls
  /\ UNCHANGED vars

CallStep == Open \/ Write \/ ReadStart \/ ReadChunk \/ Decode

Next ==
  \/ \E r \in Requests : GetAccessed(r)
  \/ CallStep
  \/ Close
  \/ Finished

\* The code is synchronous and single-threaded: once a call has started,
\* its thread keeps taking its steps, each I/O call returning.
Spec == Init /\ [][Next]_vars /\ WF_vars(CallStep)
-----------------------------------------------------------------------------
(***************************************************************************)
(* Properties.                                                             *)
(***************************************************************************)

\* A call that decodes something decodes a response, and the response to
\* its own request: SendJson writes the command, then reads back the same
\* file, so it neither decodes an api file that holds no response nor an
\* answer to another request.
ReplyMatchesRequest ==
  result.decoded => result.reply # NoReply /\ result.reply.req = result.req

\* The spec (4.3, 5): the exchange is strictly write-then-read, never
\* pipelined, so a response GetAccessed decodes was not given to an earlier
\* command: whatever reply a call hands back answers its own request.
NoStaleReply ==
  result.decoded /\ result.reply # NoReply => result.reply.req = result.req

\* When the read loop of ReadResponse ends at end-of-stream, the response
\* buffer holds every byte of the response, however many chunks it took.
ReadReassemblesResponse ==
  pc = "decode" => responseSize = FileLen(apiFile) /\ filePos = FileLen(apiFile)

\* The calls that have returned: a running call is counted from its return.
callsReturned == IF pc = "idle" THEN calls ELSE calls - 1

\* Each GetAccessed call behaves as one atomic step of ApiCall: the result
\* changes only when the call returns, once per call, and it is either a
\* failure other than Success with no reply, or the decoded response to the
\* call's own request (SendJson's write-then-read, lines 362-391, with the
\* early returns of SendCommand, WriteCommand and ReadResponse).
Atomic == INSTANCE ApiCall WITH Errors <- ErrorCodes, calls <- callsReturned

CallsAtomic == Atomic!Spec

\* Every call that has started returns: SendCommand's steps are taken one
\* after the other and the read loop reaches end-of-stream.
CallReturns == pc # "idle" ~> pc = "idle"

\* The spec (4.3): after reaching end-of-stream the stream's error and EOF
\* state is cleared, so that the handle remains usable for the next
\* exchange.
HandleUsableAfterEof == pc = "idle" => ~eofbit

\* A response the filesystem sends for success (spec 6): an object with an
\* integer ErrorCode of 0, a Message and an AccessList.  The wire format
\* asks for no terminator after a response.
WellFormedSuccess(f) ==
  /\ f \in ReplyRec
  /\ f.top = "object" /\ f.hasEC /\ f.hasMsg /\ f.ecInt /\ f.hasAccessList
  /\ f.ec = [hi |-> 0, lo |-> 0]

\* The spec (4.4): a zero ErrorCode is success; a well-formed success
\* response is decoded as such, whatever its length and whatever lies in
\* memory after the response buffer (json_loads at lines 298-300).
ZeroCodeIsSuccess ==
  result.decoded /\ WellFormedSuccess(result.reply) => result.err = "Success"

\* The spec (4.4): a nonzero ErrorCode is an application-level failure, so
\* GetAccessed returns Success only for a response whose ErrorCode is 0.
NonzeroCodeIsError ==
  result.decoded /\ result.err = "Success" =>
     result.reply.ec = [hi |-> 0, lo |-> 0]

=============================================================================
