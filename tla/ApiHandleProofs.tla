--------------------------- MODULE ApiHandleProofs ---------------------------
(***************************************************************************)
(* Proofs about ApiHandle for every value of its constants.                *)
(***************************************************************************)
EXTENDS ApiHandle, CommandBufferProofs, TLAPS

(***************************************************************************)
(* TypeOK is not inductive by itself.  The steps of a call read the        *)
(* request of the call (cur.id), which is only a request while a call is   *)
(* running; and the read loop appends FileLen(apiFile) - filePos bytes at  *)
(* the end, which is a byte count only while the read position is inside   *)
(* the file.                                                               *)
(***************************************************************************)
CallHasRequest == pc # "idle" => cur \in Requests

ReadInFile == pc = "read" => filePos <= FileLen(apiFile)

IInvType == TypeOK /\ CallHasRequest /\ ReadInFile

\* Every outcome of the decoding steps is an error code of the library.
LEMMA DecodedType ==
  ASSUME NEW f \in Replies \cup {NoReply}, NEW tail \in Tails
  PROVE  Decoded(f, tail) \in ErrorCodes
<1>1. CheckCommonApiResponse(f, tail)
        \in {"JsonDecodingError", "MissingJsonObject", "ApiError", "Success"}
  BY DEF CheckCommonApiResponse
<1>2. QED
  BY <1>1 DEF Decoded, ErrorCodes

\* The request of a running call has an identity.
LEMMA CurId ==
  ASSUME IInvType, pc # "idle"
  PROVE  cur.id \in ReqIds
BY RequestsAssumption DEF IInvType, CallHasRequest

\* Fail(e) for an error code e yields a well-typed result.
LEMMA FailType ==
  ASSUME IInvType, pc # "idle", NEW e \in ErrorCodes, Fail(e)
  PROVE  result' \in Results /\ pc' \in Steps
BY CurId DEF Fail, Results, Steps

(***************************************************************************)
(* ReplyMatchesRequest holds when every request fits the command buffer    *)
(* (it fails otherwise: see the stale_reply run).  Its inductive form says *)
(* where a call stands: before the write, its command is in the buffer;    *)
(* from the write to the decoding, the api file holds a response to it.    *)
(***************************************************************************)
RequestsFit == \A r \in Requests : CopyStringFits(r.size)

CommandBuffered == pc \in {"open", "write"} => commandSize > 0

FileAnswersCall ==
  pc \in {"readstart", "read", "decode"} =>
     apiFile # NoReply /\ apiFile.req = cur.id

IInvReply ==
  /\ IInvType
  /\ CommandBuffered
  /\ FileAnswersCall
  /\ ReplyMatchesRequest

\* The initial states satisfy the strengthened type invariant.
LEMMA TypeInit == Init => IInvType
<1> SUFFICES ASSUME Init PROVE IInvType
  OBVIOUS
<1>1. result \in Results
  BY DEF Init, Results, ErrorCodes
<1>2. responseSize \in 0 .. MaxBuf /\ calls \in 0 .. MaxCalls
  BY MaxBufAssumption, MaxCallsAssumption DEF Init
<1>3. QED
  BY <1>1, <1>2, Zenon
  DEF Init, IInvType, TypeOK, CallHasRequest, ReadInFile, Steps

\* Every step, or stutter, of the handle preserves it.
LEMMA TypeStep == IInvType /\ [Next]_vars => IInvType'
<1> SUFFICES ASSUME IInvType, [Next]_vars PROVE IInvType'
  OBVIOUS
<1>. USE MaxBufAssumption, ChunkAssumption, MaxCallsAssumption
<1>1. TypeOK'
  <2>1. ASSUME NEW r \in Requests, GetAccessed(r) PROVE TypeOK'
    <3>1. r.id \in ReqIds /\ r.size \in Nat
      BY RequestsAssumption
    <3>2. CopyString(r.size) \in Nat
      BY <3>1, CopyStringSize, CopyStringTooBig
    <3>3. [err |-> "WorkspacePathInvalid", req |-> r.id, decoded |-> FALSE,
           reply |-> NoReply] \in Results
      BY <3>1 DEF Results, ErrorCodes
    <3>4. calls' \in 0 .. MaxCalls
      BY <2>1 DEF GetAccessed, IInvType, TypeOK
    <3>5. QED
      BY <2>1, <3>2, <3>3, <3>4, Zenon DEF GetAccessed, IInvType, TypeOK, Steps
  <2>2. CASE Open
    <3>1. pc # "idle" /\ cur \in Requests
      BY <2>2 DEF Open, IInvType, CallHasRequest
    <3>2. CASE ~pathKnown /\ \E e \in {"DontKnowCwd", "CantFindApiFile"} : Fail(e)
                           /\ UNCHANGED <<pathKnown, isOpen, failbit, eofbit>>
      <4>1. PICK e \in {"DontKnowCwd", "CantFindApiFile"} : Fail(e)
        BY <3>2
      <4>2. result' \in Results /\ pc' \in Steps
        BY <3>1, <4>1, FailType DEF ErrorCodes
      <4>3. QED
        BY <3>2, <4>2, <2>2, Zenon DEF Open, Fail, IInvType, TypeOK
    <3>3. CASE pathKnown' = TRUE /\ OpenStream
      <4>1. CASE isOpen /\ pc' = "write" /\ UNCHANGED <<isOpen, failbit, eofbit, result>>
        BY <3>3, <4>1, <2>2, Zenon DEF Open, IInvType, TypeOK, Steps
      <4>2. CASE ~isOpen /\ isOpen' = TRUE /\ failbit' = FALSE /\ eofbit' = FALSE
                 /\ pc' = "write" /\ UNCHANGED result
        BY <3>3, <4>2, <2>2, Zenon DEF Open, IInvType, TypeOK, Steps
      <4>3. CASE ~isOpen /\ failbit' = TRUE /\ Fail("CantOpenApiFile")
                 /\ UNCHANGED <<isOpen, eofbit>>
        <5>1. result' \in Results /\ pc' \in Steps
          BY <3>1, <4>3, FailType DEF ErrorCodes
        <5>2. QED
          BY <3>3, <4>3, <5>1, <2>2, Zenon DEF Open, Fail, IInvType, TypeOK
      <4>4. QED
        BY <3>3, <4>1, <4>2, <4>3, Zenon DEF OpenStream
    <3>4. QED
      BY <2>2, <3>2, <3>3, Zenon DEF Open
  <2>3. CASE Write
    <3>1. pc # "idle" /\ cur \in Requests
      BY <2>3 DEF Write, IInvType, CallHasRequest
    <3>2. CASE failbit /\ Fail("ApiFileSeekFail") /\ UNCHANGED <<failbit, apiFile>>
      <4>1. result' \in Results /\ pc' \in Steps
        BY <3>1, <3>2, FailType DEF ErrorCodes
      <4>2. QED
        BY <2>3, <3>2, <4>1, Zenon DEF Write, Fail, IInvType, TypeOK
    <3>3. CASE /\ ~failbit
               /\ \E e \in {"ApiFileSeekFail", "ApiFileWriteFail", "ApiFileFlushFail"} :
                     Fail(e)
               /\ failbit' = TRUE
               /\ UNCHANGED apiFile
      <4>1. PICK e \in {"ApiFileSeekFail", "ApiFileWriteFail", "ApiFileFlushFail"} :
                   Fail(e)
        BY <3>3
      <4>2. result' \in Results /\ pc' \in Steps
        BY <3>1, <4>1, FailType DEF ErrorCodes
      <4>3. QED
        BY <2>3, <3>3, <4>2, Zenon DEF Write, Fail, IInvType, TypeOK
    <3>4. CASE /\ ~failbit
               /\ pc' = "readstart"
               /\ IF commandSize > 0
                    THEN apiFile' \in {f \in Replies : f.req = cur.id}
                    ELSE UNCHANGED apiFile
               /\ UNCHANGED <<failbit, result>>
      <4>1. apiFile' \in Replies \cup {NoReply}
        BY <3>4 DEF IInvType, TypeOK
      <4>2. UNCHANGED <<pathKnown, isOpen, eofbit, cur, commandSize, filePos,
                         responseSize, calls>>
        BY <2>3 DEF Write
      <4>3. QED
        BY <3>4, <4>1, <4>2, Zenon DEF IInvType, TypeOK, Steps
    <3>5. QED
      BY <2>3, <3>2, <3>3, <3>4 DEF Write
  <2>4. CASE ReadStart
    <3>1. pc # "idle" /\ cur \in Requests
      BY <2>4 DEF ReadStart, IInvType, CallHasRequest
    <3>2. filePos' \in Nat /\ responseSize' \in 0 .. MaxBuf
      BY <2>4 DEF ReadStart, IInvType, TypeOK
    <3>3. QED
      BY <3>1, <3>2, <2>4, FailType, Zenon
      DEF ReadStart, IInvType, TypeOK, Steps, ErrorCodes
  <2>5. CASE ReadChunk
    <3>1. pc # "idle" /\ cur \in Requests
      BY <2>5 DEF ReadChunk, IInvType, CallHasRequest
    <3>2. FileLen(apiFile) \in Nat
      BY RepliesAssumption DEF IInvType, TypeOK, FileLen, ReplyRec
    <3>3. filePos <= FileLen(apiFile) /\ filePos \in Nat
          /\ responseSize \in 0 .. MaxBuf
          /\ failbit \in BOOLEAN /\ eofbit \in BOOLEAN
      BY <2>5 DEF ReadChunk, IInvType, TypeOK, ReadInFile
    <3>4. filePos' \in Nat /\ responseSize' \in 0 .. MaxBuf
      BY <3>2, <3>3, <2>5 DEF ReadChunk, AppendFits, AppendBytes
    <3>5. failbit' \in BOOLEAN /\ eofbit' \in BOOLEAN
      <4>1. (FileLen(apiFile) - filePos < Chunk) \in BOOLEAN
        OBVIOUS
      <4>2. QED
        BY <4>1, <3>3, <2>5, Zenon DEF ReadChunk
    <3>6. QED
      BY <3>1, <3>4, <3>5, <2>5, FailType, Zenon
      DEF ReadChunk, IInvType, TypeOK, Steps, ErrorCodes
  <2>6. CASE Decode
    <3>1. pc # "idle" /\ cur \in Requests
      BY <2>6 DEF Decode, IInvType, CallHasRequest
    <3>2. \A tail \in TailsOf(apiFile) : Decoded(apiFile, tail) \in ErrorCodes
      BY DecodedType DEF IInvType, TypeOK, TailsOf, Tails
    <3>3. PICK tail \in TailsOf(apiFile) :
            result' = [err |-> Decoded(apiFile, tail), req |-> cur.id,
                       decoded |-> TRUE, reply |-> apiFile]
      BY <2>6, Zenon DEF Decode
    <3>4. result' \in Results
      BY <3>1, <3>2, <3>3, CurId, Zenon DEF Results, IInvType, TypeOK
    <3>5. QED
      BY <3>4, <2>6, Zenon DEF Decode, IInvType, TypeOK, Steps
  <2>7. CASE Close
    BY <2>7, Zenon DEF Close, IInvType, TypeOK
  <2>8. CASE Finished \/ UNCHANGED vars
    BY <2>8 DEF Finished, vars, IInvType, TypeOK
  <2>9. QED
    BY <2>1, <2>2, <2>3, <2>4, <2>5, <2>6, <2>7, <2>8 DEF Next, CallStep
<1>2. CallHasRequest'
  <2>1. CASE \E r \in Requests : GetAccessed(r)
    BY <2>1 DEF GetAccessed, CallHasRequest
  <2>2. CASE CallStep
    <3>1. pc # "idle" /\ cur' = cur
      BY <2>2 DEF CallStep, Open, Write, ReadStart, ReadChunk, Decode
    <3>2. QED
      BY <3>1 DEF IInvType, CallHasRequest
  <2>3. CASE Close \/ Finished \/ UNCHANGED vars
    BY <2>3 DEF Close, Finished, vars, IInvType, CallHasRequest
  <2>4. QED
    BY <2>1, <2>2, <2>3 DEF Next
<1>3. ReadInFile'
  <2>1. CASE ReadStart
    <3>1. FileLen(apiFile') \in Nat
      BY <2>1, RepliesAssumption DEF ReadStart, IInvType, TypeOK, FileLen, ReplyRec
    <3>2. QED
      BY <2>1, <3>1 DEF ReadStart, Fail, ReadInFile
  <2>2. CASE ReadChunk
    <3>1. FileLen(apiFile) \in Nat
      BY RepliesAssumption DEF IInvType, TypeOK, FileLen, ReplyRec
    <3>2. filePos <= FileLen(apiFile) /\ filePos \in Nat
      BY <2>2 DEF ReadChunk, IInvType, TypeOK, ReadInFile
    <3>3. QED
      BY <2>2, <3>1, <3>2 DEF ReadChunk, ReadInFile
  <2>3. CASE \/ \E r \in Requests : GetAccessed(r)
             \/ Open \/ Write \/ Decode
    BY <2>3 DEF GetAccessed, Open, OpenStream, Write, Decode, Fail, ReadInFile
  <2>4. CASE Close \/ Finished \/ UNCHANGED vars
    BY <2>4 DEF Close, Finished, vars, IInvType, ReadInFile
  <2>5. QED
    BY <2>1, <2>2, <2>3, <2>4 DEF Next, CallStep
<1>4. QED
  BY <1>1, <1>2, <1>3 DEF IInvType

(***************************************************************************)
(* The type invariant: every variable keeps its type, the response buffer  *)
(* never outgrows MaxBuf and the call count stays within MaxCalls, for     *)
(* every behaviour of ApiHandle's Spec.                                    *)
(***************************************************************************)
THEOREM TypeCorrect == Spec => []TypeOK
<1>1. IInvType => TypeOK
  BY DEF IInvType
<1>2. QED
  BY TypeInit, TypeStep, <1>1, PTL DEF Spec

\* A failed call, back at idle with an undecoded result, satisfies the
\* reply invariant whatever came before.
LEMMA FailReply ==
  ASSUME NEW e, Fail(e)
  PROVE  CommandBuffered' /\ FileAnswersCall' /\ ReplyMatchesRequest'
<1>1. pc' = "idle" /\ result'.decoded = FALSE
  BY DEF Fail
<1>2. QED
  BY <1>1 DEF CommandBuffered, FileAnswersCall, ReplyMatchesRequest

\* A step that leaves the reply unchanged and moves the call to a state
\* before the write keeps the invariant, provided the command is buffered.
LEMMA KeepReplyBeforeWrite ==
  ASSUME ReplyMatchesRequest, pc' \in {"open", "write"}, commandSize' > 0,
         UNCHANGED result
  PROVE  CommandBuffered' /\ FileAnswersCall' /\ ReplyMatchesRequest'
BY DEF CommandBuffered, FileAnswersCall, ReplyMatchesRequest

\* A step that leaves the reply unchanged and moves the call to a state
\* after the write keeps the invariant, provided the file answers the call.
LEMMA KeepReplyAfterWrite ==
  ASSUME ReplyMatchesRequest, pc' \in {"readstart", "read", "decode"},
         apiFile' # NoReply, apiFile'.req = cur'.id, UNCHANGED result
  PROVE  CommandBuffered' /\ FileAnswersCall' /\ ReplyMatchesRequest'
BY DEF CommandBuffered, FileAnswersCall, ReplyMatchesRequest

\* The api file holding no response is not a response.
LEMMA NoReplyNotReply == NoReply \notin Replies
BY NoneAssumption, RepliesAssumption

\* The initial states satisfy the reply invariant.
LEMMA ReplyInit == Init => IInvReply
BY TypeInit DEF IInvReply, Init, CommandBuffered, FileAnswersCall,
                  ReplyMatchesRequest

\* Every step keeps the reply invariant when every request fits.
LEMMA ReplyStep ==
  ASSUME RequestsFit, IInvReply, [Next]_vars PROVE IInvReply'
<1> SUFFICES ASSUME IInvReply, [Next]_vars
             PROVE  CommandBuffered' /\ FileAnswersCall' /\ ReplyMatchesRequest'
  BY TypeStep DEF IInvReply
<1>0. /\ CommandBuffered /\ FileAnswersCall /\ ReplyMatchesRequest
      /\ TypeOK
  BY DEF IInvReply, IInvType
<1>1. CASE \E r \in Requests : GetAccessed(r)
  <2>1. PICK r \in Requests : GetAccessed(r)
    BY <1>1
  <2>2. CASE ~CheckWorkspacePathValid(r.ws)
    <3>1. pc' = "idle" /\ result'.decoded = FALSE
      BY <2>1, <2>2 DEF GetAccessed
    <3>2. QED
      BY <3>1 DEF CommandBuffered, FileAnswersCall, ReplyMatchesRequest
  <2>3. CASE CheckWorkspacePathValid(r.ws)
    <3>1. r.size \in Nat /\ CopyStringFits(r.size)
      BY RequestsAssumption DEF RequestsFit
    <3>2. CopyString(r.size) > 0
      BY <3>1, CopyStringSize
    <3>3. commandSize' = CopyString(r.size) /\ pc' = "open" /\ UNCHANGED result
      BY <2>1, <2>3 DEF GetAccessed
    <3>4. QED
      BY <1>0, <3>2, <3>3, KeepReplyBeforeWrite
  <2>4. QED
    BY <2>2, <2>3
<1>2. CASE Open
  <2>1. CASE \E e \in {"DontKnowCwd", "CantFindApiFile", "CantOpenApiFile"} :
               Fail(e)
    BY <2>1, FailReply
  <2>2. CASE ~\E e \in {"DontKnowCwd", "CantFindApiFile", "CantOpenApiFile"} :
                Fail(e)
    <3>1. pc' = "write" /\ UNCHANGED <<commandSize, result>>
      BY <1>2, <2>2, Zenon DEF Open, OpenStream
    <3>2. commandSize > 0
      BY <1>0, <1>2 DEF Open, CommandBuffered
    <3>3. QED
      BY <1>0, <3>1, <3>2, KeepReplyBeforeWrite
  <2>3. QED
    BY <2>1, <2>2
<1>3. CASE Write
  <2>1. CASE \E e \in {"ApiFileSeekFail", "ApiFileWriteFail", "ApiFileFlushFail"} :
               Fail(e)
    BY <2>1, FailReply
  <2>2. CASE ~\E e \in {"ApiFileSeekFail", "ApiFileWriteFail", "ApiFileFlushFail"} :
                Fail(e)
    <3>1. commandSize > 0
      BY <1>0, <1>3 DEF Write, CommandBuffered
    <3>2. pc' = "readstart" /\ apiFile' \in {f \in Replies : f.req = cur.id}
          /\ UNCHANGED <<cur, result>>
      BY <1>3, <2>2, <3>1, Zenon DEF Write
    <3>3. apiFile' # NoReply
      BY <3>2, NoReplyNotReply
    <3>4. QED
      BY <1>0, <3>2, <3>3, KeepReplyAfterWrite
  <2>3. QED
    BY <2>1, <2>2
<1>4. CASE ReadStart
  <2>1. CASE Fail("ApiFileSeekFail")
    BY <2>1, FailReply
  <2>2. CASE ~Fail("ApiFileSeekFail")
    <3>1. pc' = "read" /\ UNCHANGED <<apiFile, cur, result>>
      BY <1>4, <2>2, Zenon DEF ReadStart
    <3>2. apiFile # NoReply /\ apiFile.req = cur.id
      BY <1>0, <1>4 DEF ReadStart, FileAnswersCall
    <3>3. QED
      BY <1>0, <3>1, <3>2, KeepReplyAfterWrite
  <2>3. QED
    BY <2>1, <2>2
<1>5. CASE ReadChunk
  <2>1. CASE \E e \in {"ApiFileReadFail", "BufferTooBig"} : Fail(e)
    BY <2>1, FailReply
  <2>2. CASE ~\E e \in {"ApiFileReadFail", "BufferTooBig"} : Fail(e)
    <3>1. pc' \in {"read", "decode"} /\ UNCHANGED <<apiFile, cur, result>>
      BY <1>5, <2>2, Zenon DEF ReadChunk
    <3>2. apiFile # NoReply /\ apiFile.req = cur.id
      BY <1>0, <1>5 DEF ReadChunk, FileAnswersCall
    <3>3. QED
      BY <1>0, <3>1, <3>2, KeepReplyAfterWrite
  <2>3. QED
    BY <2>1, <2>2
<1>6. CASE Decode
  <2>1. apiFile # NoReply /\ apiFile.req = cur.id
    BY <1>0, <1>6 DEF Decode, FileAnswersCall
  <2>2. pc' = "idle" /\ result'.decoded = TRUE /\ result'.reply = apiFile
        /\ result'.req = cur.id
    BY <1>6 DEF Decode
  <2>3. QED
    BY <2>1, <2>2 DEF CommandBuffered, FileAnswersCall, ReplyMatchesRequest
<1>7. CASE Close \/ Finished \/ UNCHANGED vars
  <2>1. UNCHANGED <<pc, cur, commandSize, apiFile, result>>
    BY <1>7 DEF Close, Finished, vars
  <2>2. QED
    BY <1>0, <2>1 DEF CommandBuffered, FileAnswersCall, ReplyMatchesRequest
<1>8. QED
  BY <1>1, <1>2, <1>3, <1>4, <1>5, <1>6, <1>7 DEF Next, CallStep

(***************************************************************************)
(* When every request fits the command buffer, every call that decodes a   *)
(* response decodes the response the filesystem gave to that call's own    *)
(* request: the write-then-read exchange of SendJson never hands back the  *)
(* answer to an earlier command.                                           *)
(***************************************************************************)
THEOREM ReplyMatchesRequestHolds ==
  ASSUME RequestsFit PROVE Spec => []ReplyMatchesRequest
<1>1. IInvReply /\ [Next]_vars => IInvReply'
  BY ReplyStep
<1>2. IInvReply => ReplyMatchesRequest
  BY DEF IInvReply
<1>3. QED
  BY ReplyInit, <1>1, <1>2, PTL DEF Spec

(***************************************************************************)
(* ReadReassemblesResponse is not inductive by itself: it needs the read   *)
(* loop to have buffered exactly the bytes it has read so far.             *)
(***************************************************************************)
ReadSoFar == pc = "read" => responseSize = filePos

IInvRead == IInvType /\ ReadSoFar /\ ReadReassemblesResponse

\* A step that ends outside the read loop and decoding leaves nothing for
\* the read invariants to check.
Leaves == pc' \in {"idle", "open", "write", "readstart"}

LEMMA LeavesRead ==
  ASSUME Leaves PROVE (ReadSoFar /\ ReadReassemblesResponse)'
BY DEF Leaves, ReadSoFar, ReadReassemblesResponse

LEMMA FailLeaves ==
  ASSUME NEW e, Fail(e) PROVE Leaves
BY DEF Fail, Leaves

\* Every step keeps the read invariants.
LEMMA ReadStep ==
  ASSUME IInvRead, [Next]_vars PROVE IInvRead'
<1>1. IInvType'
  BY TypeStep DEF IInvRead
<1>2. (ReadSoFar /\ ReadReassemblesResponse)'
  <2>1. CASE \E r \in Requests : GetAccessed(r)
    <3>1. Leaves
      BY <2>1 DEF GetAccessed, Leaves
    <3>2. QED
      BY <3>1, LeavesRead
  <2>2. CASE Open
    <3>1. Leaves
      <4>1. CASE \E e \in {"DontKnowCwd", "CantFindApiFile", "CantOpenApiFile"} :
                   Fail(e)
        BY <4>1, FailLeaves
      <4>2. CASE ~\E e \in {"DontKnowCwd", "CantFindApiFile", "CantOpenApiFile"} :
                    Fail(e)
        BY <2>2, <4>2, Zenon DEF Open, OpenStream, Leaves
      <4>3. QED
        BY <4>1, <4>2
    <3>2. QED
      BY <3>1, LeavesRead
  <2>3. CASE Write
    <3>1. Leaves
      <4>1. CASE \E e \in {"ApiFileSeekFail", "ApiFileWriteFail",
                           "ApiFileFlushFail"} : Fail(e)
        BY <4>1, FailLeaves
      <4>2. CASE ~\E e \in {"ApiFileSeekFail", "ApiFileWriteFail",
                            "ApiFileFlushFail"} : Fail(e)
        BY <2>3, <4>2, Zenon DEF Write, Leaves
      <4>3. QED
        BY <4>1, <4>2
    <3>2. QED
      BY <3>1, LeavesRead
  <2>4. CASE ReadStart
    <3>1. CASE Fail("ApiFileSeekFail")
      BY <3>1, FailLeaves, LeavesRead
    <3>2. CASE ~Fail("ApiFileSeekFail")
      <4>1. pc' = "read" /\ filePos' = 0 /\ responseSize' = 0
        BY <2>4, <3>2, Zenon DEF ReadStart
      <4>2. QED
        BY <4>1 DEF ReadSoFar,
                    ReadReassemblesResponse
    <3>3. QED
      BY <3>1, <3>2
  <2>5. CASE ReadChunk
    <3>1. CASE \E e \in {"ApiFileReadFail", "BufferTooBig"} : Fail(e)
      BY <3>1, FailLeaves, LeavesRead
    <3>2. CASE ~\E e \in {"ApiFileReadFail", "BufferTooBig"} : Fail(e)
      <4> DEFINE left == FileLen(apiFile) - filePos
                 n    == IF left < Chunk THEN left ELSE Chunk
      <4>1. /\ FileLen(apiFile) \in Nat /\ filePos \in Nat
            /\ filePos <= FileLen(apiFile) /\ responseSize = filePos
            /\ responseSize \in Nat /\ Chunk \in Nat
        BY <2>5, RepliesAssumption, ChunkAssumption, MaxBufAssumption
        DEF ReadChunk, IInvRead, IInvType, TypeOK, ReadInFile, ReadSoFar,
            FileLen, ReplyRec
      <4>2. /\ AppendFits(responseSize, n)
            /\ filePos' = filePos + n
            /\ responseSize' = AppendBytes(responseSize, n)
            /\ UNCHANGED apiFile
            /\ \/ ~(left < Chunk) /\ pc' = "read"
               \/ left < Chunk /\ pc' = "decode" /\ ~failbit' /\ ~eofbit'
        BY <2>5, <3>2, Zenon DEF ReadChunk
      <4>3. responseSize' = filePos'
        BY <4>1, <4>2, AppendAdds
      <4>4. CASE ~(left < Chunk) /\ pc' = "read"
        BY <4>3, <4>4 DEF ReadSoFar,
                          ReadReassemblesResponse
      <4>5. CASE left < Chunk /\ pc' = "decode" /\ ~failbit' /\ ~eofbit'
        <5>1. filePos' = FileLen(apiFile')
          BY <4>1, <4>2, <4>5
        <5>2. QED
          BY <4>3, <4>5, <5>1 DEF                                    ReadSoFar, ReadReassemblesResponse
      <4>6. QED
        BY <4>2, <4>4, <4>5
    <3>3. QED
      BY <3>1, <3>2
  <2>6. CASE Decode
    BY <2>6 DEF Decode, ReadSoFar, ReadReassemblesResponse
  <2>7. CASE Close \/ Finished \/ UNCHANGED vars
    <3>1. UNCHANGED <<pc, filePos, responseSize, apiFile>>
      BY <2>7 DEF Close, Finished, vars
    <3>2. QED
      BY <3>1 DEF IInvRead, ReadSoFar,
                  ReadReassemblesResponse
  <2>8. QED
    BY <2>1, <2>2, <2>3, <2>4, <2>5, <2>6, <2>7 DEF Next, CallStep
<1>3. QED
  BY <1>1, <1>2 DEF IInvRead

\* The initial states satisfy the read invariants.
LEMMA ReadInit == Init => IInvRead
BY TypeInit DEF Init, IInvRead, ReadSoFar, ReadReassemblesResponse

(***************************************************************************)
(* When ReadResponse's loop ends at end-of-stream, the response buffer     *)
(* holds every byte of the api file, however many chunks it took.          *)
(***************************************************************************)
THEOREM ReadReassemblesResponseHolds == Spec => []ReadReassemblesResponse
<1>1. IInvRead => ReadReassemblesResponse
  BY DEF IInvRead
<1>2. QED
  BY ReadInit, ReadStep, <1>1, PTL DEF Spec

(***************************************************************************)
(* The refinement of ApiCall.  A running call is counted from its return   *)
(* (callsReturned), so a call maps to one ApiCall step, taken when it      *)
(* returns; every other step of the call is a stutter, since the result   *)
(* only changes when the call returns.  The returning step needs the call *)
(* counted (CallCounted) and, for a decoded result, the api file to answer *)
(* the call (FileAnswersCall of the reply invariant).                      *)
(***************************************************************************)
CallCounted == pc # "idle" => calls \in 1 .. MaxCalls

IInvCall == IInvReply /\ CallCounted

\* Every step keeps the call counted.
LEMMA CountedStep ==
  ASSUME IInvType, CallCounted, [Next]_vars PROVE CallCounted'
<1>. USE MaxCallsAssumption DEF IInvType, TypeOK
<1>1. CASE \E r \in Requests : GetAccessed(r)
  BY <1>1 DEF GetAccessed, CallCounted
<1>2. CASE CallStep
  <2>1. UNCHANGED calls
    BY <1>2 DEF CallStep, Open, Write, ReadStart, ReadChunk, Decode
  <2>2. pc # "idle"
    BY <1>2 DEF CallStep, Open, Write, ReadStart, ReadChunk, Decode
  <2>3. QED
    BY <2>1, <2>2 DEF CallCounted
<1>3. CASE Close \/ Finished \/ UNCHANGED vars
  BY <1>3 DEF Close, Finished, vars, CallCounted
<1>4. QED
  BY <1>1, <1>2, <1>3 DEF Next

\* A step inside a call, which returns nothing, is invisible to ApiCall.
LEMMA QuietStep ==
  ASSUME pc # "idle", pc' # "idle", UNCHANGED <<calls, result>>
  PROVE  UNCHANGED Atomic!cvars
BY DEF Atomic!cvars, callsReturned

\* The step by which a running call returns is one call of ApiCall.
LEMMA ReturnStep ==
  ASSUME IInvType, CallCounted, pc # "idle", pc' = "idle",
         UNCHANGED calls, NEW r \in Requests,
         result' \in Atomic!Failed(r) \cup Atomic!Answered(r)
  PROVE  Atomic!Call
<1>1. calls \in 1 .. MaxCalls /\ MaxCalls \in Nat
  BY MaxCallsAssumption DEF CallCounted
<1>2. callsReturned = calls - 1 /\ callsReturned' = calls
  BY DEF callsReturned
<1>3. callsReturned < MaxCalls /\ callsReturned' = callsReturned + 1
  BY <1>1, <1>2
<1>4. QED
  BY <1>3 DEF Atomic!Call

\* A call that fails with an error other than Success returns one call of
\* ApiCall.
LEMMA FailCall ==
  ASSUME IInvType, CallCounted, pc # "idle", UNCHANGED calls,
         NEW e \in ErrorCodes \ {"None", "Success"}, Fail(e)
  PROVE  Atomic!Call
<1>1. cur \in Requests
  BY DEF IInvType, CallHasRequest
<1>2. result' \in Atomic!Failed(cur)
  BY DEF Fail, Atomic!Failed
<1>3. QED
  BY <1>1, <1>2, ReturnStep DEF Fail

\* Every step of the handle is a call of ApiCall or a stutter.
LEMMA CallRefStep ==
  ASSUME RequestsFit, IInvCall, [Next]_vars PROVE [Atomic!Call]_Atomic!cvars
<1>0. IInvType /\ CallCounted /\ FileAnswersCall
  BY DEF IInvCall, IInvReply
<1>1. CASE \E r \in Requests : GetAccessed(r)
  <2>1. PICK r \in Requests : GetAccessed(r)
    BY <1>1
  <2>2. pc = "idle" /\ calls \in Nat /\ calls < MaxCalls /\ calls' = calls + 1
    BY <1>0, <2>1, MaxCallsAssumption DEF GetAccessed, IInvType, TypeOK
  <2>3. CASE ~CheckWorkspacePathValid(r.ws)
    <3>1. pc' = "idle"
          /\ result' = [err |-> "WorkspacePathInvalid", req |-> r.id,
                        decoded |-> FALSE, reply |-> NoReply]
      BY <2>1, <2>3 DEF GetAccessed
    <3>2. result' \in Atomic!Failed(r)
      BY <3>1 DEF Atomic!Failed, ErrorCodes
    <3>3. callsReturned < MaxCalls /\ callsReturned' = callsReturned + 1
      BY <2>2, <3>1 DEF callsReturned
    <3>4. QED
      BY <3>2, <3>3 DEF Atomic!Call
  <2>4. CASE CheckWorkspacePathValid(r.ws)
    <3>1. pc' = "open" /\ UNCHANGED result
      BY <2>1, <2>4 DEF GetAccessed
    <3>2. callsReturned' = callsReturned
      BY <2>2, <3>1 DEF callsReturned
    <3>3. QED
      BY <3>1, <3>2 DEF Atomic!cvars
  <2>5. QED
    BY <2>3, <2>4
<1>2. CASE Open
  <2>1. CASE \E e \in {"DontKnowCwd", "CantFindApiFile", "CantOpenApiFile"} :
               Fail(e)
    BY <1>0, <1>2, <2>1, FailCall DEF Open, ErrorCodes
  <2>2. CASE ~\E e \in {"DontKnowCwd", "CantFindApiFile", "CantOpenApiFile"} :
                Fail(e)
    <3>1. pc' = "write" /\ UNCHANGED <<calls, result>>
      BY <1>2, <2>2, Zenon DEF Open, OpenStream
    <3>2. QED
      BY <1>2, <3>1, QuietStep DEF Open
  <2>3. QED
    BY <2>1, <2>2
<1>3. CASE Write
  <2>1. CASE \E e \in {"ApiFileSeekFail", "ApiFileWriteFail",
                       "ApiFileFlushFail"} : Fail(e)
    BY <1>0, <1>3, <2>1, FailCall DEF Write, ErrorCodes
  <2>2. CASE ~\E e \in {"ApiFileSeekFail", "ApiFileWriteFail",
                        "ApiFileFlushFail"} : Fail(e)
    <3>1. pc' = "readstart" /\ UNCHANGED <<calls, result>>
      BY <1>3, <2>2, Zenon DEF Write
    <3>2. QED
      BY <1>3, <3>1, QuietStep DEF Write
  <2>3. QED
    BY <2>1, <2>2
<1>4. CASE ReadStart
  <2>1. CASE Fail("ApiFileSeekFail")
    BY <1>0, <1>4, <2>1, FailCall DEF ReadStart, ErrorCodes
  <2>2. CASE ~Fail("ApiFileSeekFail")
    <3>1. pc' = "read" /\ UNCHANGED <<calls, result>>
      BY <1>4, <2>2, Zenon DEF ReadStart
    <3>2. QED
      BY <1>4, <3>1, QuietStep DEF ReadStart
  <2>3. QED
    BY <2>1, <2>2
<1>5. CASE ReadChunk
  <2>1. CASE \E e \in {"ApiFileReadFail", "BufferTooBig"} : Fail(e)
    BY <1>0, <1>5, <2>1, FailCall DEF ReadChunk, ErrorCodes
  <2>2. CASE ~\E e \in {"ApiFileReadFail", "BufferTooBig"} : Fail(e)
    <3>1. pc' \in {"read", "decode"} /\ UNCHANGED <<calls, result>>
      BY <1>5, <2>2, Zenon DEF ReadChunk
    <3>2. QED
      BY <1>5, <3>1, QuietStep DEF ReadChunk
  <2>3. QED
    BY <2>1, <2>2
<1>6. CASE Decode
  <2>1. /\ pc = "decode" /\ pc' = "idle" /\ UNCHANGED calls
        /\ cur \in Requests
        /\ apiFile # NoReply /\ apiFile.req = cur.id
        /\ apiFile \in Replies \cup {NoReply}
    BY <1>0, <1>6 DEF Decode, IInvType, TypeOK, CallHasRequest,
                      FileAnswersCall
  <2>2. PICK tail \in TailsOf(apiFile) :
          result' = [err |-> Decoded(apiFile, tail), req |-> cur.id,
                     decoded |-> TRUE, reply |-> apiFile]
    BY <1>6 DEF Decode
  <2>3. Decoded(apiFile, tail) \in ErrorCodes
    <3>1. tail \in Tails
      BY DEF TailsOf, Tails
    <3>2. QED
      BY <2>1, <3>1, DecodedType
  <2>4. result' \in Atomic!Answered(cur)
    <3>1. apiFile \in {f \in Replies : f.req = cur.id}
      BY <2>1
    <3>2. QED
      BY <2>2, <2>3, <3>1 DEF Atomic!Answered
  <2>5. QED
    BY <1>0, <2>1, <2>4, ReturnStep
<1>7. CASE Close \/ Finished \/ UNCHANGED vars
  BY <1>7 DEF Close, Finished, vars, Atomic!cvars, callsReturned
<1>8. QED
  BY <1>1, <1>2, <1>3, <1>4, <1>5, <1>6, <1>7 DEF Next, CallStep

(***************************************************************************)
(* When every request fits the command buffer, the handle implements       *)
(* ApiCall: each GetAccessed call returns once, as one atomic step, either  *)
(* a failure other than Success with no reply or the decoder's verdict on  *)
(* the filesystem's answer to that call's own request.  Without the       *)
(* assumption it fails as ReplyMatchesRequest does (the stale_reply run).  *)
(***************************************************************************)
THEOREM CallsAtomicHolds ==
  ASSUME RequestsFit PROVE Spec => CallsAtomic
<1>1. Init => IInvCall /\ Atomic!Init
  BY ReplyInit DEF Init, IInvCall, CallCounted, Atomic!Init, callsReturned
<1>2. IInvCall /\ [Next]_vars => IInvCall'
  BY ReplyStep, CountedStep DEF IInvCall, IInvReply
<1>3. IInvCall /\ [Next]_vars => [Atomic!Call]_Atomic!cvars
  BY CallRefStep
<1>4. QED
  BY <1>1, <1>2, <1>3, PTL DEF Spec, CallsAtomic, Atomic!Spec

(***************************************************************************)
(* HandleUsableAfterEof fails only through a response larger than the     *)
(* response buffer (the eof_state run).  When every response fits, no     *)
(* Append in the read loop is refused, so the BufferTooBig return that     *)
(* skips the clear() never happens, and eofbit is never left set.          *)
(***************************************************************************)
RepliesFit == \A f \in Replies : f.len <= MaxBuf

IInvEof == IInvRead /\ ~eofbit

\* Inside the read loop, the next read always fits the buffer.
LEMMA ChunkFits ==
  ASSUME RepliesFit, IInvRead, pc = "read"
  PROVE  LET left == FileLen(apiFile) - filePos
             n    == IF left < Chunk THEN left ELSE Chunk
         IN  AppendFits(responseSize, n)
<1>1. FileLen(apiFile) \in Nat /\ FileLen(apiFile) <= MaxBuf
  <2>1. apiFile \in Replies \cup {NoReply}
    BY DEF IInvRead, IInvType, TypeOK
  <2>2. CASE apiFile = NoReply
    BY <2>2, MaxBufAssumption DEF FileLen
  <2>3. CASE apiFile \in Replies
    <3>1. apiFile # NoReply
      BY <2>3, NoReplyNotReply
    <3>2. apiFile.len \in Nat /\ apiFile.len <= MaxBuf
      BY <2>3, RepliesAssumption DEF RepliesFit, ReplyRec
    <3>3. QED
      BY <3>1, <3>2 DEF FileLen
  <2>4. QED
    BY <2>1, <2>2, <2>3
<1>2. filePos \in Nat /\ filePos <= FileLen(apiFile) /\ responseSize = filePos
  BY DEF IInvRead, IInvType, TypeOK, ReadInFile, ReadSoFar
<1>3. QED
  BY <1>1, <1>2, ChunkAssumption, MaxBufAssumption DEF AppendFits

\* No step sets eofbit and leaves it set.
LEMMA EofStep ==
  ASSUME RepliesFit, IInvEof, [Next]_vars PROVE ~eofbit'
<1>0. ~eofbit
  BY DEF IInvEof
<1>1. CASE ReadChunk
  <2> DEFINE left == FileLen(apiFile) - filePos
             n    == IF left < Chunk THEN left ELSE Chunk
  <2>1. AppendFits(responseSize, n)
    BY <1>1, ChunkFits DEF ReadChunk, IInvEof
  <2>2. QED
    BY <1>0, <1>1, <2>1, Zenon DEF ReadChunk, Fail
<1>2. CASE Open
  BY <1>0, <1>2 DEF Open, OpenStream
<1>3. CASE \E r \in Requests : GetAccessed(r)
  BY <1>0, <1>3 DEF GetAccessed
<1>4. CASE Write \/ ReadStart \/ Decode \/ Close \/ Finished \/ UNCHANGED vars
  BY <1>0, <1>4 DEF Write, ReadStart, Decode, Close, Finished, vars
<1>5. QED
  BY <1>1, <1>2, <1>3, <1>4 DEF Next, CallStep

(***************************************************************************)
(* When every response the filesystem gives fits the response buffer, the  *)
(* handle stays usable after each exchange as spec 4.3 says: between calls *)
(* the stream's eofbit is never set, for every chunk and buffer size.      *)
(***************************************************************************)
THEOREM HandleUsableAfterEofHolds ==
  ASSUME RepliesFit PROVE Spec => []HandleUsableAfterEof
<1>1. Init => IInvEof
  BY ReadInit DEF Init, IInvEof
<1>2. IInvEof /\ [Next]_vars => IInvEof'
  BY ReadStep, EofStep DEF IInvEof
<1>3. IInvEof => HandleUsableAfterEof
  BY DEF IInvEof, HandleUsableAfterEof
<1>4. QED
  BY <1>1, <1>2, <1>3, PTL DEF Spec
=====
