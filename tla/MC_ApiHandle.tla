---------------------------- MODULE MC_ApiHandle ----------------------------
(***************************************************************************)
(* Instances of ApiHandle for TLC.  Chunk = 4 and MaxBuf = 10 scale the    *)
(* 4096-byte read and the vector limit down so that a response takes one,  *)
(* two or three reads, ends exactly on a chunk boundary (4, 8), or         *)
(* outgrows the buffer on a short last read (11) or on a full read (13).   *)
(* Response lengths also select the decoder flags json_loads is passed:   *)
(* 6 disables the EOF check, 4, 5 and 6 decode any value, 8 and 13 decode *)
(* integers as reals, and 1 sets none of these flags.                      *)
(***************************************************************************)
EXTENDS ApiHandle, TLC

CONSTANTS r1, r2   \* request identities

MC_ReqIds == {r1, r2}

\* "/c/" and "//" have two '/', "c/c" has one.
MC_Requests ==
  { [id |-> r1, ws |-> <<"/", "c", "/">>, size |-> 3],
    [id |-> r2, ws |-> <<"/", "/">>, size |-> 5],
    [id |-> r2, ws |-> <<"c", "/", "c">>, size |-> 4] }

\* A request whose JSON does not fit the command buffer.
MC_RequestsOversized ==
  MC_Requests \cup { [id |-> r1, ws |-> <<"/", "/">>, size |-> 10] }

Zero == [hi |-> 0, lo |-> 0]

\* The success response of the given length to request q.
Ok(q, n) ==
  [req |-> q, len |-> n, top |-> "object", hasEC |-> TRUE, hasMsg |-> TRUE,
   ecInt |-> TRUE, ec |-> Zero, term |-> TRUE, hasAccessList |-> TRUE]

\* Responses of every shape the decoder tells apart.
Shapes(q) ==
  { Ok(q, 4), Ok(q, 11), Ok(q, 13),
    [Ok(q, 6) EXCEPT !.term = FALSE],
    [Ok(q, 1) EXCEPT !.term = FALSE],
    [Ok(q, 5) EXCEPT !.ec = [hi |-> 0, lo |-> 5]],
    [Ok(q, 4) EXCEPT !.hasEC = FALSE],
    [Ok(q, 4) EXCEPT !.hasMsg = FALSE],
    [Ok(q, 4) EXCEPT !.ecInt = FALSE],
    [Ok(q, 4) EXCEPT !.hasAccessList = FALSE],
    [Ok(q, 4) EXCEPT !.top = "array"],
    [Ok(q, 1) EXCEPT !.top = "scalar"],
    [Ok(q, 4) EXCEPT !.top = "scalar"],
    [Ok(q, 3) EXCEPT !.top = "malformed"] }

MC_Replies == UNION {Shapes(q) : q \in MC_ReqIds}

\* The responses that carry their own NUL terminator.
MC_RepliesTerminated == {f \in MC_Replies : f.term}

\* Terminated responses, and success responses whose length has the 0x8
\* bit set.
MC_RepliesIntAsReal == MC_RepliesTerminated \cup {Ok(q, 8) : q \in MC_ReqIds}

\* A response whose ErrorCode is 2^32: high word 1, low word 0.
MC_RepliesWideCode ==
  MC_Replies \cup {[Ok(q, 4) EXCEPT !.ec = [hi |-> 1, lo |-> 0]] : q \in MC_ReqIds}

\* The responses that fit the response buffer.
MC_RepliesFit == {f \in MC_Replies : f.len <= MaxBuf}
=============================================================================
