------------------------- MODULE CommandBufferProofs -------------------------
(***************************************************************************)
(* Facts about CommandBuffer's operators (Append and CopyString, lines     *)
(* 56-75), for every capacity MaxBuf, cited by the proofs about the handle. *)
(***************************************************************************)
EXTENDS CommandBuffer, TLAPS

\* An append never takes a buffer past its capacity.
LEMMA AppendWithinBound ==
  ASSUME NEW size \in 0 .. MaxBuf, NEW n \in Nat
  PROVE  AppendBytes(size, n) \in 0 .. MaxBuf
BY MaxBufAssumption DEF AppendBytes, AppendFits

\* An append that fits adds exactly its bytes.
LEMMA AppendAdds ==
  ASSUME NEW size, NEW n, AppendFits(size, n)
  PROVE  AppendBytes(size, n) = size + n
BY DEF AppendBytes

\* An append that does not fit leaves the buffer as it was (spec 8).
LEMMA AppendRejected ==
  ASSUME NEW size, NEW n, ~AppendFits(size, n)
  PROVE  AppendBytes(size, n) = size
BY DEF AppendBytes

\* CopyString of a string that fits holds the string and its NUL, so the
\* command is never empty (spec 8: "abc" gives 4 bytes).
LEMMA CopyStringSize ==
  ASSUME NEW len \in Nat, CopyStringFits(len)
  PROVE  CopyString(len) = len + 1 /\ CopyString(len) > 0
BY DEF CopyString, CopyStringFits, AppendBytes

\* CopyString of a string that does not fit leaves the buffer Reset: the
\* empty command that SendJson goes on to send (line 374).
LEMMA CopyStringTooBig ==
  ASSUME NEW len, ~CopyStringFits(len)
  PROVE  CopyString(len) = 0
BY DEF CopyString, CopyStringFits, AppendBytes
=============================================================================
