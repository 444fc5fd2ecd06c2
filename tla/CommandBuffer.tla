---------------------------- MODULE CommandBuffer ----------------------------
(***************************************************************************)
(* CommandBuffer (qfs_client_implementation.cc): the growable byte vector  *)
(* that holds a request on its way to the api file and a response on its  *)
(* way back.  No property tells two buffers of the same length apart, so a *)
(* buffer is modelled by its size.  The std::vector insert in Append       *)
(* throws (length_error, bad_alloc) when the buffer cannot grow; MaxBuf is *)
(* the size beyond which it does.                                          *)
(***************************************************************************)
EXTENDS Naturals

CONSTANT MaxBuf   \* largest number of bytes the buffer can hold

ASSUME MaxBufAssumption == MaxBuf \in Nat

\* Whether Append(data, n) on a buffer of `size` bytes succeeds: the insert
\* throws when the buffer would outgrow MaxBuf.
AppendFits(size, n) == size + n <= MaxBuf

\* The size after Append(data, n), named AppendBytes (Sequences has an
\* Append): all or nothing, since a throwing insert leaves the vector as it was.
AppendBytes(size, n) == IF AppendFits(size, n) THEN size + n ELSE size

\* CopyString(s) clears the buffer and appends strlen(s) + 1 bytes: the
\* string and its terminating NUL.
CopyStringFits(len) == AppendFits(0, len + 1)
CopyString(len) == AppendBytes(0, len + 1)
=============================================================================
