------------------------------ MODULE ApiCodec ------------------------------
(***************************************************************************)
(* The response half of the JSON envelope: CheckCommonApiResponse          *)
(* (qfs_client_implementation.cc).  A response is abstracted to the        *)
(* features the decoder branches on; its text is never built.              *)
(***************************************************************************)
EXTENDS Integers

\* The error space of the library (qfs_client.h): "None" marks a handle on
\* which no call has returned yet.
ErrorCodes ==
  {"None", "Success", "CantOpenApiFile", "ApiFileNotOpen", "ApiFileSeekFail",
   "ApiFileWriteFail", "ApiFileFlushFail", "ApiFileReadFail", "BufferTooBig",
   "DontKnowCwd", "CantFindApiFile", "WorkspacePathInvalid",
   "JsonDecodingError", "MissingJsonObject", "ApiError"}

\* The top level of the response text: a JSON object, array or scalar, or
\* text that is not JSON at all.
Tops == {"object", "array", "scalar", "malformed"}

\* ErrorCode is a json_int_t (64 bits), kept as its high and low 32-bit
\* words so that its conversion to the 32-bit CommandError keeps its width.
ErrorCodeValues == [hi : Nat, lo : Nat]

\* What json_loads sees after the response bytes: the response buffer is
\* not NUL-terminated unless the response carries its own NUL, so the
\* parser reads past its end (undefined behaviour): either a NUL happens to
\* follow, or other bytes do.
Tails == {"nul", "garbage"}

(***************************************************************************)
(* json_loads(input, flags, error) is passed response.Size() as its flags  *)
(* argument (line 298-300), so the bits of the response length select     *)
(* jansson decoding flags: 0x2 JSON_DISABLE_EOF_CHECK, 0x4 JSON_DECODE_ANY,*)
(* 0x8 JSON_DECODE_INT_AS_REAL.                                            *)
(***************************************************************************)
LenBit(len, b) == (len \div b) % 2 = 1
DisableEofCheck(len) == LenBit(len, 2)
DecodeAny(len) == LenBit(len, 4)
IntAsReal(len) == LenBit(len, 8)

\* json_loads returns NULL: text that is not JSON, a scalar top level
\* without JSON_DECODE_ANY, or bytes after the value with the EOF check on.
JsonLoadsFails(r, tail) ==
  \/ r.top = "malformed"
  \/ r.top = "scalar" /\ ~DecodeAny(r.len)
  \/ tail = "garbage" /\ ~DisableEofCheck(r.len)

\* ErrorCode holds an integer to the parser: a JSON integer that was not
\* decoded as a real.
ErrorCodeIsInteger(r) == r.ecInt /\ ~IntAsReal(r.len)

\* (CommandError)json_integer_value(...): the conversion keeps the low 32
\* bits, so the code is nonzero exactly when its low word is.
CommandErrorIsOk(r) == r.ec.lo = 0

(***************************************************************************)
(* CheckCommonApiResponse(response, context), lines 293-360, in the order  *)
(* of its early returns.  json_unpack_ex(..., "o", ...) accepts any        *)
(* non-NULL value, so its error branch (lines 319-323) is never taken.     *)
(***************************************************************************)
CheckCommonApiResponse(r, tail) ==
  IF JsonLoadsFails(r, tail) THEN "JsonDecodingError"
  ELSE IF r.top # "object" \/ ~r.hasEC THEN "MissingJsonObject"
  ELSE IF ~r.hasMsg THEN "MissingJsonObject"
  ELSE IF ~ErrorCodeIsInteger(r) THEN "JsonDecodingError"
  ELSE IF ~CommandErrorIsOk(r) THEN "ApiError"
  ELSE "Success"
=============================================================================
