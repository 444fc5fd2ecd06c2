------------------------------- MODULE ApiCall -------------------------------
(***************************************************************************)
(* What a command on a handle promises (spec 4.3, 4.4 and 7), with each    *)
(* call one atomic step.  A call on request r either fails, returning an   *)
(* error that is not Success and no reply, or it returns the decoder's     *)
(* verdict on a response the filesystem gave to r itself: the exchange is  *)
(* synchronous and never pipelined, so no other call's answer is seen.     *)
(***************************************************************************)
EXTENDS Naturals

CONSTANTS
  MaxCalls,   \* calls the host makes on the handle
  Requests,   \* requests, each with an identity id
  Replies,    \* responses, each answering the request named by req
  Errors,     \* the library's error codes
  NoReq,      \* no request
  NoReply     \* no response

VARIABLES
  calls,      \* calls that have returned
  result      \* what the last call returned

cvars == <<calls, result>>

\* The first failure aborts the call and is returned: not Success, and no
\* response was decoded.
Failed(r) ==
  [err : Errors \ {"None", "Success"}, req : {r.id}, decoded : {FALSE},
   reply : {NoReply}]

\* The call's own response was read back and judged by the decoder.
Answered(r) ==
  [err : Errors, req : {r.id}, decoded : {TRUE},
   reply : {f \in Replies : f.req = r.id}]

Init ==
  /\ calls = 0
  /\ result = [err |-> "None", req |-> NoReq, decoded |-> FALSE,
               reply |-> NoReply]

\* One call, from its start to its return.
Call ==
  /\ calls < MaxCalls
  /\ calls' = calls + 1
  /\ \E r \in Requests : result' \in Failed(r) \cup Answered(r)

Spec == Init /\ [][Call]_cvars
=============================================================================
