-------------------------------- MODULE OpsHttp --------------------------------
(***************************************************************************)
(* What a handler answers: the code that opsCode finds in an error, and    *)
(* the HTTP status that opsWriteError and the handlers give.  An error is  *)
(* named by its sentinel; "create_conflict" and "create_internal" are the  *)
(* errors that Create wraps, with the sentinel inside.                     *)
(***************************************************************************)

Refusal == {"policy", "invalid", "not_found", "conflict", "transition", "internal"}
Wrapped == {"create_conflict", "create_internal"}
Error == Refusal \cup Wrapped

\* The code of the wrapping OpsError comes before the sentinel inside.
opsCode(error) == IF error \in Wrapped THEN "create" ELSE error

opsWriteError(error) ==
  CASE opsCode(error) = "not_found"                          -> 404
    [] opsCode(error) = "conflict"                           -> 409
    [] opsCode(error) \in {"transition", "policy", "invalid"} -> 400
    [] OTHER                                                 -> 500

\* What the handlers of requests that succeeded give to opsJSON.
SuccessStatus == [create |-> 201, note |-> 201, transition |-> 200]

=============================================================================
