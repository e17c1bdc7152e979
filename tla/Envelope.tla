------------------------------ MODULE Envelope ------------------------------
(***************************************************************************)
(* How an outcome of the API reaches a component of the web application:   *)
(* the exception filter gives it a status (apps/api/src/common/envelope),  *)
(* the network may lose or spoil it, apiFetch (apps/web/src/lib/api.ts)    *)
(* turns it into data or an error, and the component tells errors it may   *)
(* retry from errors it may not.                                           *)
(***************************************************************************)
EXTENDS Failures

\* What a handler ends with: a result, a ZodError of the validation pipe, an
\* HttpException, a Postgres unique violation, or anything else.
Refusals == {"zod", "notFound", "conflict", "unique"}
Breakdowns == {"unavailable", "unknown"}
Outcomes == {"done"} \union Refusals \union Breakdowns

\* AllExceptionsFilter.catch; 200 stands for the handler's 2xx.
Status(outcome) ==
    CASE outcome = "done" -> 200
      [] outcome = "zod" -> 400
      [] outcome = "notFound" -> 404
      [] outcome \in {"conflict", "unique"} -> 409
      [] outcome = "unavailable" -> 503
      [] outcome = "unknown" -> 500

\* httpStatusToErrorCode.
ErrorCode(status) ==
    CASE status = 404 -> "NOT_FOUND"
      [] status = 409 -> "CONFLICT"
      [] status = 429 -> "RATE_LIMITED"
      [] status >= 500 -> "INTERNAL"
      [] OTHER -> "VALIDATION_FAILED"

\* What may become of a reply on its way: it comes through, it never comes, it is
\* not JSON, or it is JSON of another shape.
Fates == {"whole", "lost", "garbled", "misshapen"}

\* ApiClientError.isRetryable, or an error that is no ApiClientError: a lost reply
\* has status 0, and response.json() throws a plain error.
Retryable(outcome, fate) ==
    \/ fate \in {"lost", "garbled"}
    \/ fate \in {"whole", "misshapen"} /\ Status(outcome) >= 500

\* apiFetch as its callers see it.  A 2xx body of the wrong shape is an error with
\* a 2xx status, which is not retryable.
Result(outcome, fate) ==
    IF outcome = "done" /\ fate = "whole" THEN "data"
    ELSE IF Retryable(outcome, fate) THEN "retryable"
    ELSE "refused"

=============================================================================
