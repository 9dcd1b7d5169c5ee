------------------------------- MODULE Errors -------------------------------
(***************************************************************************)
(* The error model of llms/error.go: what a call can return, and the two   *)
(* questions every middleware asks of a result, whether it is worth        *)
(* retrying and whether it is a local limiter's rejection.                 *)
(*                                                                         *)
(* An error is a record; its text, status code and provider are left out.  *)
(* "type" is the Go type errors.As finds in the chain, "cause" the context *)
(* error errors.Is finds below it.                                         *)
(***************************************************************************)

\* llms.ErrorKind.
ErrorKinds == {"config", "auth", "rate_limited", "timeout", "unavailable",
               "bad_request", "content_policy", "context_length", "unknown"}

\* The kinds for which (*ProviderError).Retryable returns false.
PermanentKinds == {"auth", "config", "bad_request", "content_policy",
                   "context_length"}

NoError == [type |-> "nil"]

ProviderErrors == [type : {"provider"}, kind : ErrorKinds]

\* A LimitError is permanent, or carries the context error that ended the
\* wait, or neither (MaxWait).
LimitErrors ==
    [type : {"limit"}, permanent : {FALSE},
     cause : {"none", "canceled", "deadline"}]
        \cup [type : {"limit"}, permanent : {TRUE}, cause : {"none"}]

LimitErr(permanent, cause) ==
    [type |-> "limit", permanent |-> permanent, cause |-> cause]

\* A failure of a limiter's backend, which FromBucket wraps and does not
\* classify.  It may hold a deadline, that of the backend's own OpTimeout: when
\* it is the wait that has ended, core.Wait makes a LimitError of it.
BackendErrors == [type : {"backend"}, cause : {"none", "deadline"}]

\* A bare context error, the breaker's own rejection, and any other error.
OtherErrors == [type : {"canceled", "deadline", "circuit_open", "plain"}]

CallErrors == ProviderErrors \cup LimitErrors \cup BackendErrors \cup OtherErrors

Results == CallErrors \cup {NoError}

-----------------------------------------------------------------------------

IsLimitError(e) == e.type = "limit"

\* The context error that errors.Is finds in an error that no adapter has
\* classified.
ContextErrorIn(e) ==
    CASE e.type \in {"canceled", "deadline"} -> e.type
      [] e.type \in {"limit", "backend"} -> e.cause
      [] OTHER -> "none"

\* llms.Retryable: a ProviderError by its kind, a LimitError unless it is
\* permanent or canceled, anything else never.
Retryable(e) ==
    \/ e.type = "provider" /\ e.kind \notin PermanentKinds
    \/ e.type = "limit" /\ ~e.permanent /\ e.cause # "canceled"

\* apierr.ClassifyOverflow, for the outcomes of an SDK call: a tripped
\* deadline becomes a retryable timeout, a cancellation passes as it is, and
\* an HTTP status maps to its kind; only a bad request may be an overflow.
Classify(raw) ==
    CASE raw.what = "nil"      -> NoError
      [] raw.what = "deadline" -> [type |-> "provider", kind |-> "timeout"]
      [] raw.what = "canceled" -> [type |-> "canceled"]
      [] raw.what = "opaque"   -> [type |-> "provider", kind |-> "unknown"]
      [] raw.what = "status"   ->
           [type |-> "provider",
            kind |-> IF raw.kind = "bad_request" /\ raw.overflow
                     THEN "context_length" ELSE raw.kind]
=============================================================================
