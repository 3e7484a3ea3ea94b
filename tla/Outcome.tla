------------------------------- MODULE Outcome -------------------------------
(***************************************************************************)
(* What one outbound HTTP attempt means for its delivery.                  *)
(*   src/outcome.go         DefaultClassifier                              *)
(*   src/sender.go          the AttemptResult and error Sender.Send returns*)
(*   src/postgres/store.go  normalizedOutcome, deliveryTransition          *)
(* A result is [outcome, code, retryAt]: Outcome (or "none", the zero      *)
(* value, when no HTTP exchange was classified), the code of the returned  *)
(* error ("nil" for none) and RetryAt.                                     *)
(***************************************************************************)
EXTENDS RetryPolicy, FiniteSets

CONSTANTS
    Statuses,      \* HTTP status codes the destination may answer with
    RetryAfters,   \* Retry-After values in ticks; a negative one stands for
                   \* an absent, malformed or already passed value
    SendErrors,    \* codes of errors Send returns before any HTTP exchange
    MaxRetryAfter  \* DefaultClassifier.MaxRetryAfter

ASSUME OutcomeAssumption ==
    /\ Statuses \subseteq Nat
    /\ RetryAfters \subseteq Int
    /\ SendErrors \subseteq STRING
    /\ MaxRetryAfter \in Nat

\* The strings of Outcome.String.
Outcomes == {"delivered", "retry", "permanent_failure", "disable_destination"}

TerminalStates == {"delivered", "permanent_failure", "disabled", "exhausted"}

RetryableStatus(status) == status \in {408, 425, 429} \/ status >= 500

\* DefaultClassifier.Classify for a response.
Classify(status) ==
    CASE status \in 200 .. 299       -> "delivered"
      [] status = 410                -> "disable_destination"
      [] RetryableStatus(status)     -> "retry"
      [] OTHER                       -> "permanent_failure"

\* Faulty: the header is not bounded.
UnboundedRetryAfter(t, header) == IF header < 0 THEN NoTime ELSE t + header

\* DefaultClassifier.retryAfter: bounded before it is added to the clock.
RetryAfterTime(t, header) ==
    IF header < 0 THEN NoTime
    ELSE t + (IF header > MaxRetryAfter THEN MaxRetryAfter ELSE header)

\* Send with a response.  An oversized or unreadable response body adds an
\* error code but keeps the outcome of the status.
ResponseResults(t) ==
    { [outcome |-> Classify(status),
       code    |-> code,
       retryAt |-> IF RetryableStatus(status) THEN RetryAfterTime(t, header)
                   ELSE NoTime] :
        status \in Statuses, header \in RetryAfters,
        code \in {"nil", "body_too_large", "response_read_failed"} }

\* Send whose HTTP exchange failed (timeout, reset, DNS, cancellation).
TransportFailure ==
    [outcome |-> "retry", code |-> "transport_failed", retryAt |-> NoTime]

\* Send that returned early, or panicked (code "internal", sendSafely).
EarlyErrors ==
    { [outcome |-> "none", code |-> code, retryAt |-> NoTime] :
        code \in SendErrors }

AttemptResults(t) == ResponseResults(t) \cup {TransportFailure} \cup EarlyErrors

NormalizedOutcome(result) ==
    IF result.outcome # "none" THEN result.outcome
    ELSE IF result.code \in {"invalid_message", "invalid_url",
                             "unsafe_destination", "invalid_configuration"}
         THEN "permanent_failure"
         ELSE "retry"

\* A Retry-After counts only when it is later than the policy.
LaterRetry(retryAt, policyNext) ==
    IF retryAt # NoTime /\ retryAt > policyNext THEN retryAt ELSE policyNext

\* Every (state, next attempt) deliveryTransition can return; the choice is
\* the jitter.
DeliveryTransitions(t, attempt, result) ==
    LET outcome == NormalizedOutcome(result) IN
    CASE outcome = "delivered" ->
            {[state |-> "delivered", next |-> NoTime]}
      [] outcome = "disable_destination" ->
            {[state |-> "disabled", next |-> NoTime]}
      [] outcome = "permanent_failure" ->
            {[state |-> "permanent_failure", next |-> NoTime]}
      [] outcome = "retry" /\ ~RetryAllowed(attempt) ->
            {[state |-> "exhausted", next |-> NoTime]}
      [] outcome = "retry" /\ RetryAllowed(attempt) ->
            { [state |-> "retry", next |-> LaterRetry(result.retryAt, policyNext)] :
                policyNext \in NextTimes(t, attempt) }
=============================================================================
