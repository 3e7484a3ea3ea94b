----------------------------- MODULE OutboxProofs -----------------------------
(***************************************************************************)
(* Safety of Outbox for every number of deliveries and sessions, every     *)
(* retry policy, lease, retention and clock bound; and that the outbox     *)
(* implements LeasedQueue.                                                 *)
(***************************************************************************)
EXTENDS Outbox, TLAPS

-----------------------------------------------------------------------------
(* The inductive invariant. *)

\* A delivery has attempts exactly when it has been claimed at least once.
Claimed ==
    \A d \in Delivery :
        deliveries[d].attempt_count > 0
          <=> deliveries[d].state \in {"in_flight", "retry"} \cup TerminalStates

\* Only an attempt the policy lets be retried leaves its delivery in retry.
RetriesAllowed ==
    \A d \in Delivery : deliveries[d].state = "retry"
                          => RetryAllowed(deliveries[d].attempt_count)

\* Clock readings are not ahead of the clock; handles name real attempts.
TxTyped ==
    \A s \in Session :
        /\ tx[s].op # "idle" => tx[s].now \in Nat /\ tx[s].now <= now
        /\ tx[s].op \in {"row_locked", "renewing", "completing", "attempt_written"}
             => tx[s].delivery \in Delivery /\ tx[s].attempt \in 1 .. MaxClaims

\* A retry time within the policy's and the Retry-After's limits.
InRetryWindow(t, n, next) ==
    /\ next >= t + Delay(n)
    /\ \/ next <= t + Delay(n) + (Delay(n) \div 5)
       \/ next <= t + ClockSkew + MaxRetryAfter

\* The transition a completion carries agrees with its outcome.
TxVerdict ==
    \A s \in Session :
        tx[s].op \in {"completing", "attempt_written"} =>
            /\ tx[s].state \in {"retry"} \cup TerminalStates
            /\ tx[s].outcome \in Outcomes
            /\ Agrees(tx[s].state, tx[s].outcome, tx[s].attempt)
            /\ tx[s].state = "retry" =>
                 /\ tx[s].next \in Nat
                 /\ RetryAllowed(tx[s].attempt)
                 /\ InRetryWindow(tx[s].now, tx[s].attempt, tx[s].next)
            /\ tx[s].state # "retry" => tx[s].next = NoTime

\* The row a claim has locked is still the due row it selected.
TxClaim ==
    /\ \A s \in Session : tx[s].op = "row_locked" =>
            /\ Due(tx[s].delivery, tx[s].now)
            /\ tx[s].attempt = deliveries[tx[s].delivery].attempt_count + 1
    /\ \A s, r \in Session :
            /\ tx[s].op = "row_locked" /\ tx[r].op = "row_locked"
            /\ tx[s].delivery = tx[r].delivery
            => s = r

\* An attempt is written by one completion at a time.
TxComplete ==
    /\ CompletionNeverHalf
    /\ \A s, r \in Session :
            /\ tx[s].op = "attempt_written" /\ tx[r].op = "attempt_written"
            /\ tx[s].delivery = tx[r].delivery
            => s = r

IInv ==
    /\ TypeOK
    /\ AttemptLedger
    /\ OutcomeAgreement
    /\ RetryBounded
    /\ Claimed
    /\ RetriesAllowed
    /\ TxTyped
    /\ TxVerdict
    /\ TxClaim
    /\ TxComplete

-----------------------------------------------------------------------------
(* Lemmas about the pure operators. *)

\* The policy's times: an integer delay, and a time in its jitter window.
LEMMA NextTimesWindow ==
    ASSUME NEW t \in Nat, NEW n, RetryAllowed(n), NEW next \in NextTimes(t, n)
    PROVE  /\ Delay(n) \in Nat
           /\ next \in Nat
           /\ next >= t + Delay(n)
           /\ next <= t + Delay(n) + (Delay(n) \div 5)
<1>1. Delay(n) \in Nat
  BY RetryAssumption DEF RetryAllowed
<1>2. (Delay(n) \div 5) \in Nat
  BY <1>1
<1>3. PICK jitter \in 0 .. (Delay(n) \div 5) : next = t + Delay(n) + jitter
  BY DEF NextTimes
<1> QED
  BY <1>1, <1>2, <1>3

\* Every attempt result has a normalised outcome, and a Retry-After bounded
\* by the time of the response.
LEMMA ResultType ==
    ASSUME NEW t \in Nat, NEW result \in AttemptResults(t)
    PROVE  /\ NormalizedOutcome(result) \in Outcomes
           /\ result.retryAt \in Int
           /\ result.retryAt # NoTime => result.retryAt \in Nat
           /\ result.retryAt <= t + MaxRetryAfter
<1>1. CASE result \in ResponseResults(t)
  <2>1. PICK status \in Statuses, header \in RetryAfters,
             code \in {"nil", "body_too_large", "response_read_failed"} :
          result = [outcome |-> Classify(status), code |-> code,
                    retryAt |-> IF RetryableStatus(status)
                                THEN RetryAfterTime(t, header) ELSE NoTime]
    BY <1>1 DEF ResponseResults
  <2>2. Classify(status) \in Outcomes
    BY DEF Classify, Outcomes
  <2>3. header \in Int /\ MaxRetryAfter \in Nat
    BY OutcomeAssumption
  <2>4. result.outcome # "none"
    BY <2>1, <2>2 DEF Outcomes
  <2>5. NormalizedOutcome(result) \in Outcomes
    BY <2>1, <2>2, <2>4 DEF NormalizedOutcome
  <2>6. /\ RetryAfterTime(t, header) \in Int
        /\ RetryAfterTime(t, header) # NoTime => RetryAfterTime(t, header) \in Nat
        /\ RetryAfterTime(t, header) <= t + MaxRetryAfter
    BY <2>3 DEF RetryAfterTime, NoTime
  <2>7. NoTime \in Int /\ NoTime <= t + MaxRetryAfter
    BY <2>3 DEF NoTime
  <2>8. result.retryAt = RetryAfterTime(t, header) \/ result.retryAt = NoTime
    BY <2>1
  <2> QED
    BY <2>5, <2>6, <2>7, <2>8
<1>2. CASE result \in {TransportFailure} \cup EarlyErrors
  <2>1. result.retryAt = NoTime /\ result.outcome \in {"retry", "none"}
    BY <1>2 DEF TransportFailure, EarlyErrors
  <2> QED
    BY <2>1, OutcomeAssumption DEF NormalizedOutcome, Outcomes, NoTime
<1> QED
  BY <1>1, <1>2 DEF AttemptResults

\* deliveryTransition: the state agrees with the outcome, only a permitted
\* retry has a next time, and that time is in the retry window.
LEMMA TransitionVerdict ==
    ASSUME NEW t \in Nat, NEW sent \in 0 .. (t + ClockSkew), NEW n \in Nat \ {0},
           NEW result \in AttemptResults(sent),
           NEW tr \in DeliveryTransitions(t, n, result)
    PROVE  /\ NormalizedOutcome(result) \in Outcomes
           /\ tr.state \in {"retry"} \cup TerminalStates
           /\ Agrees(tr.state, NormalizedOutcome(result), n)
           /\ tr.state = "retry" => /\ tr.next \in Nat
                                    /\ RetryAllowed(n)
                                    /\ InRetryWindow(t, n, tr.next)
           /\ tr.state # "retry" => tr.next = NoTime
<1>0. ClockSkew \in Nat /\ sent \in Nat /\ MaxRetryAfter \in Nat
  BY OutboxAssumption, OutcomeAssumption
<1>1. /\ NormalizedOutcome(result) \in Outcomes
      /\ result.retryAt \in Int
      /\ result.retryAt # NoTime => result.retryAt \in Nat
      /\ result.retryAt <= sent + MaxRetryAfter
  BY <1>0, ResultType
<1>2. CASE NormalizedOutcome(result) = "retry" /\ RetryAllowed(n)
  <2>1. PICK policyNext \in NextTimes(t, n) :
          tr = [state |-> "retry", next |-> LaterRetry(result.retryAt, policyNext)]
    BY <1>2 DEF DeliveryTransitions
  <2>2. /\ Delay(n) \in Nat
        /\ policyNext \in Nat
        /\ policyNext >= t + Delay(n)
        /\ policyNext <= t + Delay(n) + (Delay(n) \div 5)
    BY <1>2, NextTimesWindow
  <2>3. tr.next \in Nat /\ InRetryWindow(t, n, tr.next)
    <3>1. CASE result.retryAt # NoTime /\ result.retryAt > policyNext
      <4>1. tr.next = result.retryAt
        BY <2>1, <3>1 DEF LaterRetry
      <4>2. tr.next >= t + Delay(n) /\ tr.next <= t + ClockSkew + MaxRetryAfter
        BY <1>0, <1>1, <2>2, <3>1, <4>1
      <4> QED
        BY <1>1, <3>1, <4>1, <4>2 DEF InRetryWindow
    <3>2. CASE ~(result.retryAt # NoTime /\ result.retryAt > policyNext)
      <4>1. tr.next = policyNext
        BY <2>1, <3>2 DEF LaterRetry
      <4> QED
        BY <2>2, <4>1 DEF InRetryWindow
    <3> QED
      BY <3>1, <3>2
  <2>4. Retriable(n)
    BY <1>2 DEF RetryAllowed, Retriable
  <2> QED
    BY <1>1, <1>2, <2>1, <2>3, <2>4 DEF Agrees
<1>3. CASE ~(NormalizedOutcome(result) = "retry" /\ RetryAllowed(n))
  <2>1. Retriable(n) => RetryAllowed(n)
    BY DEF Retriable, RetryAllowed
  <2> QED
    BY <1>1, <1>3, <2>1 DEF DeliveryTransitions, Agrees, TerminalStates, Outcomes
<1> QED
  BY <1>2, <1>3
-----------------------------------------------------------------------------
(* The invariant holds initially and every step preserves it. *)

\* The tables, without the open transactions.
DataInv ==
    /\ AttemptLedger
    /\ OutcomeAgreement
    /\ RetryBounded
    /\ Claimed
    /\ RetriesAllowed

\* A step that changes neither the tables nor the clock preserves what the
\* invariant says of them.
LEMMA DataUnchanged ==
    ASSUME IInv, UNCHANGED << now, deliveries, attempts, claims >>
    PROVE  DataInv'
  BY DEF IInv, DataInv, AttemptLedger, OutcomeAgreement, RetryBounded,
         Claimed, RetriesAllowed

\* The empty database satisfies the invariant.
LEMMA InitInv == Init => IInv
<1> SUFFICES ASSUME Init PROVE IInv
  OBVIOUS
<1>0. MaxClaims \in Nat
  BY OutboxAssumption
<1>1. TypeOK
  BY <1>0 DEF Init, TypeOK, DeliveryRow, Transaction, Idle, Open, NewRow, Times,
              NoTime, DeliveryStates, TerminalStates, AttemptStatus, Handles
<1>2. AttemptLedger /\ OutcomeAgreement /\ RetryBounded /\ Claimed /\ RetriesAllowed
  BY <1>0 DEF Init, NewRow, AttemptLedger, OutcomeAgreement, RetryBounded,
              Claimed, RetriesAllowed, TerminalStates
<1>3. TxTyped /\ TxVerdict /\ TxClaim /\ TxComplete
  BY DEF Init, Idle, Open, TxTyped, TxVerdict, TxClaim, TxComplete, CompletionNeverHalf
<1> QED
  BY <1>1, <1>2, <1>3 DEF IInv

\* Every way a transaction ends without writing.
LEMMA IdleStep ==
    ASSUME IInv, NEW s \in Session, tx' = [tx EXCEPT ![s] = Idle],
           UNCHANGED << now, deliveries, attempts, claims >>
    PROVE  IInv'
<1>1. /\ tx'[s] = Idle
      /\ \A r \in Session : r # s => tx'[r] = tx[r]
  BY DEF IInv, TypeOK
<1>2. TypeOK'
  <2>1. Idle \in Transaction
    BY OutboxAssumption DEF Idle, Open, Transaction, Times, NoTime, DeliveryStates, Outcomes
  <2> QED
    BY <2>1 DEF IInv, TypeOK
<1>3. TxTyped'
  BY <1>1 DEF IInv, TxTyped, Idle, Open
<1>4. TxVerdict'
  BY <1>1 DEF IInv, TxVerdict, Idle, Open
<1>5. TxClaim'
  BY <1>1 DEF IInv, TxClaim, Idle, Open, Due
<1>6. TxComplete'
  BY <1>1 DEF IInv, TxComplete, CompletionNeverHalf, Completable, Idle, Open
<1> QED
  BY <1>2, <1>3, <1>4, <1>5, <1>6, DataUnchanged DEF IInv, DataInv

\* The clock moves: no part of the invariant reads it but as a bound.
LEMMA TickStep == IInv /\ Tick => IInv'
<1> SUFFICES ASSUME IInv, Tick PROVE IInv'
  OBVIOUS
<1>1. /\ now \in Nat /\ now' = now + 1
      /\ UNCHANGED << deliveries, attempts, claims, tx >>
  BY DEF IInv, TypeOK, Tick
<1>2. TypeOK'
  BY <1>1 DEF IInv, TypeOK
<1>3. DataInv'
  BY <1>1 DEF IInv, DataInv, AttemptLedger, OutcomeAgreement, RetryBounded,
              Claimed, RetriesAllowed
<1>4. TxTyped'
  BY <1>1 DEF IInv, TxTyped
<1>5. TxVerdict' /\ TxClaim' /\ TxComplete'
  BY <1>1 DEF IInv, TxVerdict, TxClaim, TxComplete, CompletionNeverHalf,
              Completable, Due
<1> QED
  BY <1>2, <1>3, <1>4, <1>5 DEF IInv, DataInv

\* A transaction that begins, or advances, without locking anything.
LEMMA OpenStep ==
    ASSUME IInv, NEW s \in Session, NEW t \in Transaction,
           tx' = [tx EXCEPT ![s] = t],
           UNCHANGED << now, deliveries, attempts, claims >>,
           t.now \in Nat, t.now <= now,
           t.op \in {"claiming", "renewing", "completing", "cleaning"},
           t.op \in {"renewing", "completing"}
             => t.delivery \in Delivery /\ t.attempt \in 1 .. MaxClaims,
           t.op = "completing" =>
             /\ t.state \in {"retry"} \cup TerminalStates
             /\ t.outcome \in Outcomes
             /\ Agrees(t.state, t.outcome, t.attempt)
             /\ t.state = "retry" => /\ t.next \in Nat
                                     /\ RetryAllowed(t.attempt)
                                     /\ InRetryWindow(t.now, t.attempt, t.next)
             /\ t.state # "retry" => t.next = NoTime
    PROVE  IInv'
<1>1. /\ tx'[s] = t
      /\ \A r \in Session : r # s => tx'[r] = tx[r]
  BY DEF IInv, TypeOK
<1>2. TypeOK'
  BY DEF IInv, TypeOK
<1>3. TxTyped'
  BY <1>1 DEF IInv, TxTyped
<1>4. TxVerdict'
  BY <1>1 DEF IInv, TxVerdict
<1>5. TxClaim'
  BY <1>1 DEF IInv, TxClaim, Due
<1>6. TxComplete'
  BY <1>1 DEF IInv, TxComplete, CompletionNeverHalf, Completable
<1> QED
  BY <1>2, <1>3, <1>4, <1>5, <1>6, DataUnchanged DEF IInv, DataInv

\* Every operation that opens a transaction: its clock reading and its
\* verdict are what the invariant asks of an open transaction.
LEMMA BeginStep ==
    ASSUME IInv, NEW s \in Session, Begin(s)
    PROVE  IInv'
<1>0. /\ now \in Nat /\ now <= now
      /\ claims \subseteq Delivery \X (1 .. MaxClaims)
      /\ MaxClaims \in Nat
  BY OutboxAssumption DEF IInv, TypeOK, Handles
<1>1. CASE ClaimBegin(s) \/ CleanupBegin(s)
  <2> DEFINE t(op) == Open(op, NoDelivery, 0, now)
  <2>1. PICK op \in {"claiming", "cleaning"} : tx' = [tx EXCEPT ![s] = t(op)]
    BY <1>1 DEF ClaimBegin, CleanupBegin
  <2>2. /\ t(op) \in Transaction
        /\ t(op).op = op
        /\ t(op).now = now
    BY <1>0 DEF Open, Transaction, Times, NoTime, DeliveryStates, Outcomes
  <2>3. UNCHANGED << now, deliveries, attempts, claims >>
    BY <1>1 DEF ClaimBegin, CleanupBegin
  <2> HIDE DEF t
  <2> QED
    BY <1>0, <2>1, <2>2, <2>3, OpenStep
<1>2. ASSUME NEW h \in claims, RenewBegin(s, h) PROVE IInv'
  <2> DEFINE t == Open("renewing", h[1], h[2], now)
  <2>1. tx' = [tx EXCEPT ![s] = t] /\ UNCHANGED << now, deliveries, attempts, claims >>
    BY <1>2 DEF RenewBegin
  <2>2. h[1] \in Delivery /\ h[2] \in 1 .. MaxClaims
    BY <1>0
  <2>3. /\ t \in Transaction
        /\ t.op = "renewing" /\ t.now = now
        /\ t.delivery = h[1] /\ t.attempt = h[2]
    BY <1>0, <2>2 DEF Open, Transaction, Times, NoTime, DeliveryStates, Outcomes
  <2> HIDE DEF t
  <2> QED
    BY <1>0, <2>1, <2>2, <2>3, OpenStep
<1>3. ASSUME NEW h \in claims, CompleteBegin(s, h) PROVE IInv'
  <2>a. PICK c \in Completions(now, h[2]) :
          tx' = [tx EXCEPT ![s] =
                    [op |-> "completing", delivery |-> h[1], attempt |-> h[2],
                     now |-> now, state |-> c.state, outcome |-> c.outcome,
                     next |-> c.next]]
    BY <1>3 DEF CompleteBegin
  <2>b. PICK sent \in 0 .. (now + ClockSkew) :
          \E result \in AttemptResults(sent) :
          \E tr \in DeliveryTransitions(now, h[2], result) :
            c = [state |-> tr.state, outcome |-> NormalizedOutcome(result),
                 next |-> tr.next]
    BY <2>a DEF Completions
  <2>c. PICK result \in AttemptResults(sent) :
          \E tr \in DeliveryTransitions(now, h[2], result) :
            c = [state |-> tr.state, outcome |-> NormalizedOutcome(result),
                 next |-> tr.next]
    BY <2>b
  <2>1. PICK tr \in DeliveryTransitions(now, h[2], result) :
            c = [state |-> tr.state, outcome |-> NormalizedOutcome(result),
                 next |-> tr.next]
    BY <2>c
  <2> DEFINE t == [op |-> "completing", delivery |-> h[1], attempt |-> h[2],
                   now |-> now, state |-> tr.state,
                   outcome |-> NormalizedOutcome(result), next |-> tr.next]
  <2>2. h[1] \in Delivery /\ h[2] \in 1 .. MaxClaims /\ h[2] \in Nat
    BY <1>0
  <2>3. /\ NormalizedOutcome(result) \in Outcomes
        /\ tr.state \in {"retry"} \cup TerminalStates
        /\ Agrees(tr.state, NormalizedOutcome(result), h[2])
        /\ tr.state = "retry" => /\ tr.next \in Nat
                                 /\ RetryAllowed(h[2])
                                 /\ InRetryWindow(now, h[2], tr.next)
        /\ tr.state # "retry" => tr.next = NoTime
    BY <1>0, <2>2, TransitionVerdict
  <2>4. tr.next \in Times /\ tr.state \in DeliveryStates
    BY <2>3 DEF Times, DeliveryStates
  <2>5. /\ t \in Transaction
        /\ t.op = "completing" /\ t.now = now
        /\ t.delivery = h[1] /\ t.attempt = h[2]
        /\ t.state = tr.state /\ t.next = tr.next
        /\ t.outcome = NormalizedOutcome(result)
    BY <1>0, <2>2, <2>3, <2>4 DEF Transaction, Times
  <2>6. UNCHANGED << now, deliveries, attempts, claims >>
    BY <1>3 DEF CompleteBegin
  <2>7. tx' = [tx EXCEPT ![s] = t]
    BY <2>a, <2>1
  <2> HIDE DEF t
  <2> QED
    BY <1>0, <2>2, <2>3, <2>5, <2>6, <2>7, OpenStep
<1> QED
  BY <1>1, <1>2, <1>3 DEF Begin

\* The row lock of a claim: SKIP LOCKED keeps it exclusive.
LEMMA ClaimSelectStep ==
    ASSUME IInv, NEW s \in Session, ClaimSelect(s)
    PROVE  IInv'
<1>1. PICK d \in Candidates(tx[s].now) :
        tx' = [tx EXCEPT ![s] = Open("row_locked", d,
                                     deliveries[d].attempt_count + 1, tx[s].now)]
  BY DEF ClaimSelect
<1>2. /\ tx[s].op = "claiming"
      /\ UNCHANGED << now, deliveries, attempts, claims >>
      /\ d \in Delivery /\ Due(d, tx[s].now) /\ ~RowLocked(d)
      /\ deliveries[d].attempt_count < MaxClaims
  BY <1>1 DEF ClaimSelect, Candidates
<1>3. /\ \A r \in Session : r # s => tx'[r] = tx[r]
      /\ tx'[s] = Open("row_locked", d, deliveries[d].attempt_count + 1, tx[s].now)
      /\ deliveries[d].attempt_count \in 0 .. MaxClaims
      /\ tx[s].now \in Nat
  BY <1>1, <1>2 DEF IInv, TypeOK, DeliveryRow, TxTyped
<1>4. deliveries[d].attempt_count + 1 \in 1 .. MaxClaims
  BY <1>2, <1>3, OutboxAssumption
<1>5. /\ tx'[s] \in Transaction
      /\ tx'[s].op = "row_locked" /\ tx'[s].delivery = d
      /\ tx'[s].now = tx[s].now
      /\ tx'[s].attempt = deliveries[d].attempt_count + 1
  BY <1>2, <1>3, <1>4
     DEF Open, Transaction, Times, NoTime, DeliveryStates, Outcomes
<1>6. TypeOK'
  <2>1. tx' = [tx EXCEPT ![s] = tx'[s]]
    BY <1>1, <1>3 DEF IInv, TypeOK
  <2>2. tx' \in [Session -> Transaction]
    BY <1>5, <2>1 DEF IInv, TypeOK
  <2> QED
    BY <1>2, <2>2 DEF IInv, TypeOK
<1>7. TxTyped'
  BY <1>2, <1>3, <1>4, <1>5 DEF IInv, TxTyped
<1>8. TxVerdict'
  BY <1>2, <1>3, <1>5 DEF IInv, TxVerdict
<1>9. TxClaim'
  BY <1>2, <1>3, <1>5 DEF IInv, TxClaim, Due, RowLocked
<1>10. TxComplete'
  BY <1>2, <1>3, <1>5 DEF IInv, TxComplete, CompletionNeverHalf, Completable
<1> QED
  BY <1>2, <1>6, <1>7, <1>8, <1>9, <1>10, DataUnchanged DEF IInv, DataInv

\* The attempt row of a completion: an open attempt is the current one of its
\* delivery, and the row lock keeps it exclusive.
LEMMA CompleteAttemptStep ==
    ASSUME IInv, NEW s \in Session, CompleteAttempt(s)
    PROVE  IInv'
<1> DEFINE d == tx[s].delivery
           n == tx[s].attempt
<1>1. /\ tx[s].op = "completing"
      /\ ~AttemptLocked(d, n)
      /\ UNCHANGED << now, deliveries, attempts, claims >>
  BY DEF CompleteAttempt
<1>2. CASE attempts[d][n] # "open"
  BY <1>1, <1>2, IdleStep DEF CompleteAttempt
<1>3. CASE attempts[d][n] = "open"
  <2>1. tx' = [tx EXCEPT ![s].op = "attempt_written"]
    BY <1>3 DEF CompleteAttempt
  <2>a. /\ tx'[s] = [tx[s] EXCEPT !.op = "attempt_written"]
        /\ tx[s] \in Transaction
    BY <2>1 DEF IInv, TypeOK
  <2>2. \A r \in Session : r # s => tx'[r] = tx[r]
    BY <2>1 DEF IInv, TypeOK
  <2>3. /\ tx'[s] \in Transaction
        /\ tx'[s].op = "attempt_written" /\ tx'[s].delivery = d
        /\ tx'[s].now = tx[s].now /\ tx'[s].attempt = n
        /\ tx'[s].state = tx[s].state /\ tx'[s].next = tx[s].next
        /\ tx'[s].outcome = tx[s].outcome
    BY <2>a DEF Transaction
  <2>4. d \in Delivery /\ n \in 1 .. MaxClaims
    BY <1>1 DEF IInv, TxTyped
  <2>5. Completable(d, n)
    BY <1>3, <2>4 DEF IInv, AttemptLedger, Completable
  <2>6. TypeOK'
    <3>1. tx' = [tx EXCEPT ![s] = tx'[s]]
      BY <2>1, <2>2 DEF IInv, TypeOK
    <3>2. tx' \in [Session -> Transaction]
      BY <2>3, <3>1 DEF IInv, TypeOK
    <3> QED
      BY <1>1, <3>2 DEF IInv, TypeOK
  <2>7. TxTyped'
    BY <1>1, <2>2, <2>3, <2>4 DEF IInv, TxTyped
  <2>8. TxVerdict'
    BY <1>1, <2>2, <2>3 DEF IInv, TxVerdict
  <2>9. TxClaim'
    BY <1>1, <2>2, <2>3 DEF IInv, TxClaim, Due
  <2>10. TxComplete'
    <3>1. CompletionNeverHalf'
      BY <1>1, <1>3, <2>2, <2>3, <2>5
         DEF IInv, TxComplete, CompletionNeverHalf, Completable
    <3>2. ASSUME NEW r \in Session, tx[r].op = "attempt_written",
                 tx[r].delivery = d
          PROVE  FALSE
      <4>1. Completable(d, tx[r].attempt)
        BY <3>2 DEF IInv, TxComplete, CompletionNeverHalf
      <4>2. tx[r].attempt = n
        BY <2>5, <4>1 DEF Completable
      <4> QED
        BY <1>1, <3>2, <4>2 DEF AttemptLocked
    <3> QED
      BY <2>2, <2>3, <3>1, <3>2 DEF IInv, TxComplete
  <2> QED
    BY <1>1, <2>6, <2>7, <2>8, <2>9, <2>10, DataUnchanged DEF IInv, DataInv
<1> QED
  BY <1>2, <1>3

-----------------------------------------------------------------------------
(* The statements that write rows. *)

\* A row as Enqueue and Cleanup write it.
LEMMA NewRowType ==
    ASSUME NEW state \in {"absent", "pending", "deleted"}, NEW t \in Times
    PROVE  NewRow(state, t) \in DeliveryRow
  BY OutboxAssumption DEF NewRow, DeliveryRow, DeliveryStates, Times, NoTime

\* A row as ClaimDelivery writes it.
LEMMA LeasedType ==
    ASSUME NEW row \in DeliveryRow, NEW n \in 1 .. MaxClaims, NEW t \in Nat
    PROVE  /\ Leased(row, n, t) \in DeliveryRow
           /\ Leased(row, n, t).state = "in_flight"
           /\ Leased(row, n, t).attempt_count = n
           /\ Leased(row, n, t).lease_expires_at = t + Lease
           /\ Leased(row, n, t).lease_expires_at # NoTime
           /\ Leased(row, n, t).completed_at = row.completed_at
<1>1. t + Lease \in Nat /\ n \in 0 .. MaxClaims
  BY OutboxAssumption
<1>2. t + Lease \in Times /\ t \in Times /\ "in_flight" \in DeliveryStates
  BY <1>1 DEF Times, DeliveryStates
<1>3. Leased(row, n, t) \in DeliveryRow
  BY <1>1, <1>2 DEF Leased, DeliveryRow
<1>4. /\ Leased(row, n, t).state = "in_flight"
      /\ Leased(row, n, t).attempt_count = n
      /\ Leased(row, n, t).lease_expires_at = t + Lease
      /\ Leased(row, n, t).completed_at = row.completed_at
  BY DEF Leased, DeliveryRow
<1> QED
  BY <1>1, <1>3, <1>4 DEF NoTime

\* A row as RenewDeliveryLease writes it.
LEMMA RenewedType ==
    ASSUME NEW row \in DeliveryRow, NEW t \in Nat
    PROVE  /\ Renewed(row, t) \in DeliveryRow
           /\ Renewed(row, t).state = row.state
           /\ Renewed(row, t).attempt_count = row.attempt_count
           /\ Renewed(row, t).lease_expires_at = t + Lease
           /\ Renewed(row, t).lease_expires_at # NoTime
           /\ Renewed(row, t).completed_at = row.completed_at
<1>1. t + Lease \in Nat
  BY OutboxAssumption
<1>2. t + Lease \in Times /\ t \in Times
  BY <1>1 DEF Times
<1>3. Renewed(row, t) \in DeliveryRow
  BY <1>2 DEF Renewed, DeliveryRow
<1>4. /\ Renewed(row, t).state = row.state
      /\ Renewed(row, t).attempt_count = row.attempt_count
      /\ Renewed(row, t).lease_expires_at = t + Lease
      /\ Renewed(row, t).completed_at = row.completed_at
  BY DEF Renewed, DeliveryRow
<1> QED
  BY <1>1, <1>3, <1>4 DEF NoTime

\* A row as CompleteDelivery writes it.
LEMMA CompletedType ==
    ASSUME NEW row \in DeliveryRow, NEW t \in Transaction, t.now \in Nat
    PROVE  /\ Completed(row, t) \in DeliveryRow
           /\ Completed(row, t).state = t.state
           /\ Completed(row, t).attempt_count = row.attempt_count
           /\ Completed(row, t).lease_expires_at = NoTime
           /\ Completed(row, t).updated_at = t.now
           /\ Completed(row, t).completed_at # NoTime <=> t.state \in TerminalStates
           /\ t.next # NoTime => Completed(row, t).next_attempt_at = t.next
<1> DEFINE next == IF t.next # NoTime THEN t.next ELSE row.next_attempt_at
           done == IF t.state \in TerminalStates THEN t.now ELSE NoTime
<1>1. /\ t.state \in DeliveryStates
      /\ t.now \in Times /\ NoTime \in Times /\ next \in Times /\ done \in Times
      /\ done # NoTime <=> t.state \in TerminalStates
      /\ t.next # NoTime => next = t.next
  BY DEF Transaction, DeliveryRow, Times, NoTime
<1>2. Completed(row, t) =
        [row EXCEPT !.state = t.state, !.next_attempt_at = next,
                    !.lease_expires_at = NoTime, !.updated_at = t.now,
                    !.completed_at = done]
  BY DEF Completed
<1> HIDE DEF next, done
<1>3. Completed(row, t) \in DeliveryRow
  BY <1>1, <1>2 DEF DeliveryRow
<1>4. /\ Completed(row, t).state = t.state
      /\ Completed(row, t).attempt_count = row.attempt_count
      /\ Completed(row, t).lease_expires_at = NoTime
      /\ Completed(row, t).updated_at = t.now
      /\ Completed(row, t).completed_at = done
      /\ Completed(row, t).next_attempt_at = next
  BY <1>2 DEF DeliveryRow
<1> QED
  BY <1>1, <1>3, <1>4

\* A new delivery has no attempts and belongs to no transaction.
LEMMA EnqueueStep ==
    ASSUME IInv, NEW d \in Delivery, Enqueue(d)
    PROVE  IInv'
<1> DEFINE row == NewRow("pending", now)
<1>1. /\ deliveries[d].state = "absent"
      /\ deliveries' = [deliveries EXCEPT ![d] = row]
      /\ UNCHANGED << now, attempts, claims, tx >>
      /\ now \in Times
  BY DEF Enqueue, IInv, TypeOK, Times
<1>2. row \in DeliveryRow
  BY <1>1, NewRowType
<1>3. /\ row.state = "pending" /\ row.attempt_count = 0
      /\ row.lease_expires_at = NoTime /\ row.completed_at = NoTime
  BY DEF NewRow
<1>4. /\ deliveries'[d] = row
      /\ \A e \in Delivery : e # d => deliveries'[e] = deliveries[e]
  BY <1>1 DEF IInv, TypeOK
<1> HIDE DEF row
<1>5. TypeOK'
  <2>1. deliveries' \in [Delivery -> DeliveryRow]
    BY <1>1, <1>2 DEF IInv, TypeOK
  <2>2. row.state \notin {"in_flight"} \cup TerminalStates
    BY <1>3 DEF TerminalStates
  <2> QED
    BY <1>1, <1>3, <1>4, <2>1, <2>2 DEF IInv, TypeOK
<1>6. deliveries[d].attempt_count = 0
  <2>1. deliveries[d].attempt_count \in 0 .. MaxClaims
    BY DEF IInv, TypeOK, DeliveryRow
  <2>2. ~(deliveries[d].attempt_count > 0)
    BY <1>1 DEF IInv, Claimed, TerminalStates
  <2> QED
    BY <2>1, <2>2, OutboxAssumption
<1>7. AttemptLedger'
  BY <1>1, <1>3, <1>4, <1>6 DEF IInv, AttemptLedger
<1>8. OutcomeAgreement'
  BY <1>1, <1>3, <1>4 DEF IInv, OutcomeAgreement
<1>9. RetryBounded' /\ RetriesAllowed'
  BY <1>1, <1>3, <1>4 DEF IInv, RetryBounded, RetriesAllowed
<1>10. Claimed'
  BY <1>1, <1>3, <1>4 DEF IInv, Claimed, TerminalStates
<1>11. TxTyped' /\ TxVerdict'
  BY <1>1 DEF IInv, TxTyped, TxVerdict
<1>12. TxClaim'
  <2>1. \A s \in Session : tx[s].op = "row_locked" => tx[s].delivery # d
    BY <1>1 DEF IInv, TxClaim, TxTyped, Due
  <2> QED
    BY <1>1, <1>4, <2>1 DEF IInv, TxClaim, TxTyped, Due
<1>13. TxComplete'
  <2>1. \A s \in Session : tx[s].op = "attempt_written" => tx[s].delivery # d
    BY <1>1 DEF IInv, TxComplete, CompletionNeverHalf, Completable
  <2> QED
    BY <1>1, <1>4, <2>1 DEF IInv, TxComplete, TxTyped, CompletionNeverHalf, Completable
<1> QED
  BY <1>5, <1>7, <1>8, <1>9, <1>10, <1>11, <1>12, <1>13 DEF IInv

\* What the row lock of a claim and the wait for the attempt's lock establish.
LEMMA ClaimHolds ==
    ASSUME IInv, NEW s \in Session, ClaimCommit(s)
    PROVE  /\ tx[s].delivery \in Delivery
           /\ tx[s].attempt \in 1 .. MaxClaims
           /\ tx[s].now \in Nat /\ tx[s].now <= now
           /\ Due(tx[s].delivery, tx[s].now)
           /\ tx[s].attempt = deliveries[tx[s].delivery].attempt_count + 1
           /\ deliveries[tx[s].delivery] \in DeliveryRow
           /\ deliveries[tx[s].delivery].attempt_count \in Nat
           /\ deliveries[tx[s].delivery].completed_at = NoTime
           /\ \A r \in Session \ {s} :
                tx[r].op \in {"row_locked", "attempt_written"}
                  => tx[r].delivery # tx[s].delivery
<1> DEFINE d == tx[s].delivery
<1>1. /\ tx[s].op = "row_locked" /\ ~ClaimWaits(s)
      /\ d \in Delivery
      /\ tx[s].attempt \in 1 .. MaxClaims
      /\ tx[s].now \in Nat /\ tx[s].now <= now
      /\ Due(d, tx[s].now)
      /\ tx[s].attempt = deliveries[d].attempt_count + 1
  BY DEF ClaimCommit, IInv, TxTyped, TxClaim
<1>2. deliveries[d] \in DeliveryRow
  BY <1>1 DEF IInv, TypeOK
<1>3. deliveries[d].attempt_count \in Nat
  BY <1>2, OutboxAssumption DEF DeliveryRow
<1>4. deliveries[d].state \notin TerminalStates
  BY <1>1 DEF Due, TerminalStates
<1>5. deliveries[d].completed_at = NoTime
  BY <1>1, <1>4 DEF IInv, TypeOK
<1>6. ASSUME NEW r \in Session \ {s}, tx[r].op = "row_locked" PROVE tx[r].delivery # d
  BY <1>1, <1>6 DEF IInv, TxClaim
<1>7. ASSUME NEW r \in Session \ {s}, tx[r].op = "attempt_written", tx[r].delivery = d
      PROVE  FALSE
  <2>1. Completable(d, tx[r].attempt)
    BY <1>7 DEF IInv, TxComplete, CompletionNeverHalf
  <2>2. AttemptLocked(d, deliveries[d].attempt_count)
    BY <1>7, <2>1 DEF Completable, AttemptLocked
  <2> QED
    BY <1>1, <2>1, <2>2 DEF ClaimWaits, Completable
<1> QED
  BY <1>1, <1>2, <1>3, <1>5, <1>6, <1>7

\* ExpireAbandoned touches the open attempt of a delivery in flight only.
LEMMA ExpireEffect ==
    ASSUME IInv, NEW d \in Delivery
    PROVE  /\ ExpireAbandoned(d) \in [1 .. MaxClaims -> AttemptStatus]
           /\ \A m \in 1 .. MaxClaims :
                ExpireAbandoned(d)[m] =
                    IF deliveries[d].state = "in_flight" /\ m = deliveries[d].attempt_count
                    THEN "lease_expired" ELSE attempts[d][m]
<1>1. /\ attempts[d] \in [1 .. MaxClaims -> AttemptStatus]
      /\ deliveries[d].attempt_count \in 0 .. MaxClaims
      /\ MaxClaims \in Nat
  BY OutboxAssumption DEF IInv, TypeOK, DeliveryRow
<1>2. "lease_expired" \in AttemptStatus
  BY DEF AttemptStatus
<1>3. CASE deliveries[d].state = "in_flight"
  <2>1. deliveries[d].attempt_count > 0
    BY <1>3 DEF IInv, Claimed
  <2>2. deliveries[d].attempt_count \in 1 .. MaxClaims
    BY <1>1, <2>1
  <2>3. attempts[d][deliveries[d].attempt_count] = "open"
    BY <1>3, <2>2 DEF IInv, AttemptLedger
  <2>4. ExpireAbandoned(d)
          = [attempts[d] EXCEPT ![deliveries[d].attempt_count] = "lease_expired"]
    BY <1>3, <2>1, <2>3 DEF ExpireAbandoned
  <2> QED
    BY <1>1, <1>2, <1>3, <2>2, <2>4
<1>4. CASE deliveries[d].state # "in_flight"
  BY <1>1, <1>4 DEF ExpireAbandoned
<1> QED
  BY <1>3, <1>4

\* The history after a claim: the new attempt is open, the abandoned one is
\* closed, the others are as before.
LEMMA ClaimEffect ==
    ASSUME IInv, NEW s \in Session, ClaimCommit(s)
    PROVE  LET d == tx[s].delivery
               n == tx[s].attempt IN
           /\ attempts' \in [Delivery -> [1 .. MaxClaims -> AttemptStatus]]
           /\ attempts'[d][n] = "open"
           /\ \A m \in 1 .. MaxClaims : m # n =>
                attempts'[d][m] =
                    IF deliveries[d].state = "in_flight" /\ m = deliveries[d].attempt_count
                    THEN "lease_expired" ELSE attempts[d][m]
           /\ \A e \in Delivery : e # d => attempts'[e] = attempts[e]
<1> DEFINE d == tx[s].delivery
           n == tx[s].attempt
<1>1. d \in Delivery /\ n \in 1 .. MaxClaims
  BY ClaimHolds
<1>2. attempts' = [attempts EXCEPT ![d] = [ExpireAbandoned(d) EXCEPT ![n] = "open"]]
  BY DEF ClaimCommit
<1>3. /\ attempts \in [Delivery -> [1 .. MaxClaims -> AttemptStatus]]
      /\ "open" \in AttemptStatus
  BY DEF IInv, TypeOK, AttemptStatus
<1>4. /\ ExpireAbandoned(d) \in [1 .. MaxClaims -> AttemptStatus]
      /\ \A m \in 1 .. MaxClaims :
                ExpireAbandoned(d)[m] =
                    IF deliveries[d].state = "in_flight" /\ m = deliveries[d].attempt_count
                    THEN "lease_expired" ELSE attempts[d][m]
  BY <1>1, ExpireEffect
<1> HIDE DEF d, n
<1>5. /\ attempts' \in [Delivery -> [1 .. MaxClaims -> AttemptStatus]]
      /\ attempts'[d] = [ExpireAbandoned(d) EXCEPT ![n] = "open"]
      /\ \A e \in Delivery : e # d => attempts'[e] = attempts[e]
  BY <1>1, <1>2, <1>3, <1>4
<1>6. attempts'[d][n] = "open" /\ \A m \in 1 .. MaxClaims :
            m # n => attempts'[d][m] = ExpireAbandoned(d)[m]
  BY <1>1, <1>4, <1>5
<1> QED
  BY <1>4, <1>5, <1>6 DEF d, n

\* A claim closes the abandoned attempt and opens the next.
LEMMA ClaimCommitStep ==
    ASSUME IInv, NEW s \in Session, ClaimCommit(s)
    PROVE  IInv'
<1> DEFINE d == tx[s].delivery
           n == tx[s].attempt
           row == Leased(deliveries[d], n, tx[s].now)
<1>1. /\ deliveries' = [deliveries EXCEPT ![d] = row]
      /\ claims' = claims \cup {<< d, n >>}
      /\ tx' = [tx EXCEPT ![s] = Idle]
      /\ now' = now
  BY DEF ClaimCommit
<1>2. /\ d \in Delivery /\ n \in 1 .. MaxClaims
      /\ tx[s].now \in Nat
      /\ Due(d, tx[s].now)
      /\ n = deliveries[d].attempt_count + 1
      /\ deliveries[d] \in DeliveryRow
      /\ deliveries[d].attempt_count \in Nat
      /\ deliveries[d].completed_at = NoTime
      /\ \A r \in Session \ {s} :
           tx[r].op \in {"row_locked", "attempt_written"} => tx[r].delivery # d
  BY ClaimHolds
<1>3. /\ attempts' \in [Delivery -> [1 .. MaxClaims -> AttemptStatus]]
      /\ attempts'[d][n] = "open"
      /\ \A m \in 1 .. MaxClaims : m # n =>
           attempts'[d][m] =
             IF deliveries[d].state = "in_flight" /\ m = deliveries[d].attempt_count
             THEN "lease_expired" ELSE attempts[d][m]
      /\ \A e \in Delivery : e # d => attempts'[e] = attempts[e]
  BY ClaimEffect
<1>4. /\ row \in DeliveryRow
      /\ row.state = "in_flight" /\ row.attempt_count = n
      /\ row.lease_expires_at # NoTime
      /\ row.completed_at = NoTime
  <2>1. /\ row \in DeliveryRow
        /\ row.state = "in_flight" /\ row.attempt_count = n
        /\ row.lease_expires_at # NoTime
        /\ row.completed_at = deliveries[d].completed_at
    <3>1. deliveries[d] \in DeliveryRow /\ n \in 1 .. MaxClaims /\ tx[s].now \in Nat
      BY <1>2
    <3> HIDE DEF d, n
    <3> QED
      BY <3>1, LeasedType
  <2> QED
    BY <1>2, <2>1
<1> HIDE DEF d, n, row
<1>5. /\ deliveries' \in [Delivery -> DeliveryRow]
      /\ deliveries'[d] = row
      /\ \A e \in Delivery : e # d => deliveries'[e] = deliveries[e]
  BY <1>1, <1>2, <1>4 DEF IInv, TypeOK
<1>6. /\ tx'[s] = Idle /\ Idle \in Transaction
      /\ \A r \in Session : r # s => tx'[r] = tx[r]
      /\ tx' \in [Session -> Transaction]
  <2>1. Idle \in Transaction
    BY OutboxAssumption DEF Idle, Open, Transaction, Times, NoTime, DeliveryStates, Outcomes
  <2> QED
    BY <1>1, <2>1 DEF IInv, TypeOK
<1>7. TypeOK'
  <2>1. << d, n >> \in Handles
    BY <1>2 DEF Handles
  <2>2. "in_flight" \notin TerminalStates
    BY DEF TerminalStates
  <2> QED
    BY <1>1, <1>3, <1>4, <1>5, <1>6, <2>1, <2>2 DEF IInv, TypeOK
<1>8. AttemptLedger'
  <2>1. ASSUME NEW m \in 1 .. MaxClaims
        PROVE  /\ attempts'[d][m] # "none" <=> m <= n
               /\ attempts'[d][m] = "open" <=> m = n
    <3>1. /\ attempts[d][m] # "none" <=> m <= deliveries[d].attempt_count
          /\ attempts[d][m] = "open" <=> /\ deliveries[d].state = "in_flight"
                                         /\ m = deliveries[d].attempt_count
      BY <1>2 DEF IInv, AttemptLedger
    <3>2. m # n => attempts'[d][m] =
             IF deliveries[d].state = "in_flight" /\ m = deliveries[d].attempt_count
             THEN "lease_expired" ELSE attempts[d][m]
      BY <1>3
    <3>3. m \in Int /\ MaxClaims \in Nat
      BY OutboxAssumption
    <3> QED
      BY <1>2, <1>3, <3>1, <3>2, <3>3
  <2> QED
    BY <1>3, <1>4, <1>5, <2>1 DEF IInv, AttemptLedger
<1>9. OutcomeAgreement'
  <2>1. ASSUME NEW m \in 1 .. (n - 1) PROVE Followed(attempts'[d][m], m)
    <3>1. /\ m \in 1 .. MaxClaims /\ m # n /\ m <= deliveries[d].attempt_count
          /\ deliveries[d].attempt_count > 0
          /\ m # deliveries[d].attempt_count => m \in 1 .. (deliveries[d].attempt_count - 1)
      BY <1>2, OutboxAssumption
    <3>2. /\ Agrees(deliveries[d].state, attempts[d][deliveries[d].attempt_count],
                    deliveries[d].attempt_count)
          /\ \A k \in 1 .. (deliveries[d].attempt_count - 1) :
               Followed(attempts[d][k], k)
      BY <1>2, <3>1 DEF IInv, OutcomeAgreement
    <3>3. deliveries[d].state \in {"in_flight", "retry", "pending"}
      BY <1>2 DEF Due
    <3>4. CASE m = deliveries[d].attempt_count
      BY <1>3, <3>1, <3>2, <3>3, <3>4 DEF Agrees, Followed
    <3>5. CASE m # deliveries[d].attempt_count
      BY <1>3, <3>1, <3>2, <3>5
    <3> QED
      BY <3>4, <3>5
  <2>2. Agrees("in_flight", "open", n)
    BY DEF Agrees
  <2> QED
    BY <1>3, <1>4, <1>5, <2>1, <2>2 DEF IInv, OutcomeAgreement
<1>10. RetryBounded' /\ RetriesAllowed'
  BY <1>4, <1>5 DEF IInv, RetryBounded, RetriesAllowed
<1>11. Claimed'
  BY <1>2, <1>4, <1>5, OutboxAssumption DEF IInv, Claimed
<1>12. TxTyped' /\ TxVerdict'
  BY <1>1, <1>6 DEF IInv, TxTyped, TxVerdict, Idle, Open
<1>13. TxClaim'
  BY <1>2, <1>5, <1>6 DEF IInv, TxClaim, TxTyped, Due, Idle, Open
<1>14. TxComplete'
  <2>1. ASSUME NEW r \in Session, tx'[r].op = "attempt_written"
        PROVE  /\ r # s /\ tx'[r] = tx[r]
               /\ tx[r].delivery \in Delivery /\ tx[r].delivery # d
    BY <1>2, <1>6, <2>1 DEF IInv, TxTyped, Idle, Open
  <2>2. CompletionNeverHalf'
    BY <1>3, <1>5, <2>1 DEF IInv, TxComplete, CompletionNeverHalf, Completable
  <2> QED
    BY <2>1, <2>2 DEF IInv, TxComplete
<1> QED
  BY <1>7, <1>8, <1>9, <1>10, <1>11, <1>12, <1>13, <1>14 DEF IInv

\* A renewal only moves the lease of a delivery in flight.
LEMMA RenewExecStep ==
    ASSUME IInv, NEW s \in Session, RenewExec(s)
    PROVE  IInv'
<1> DEFINE d == tx[s].delivery
           row == Renewed(deliveries[d], tx[s].now)
<1>1. /\ tx[s].op = "renewing" /\ ~RowLocked(d)
      /\ tx' = [tx EXCEPT ![s] = Idle]
      /\ UNCHANGED << now, attempts, claims >>
      /\ d \in Delivery /\ tx[s].now \in Nat
  BY DEF RenewExec, IInv, TxTyped
<1>2. CASE ~Renewable(d, tx[s].attempt, tx[s].now)
  BY <1>1, <1>2, IdleStep DEF RenewExec
<1>3. CASE Renewable(d, tx[s].attempt, tx[s].now)
  <2>1. /\ deliveries' = [deliveries EXCEPT ![d] = row]
        /\ deliveries[d].state = "in_flight"
        /\ deliveries[d] \in DeliveryRow
    BY <1>1, <1>3 DEF RenewExec, Renewable, IInv, TypeOK
  <2>2. /\ row \in DeliveryRow
        /\ row.state = "in_flight"
        /\ row.attempt_count = deliveries[d].attempt_count
        /\ row.lease_expires_at # NoTime
        /\ row.completed_at = deliveries[d].completed_at
    BY <1>1, <2>1, RenewedType
  <2> HIDE DEF d, row
  <2>3. /\ deliveries' \in [Delivery -> DeliveryRow]
        /\ deliveries'[d] = row
        /\ \A e \in Delivery : e # d => deliveries'[e] = deliveries[e]
    BY <1>1, <2>1, <2>2 DEF IInv, TypeOK
  <2>4. /\ tx'[s] = Idle
        /\ \A r \in Session : r # s => tx'[r] = tx[r]
        /\ tx' \in [Session -> Transaction]
    <3>1. Idle \in Transaction
      BY OutboxAssumption DEF Idle, Open, Transaction, Times, NoTime, DeliveryStates, Outcomes
    <3> QED
      BY <1>1, <3>1 DEF IInv, TypeOK
  <2>5. \A e \in Delivery : /\ deliveries'[e].state = deliveries[e].state
                            /\ deliveries'[e].attempt_count = deliveries[e].attempt_count
                            /\ deliveries'[e].completed_at = deliveries[e].completed_at
    BY <2>1, <2>2, <2>3
  <2>6. TypeOK'
    <3>1. \A e \in Delivery : deliveries'[e].lease_expires_at # NoTime
                                <=> deliveries'[e].state = "in_flight"
      BY <2>1, <2>2, <2>3 DEF IInv, TypeOK
    <3> QED
      BY <1>1, <2>3, <2>4, <2>5, <3>1 DEF IInv, TypeOK
  <2>7. AttemptLedger' /\ Claimed' /\ RetriesAllowed'
    BY <1>1, <2>5 DEF IInv, AttemptLedger, Claimed, RetriesAllowed
  <2>8. OutcomeAgreement'
    BY <1>1, <2>5 DEF IInv, OutcomeAgreement
  <2>9. RetryBounded'
    BY <2>1, <2>2, <2>3 DEF IInv, RetryBounded
  <2>10. TxTyped' /\ TxVerdict'
    BY <1>1, <2>4 DEF IInv, TxTyped, TxVerdict, Idle, Open
  <2>11. TxClaim'
    <3>1. \A r \in Session : tx[r].op = "row_locked" => tx[r].delivery # d
      BY <1>1 DEF RowLocked
    <3> QED
      BY <1>1, <2>3, <2>4, <3>1 DEF IInv, TxClaim, TxTyped, Due, Idle, Open
  <2>12. TxComplete'
    BY <1>1, <2>4, <2>5
       DEF IInv, TxComplete, TxTyped, CompletionNeverHalf, Completable, Idle, Open
  <2> QED
    BY <2>6, <2>7, <2>8, <2>9, <2>10, <2>11, <2>12 DEF IInv
<1> QED
  BY <1>2, <1>3

\* The row lock of the attempt is enough: the delivery row always matches.
LEMMA CompleteHolds ==
    ASSUME IInv, NEW s \in Session, CompleteCommit(s)
    PROVE  LET d == tx[s].delivery
               n == tx[s].attempt IN
           /\ d \in Delivery /\ n \in 1 .. MaxClaims
           /\ tx[s] \in Transaction /\ tx[s].now \in Nat
           /\ deliveries[d] \in DeliveryRow
           /\ deliveries[d].state = "in_flight" /\ deliveries[d].attempt_count = n
           /\ attempts[d][n] = "open"
           /\ deliveries' = [deliveries EXCEPT ![d] = Completed(deliveries[d], tx[s])]
           /\ attempts' = [attempts EXCEPT ![d] = [attempts[d] EXCEPT ![n] = tx[s].outcome]]
           /\ tx' = [tx EXCEPT ![s] = Idle]
           /\ UNCHANGED << now, claims >>
           /\ \A r \in Session \ {s} :
                tx[r].op \in {"row_locked", "attempt_written"} => tx[r].delivery # d
<1> DEFINE d == tx[s].delivery
           n == tx[s].attempt
<1>1. /\ tx[s].op = "attempt_written" /\ ~RowLocked(d)
      /\ d \in Delivery /\ n \in 1 .. MaxClaims
      /\ tx[s] \in Transaction /\ tx[s].now \in Nat
      /\ deliveries[d] \in DeliveryRow
  BY DEF CompleteCommit, IInv, TypeOK, TxTyped
<1>2. Completable(d, n) /\ attempts[d][n] = "open"
  BY <1>1 DEF IInv, TxComplete, CompletionNeverHalf
<1>3. /\ deliveries' = [deliveries EXCEPT ![d] = Completed(deliveries[d], tx[s])]
      /\ attempts' = [attempts EXCEPT ![d] = [attempts[d] EXCEPT ![n] = tx[s].outcome]]
      /\ tx' = [tx EXCEPT ![s] = Idle]
      /\ UNCHANGED << now, claims >>
  BY <1>1, <1>2 DEF CompleteCommit
<1>4. \A r \in Session \ {s} :
        tx[r].op \in {"row_locked", "attempt_written"} => tx[r].delivery # d
  BY <1>1 DEF IInv, TxComplete, RowLocked
<1> QED
  BY <1>1, <1>2, <1>3, <1>4 DEF Completable

\* A completion finishes the open attempt and its delivery together.
LEMMA CompleteCommitStep ==
    ASSUME IInv, NEW s \in Session, CompleteCommit(s)
    PROVE  IInv'
<1> DEFINE d == tx[s].delivery
           n == tx[s].attempt
           row == Completed(deliveries[d], tx[s])
           history == [attempts[d] EXCEPT ![n] = tx[s].outcome]
<1>1. /\ d \in Delivery /\ n \in 1 .. MaxClaims
      /\ tx[s] \in Transaction /\ tx[s].now \in Nat
      /\ deliveries[d] \in DeliveryRow
      /\ deliveries[d].state = "in_flight" /\ deliveries[d].attempt_count = n
      /\ attempts[d][n] = "open"
      /\ deliveries' = [deliveries EXCEPT ![d] = row]
      /\ attempts' = [attempts EXCEPT ![d] = history]
      /\ tx' = [tx EXCEPT ![s] = Idle]
      /\ UNCHANGED << now, claims >>
      /\ \A r \in Session \ {s} :
           tx[r].op \in {"row_locked", "attempt_written"} => tx[r].delivery # d
  BY CompleteHolds
<1>2. /\ row \in DeliveryRow
      /\ row.state = tx[s].state
      /\ row.attempt_count = n
      /\ row.lease_expires_at = NoTime
      /\ row.updated_at = tx[s].now
      /\ row.completed_at # NoTime <=> tx[s].state \in TerminalStates
      /\ tx[s].next # NoTime => row.next_attempt_at = tx[s].next
  BY <1>1, CompletedType
<1>3. /\ tx[s].state \in {"retry"} \cup TerminalStates
      /\ tx[s].outcome \in Outcomes
      /\ Agrees(tx[s].state, tx[s].outcome, n)
      /\ tx[s].state = "retry" =>
           /\ tx[s].next \in Nat
           /\ RetryAllowed(n)
           /\ InRetryWindow(tx[s].now, n, tx[s].next)
  BY DEF CompleteCommit, IInv, TxVerdict
<1>4. /\ attempts[d] \in [1 .. MaxClaims -> AttemptStatus]
      /\ tx[s].outcome \in AttemptStatus
      /\ tx[s].outcome \notin {"none", "open"}
  BY <1>1, <1>3 DEF IInv, TypeOK, AttemptStatus, Outcomes
<1>5. /\ history \in [1 .. MaxClaims -> AttemptStatus]
      /\ history[n] = tx[s].outcome
      /\ \A m \in 1 .. MaxClaims : m # n => history[m] = attempts[d][m]
  BY <1>1, <1>4
<1> HIDE DEF d, n, row, history
<1>6. /\ deliveries' \in [Delivery -> DeliveryRow]
      /\ deliveries'[d] = row
      /\ \A e \in Delivery : e # d => deliveries'[e] = deliveries[e]
  BY <1>1, <1>2 DEF IInv, TypeOK
<1>7. /\ attempts' \in [Delivery -> [1 .. MaxClaims -> AttemptStatus]]
      /\ attempts'[d] = history
      /\ \A e \in Delivery : e # d => attempts'[e] = attempts[e]
  BY <1>1, <1>5 DEF IInv, TypeOK
<1>8. /\ tx'[s] = Idle
      /\ \A r \in Session : r # s => tx'[r] = tx[r]
      /\ tx' \in [Session -> Transaction]
  <2>1. Idle \in Transaction
    BY OutboxAssumption DEF Idle, Open, Transaction, Times, NoTime, DeliveryStates, Outcomes
  <2> QED
    BY <1>1, <2>1 DEF IInv, TypeOK
<1>9. tx[s].state # "in_flight"
  BY <1>3 DEF TerminalStates
<1>10. TypeOK'
  BY <1>1, <1>2, <1>6, <1>7, <1>8, <1>9 DEF IInv, TypeOK
<1>11. AttemptLedger'
  <2>1. ASSUME NEW m \in 1 .. MaxClaims
        PROVE  history[m] # "open" /\ (history[m] # "none" <=> m <= n)
    <3>1. /\ attempts[d][m] # "none" <=> m <= n
          /\ attempts[d][m] = "open" <=> m = n
      BY <1>1 DEF IInv, AttemptLedger
    <3>2. n <= n /\ m \in Int
      BY <1>1, OutboxAssumption
    <3> QED
      BY <1>4, <1>5, <3>1, <3>2
  <2> QED
    BY <1>2, <1>6, <1>7, <1>9, <2>1 DEF IInv, AttemptLedger
<1>12. OutcomeAgreement'
  <2>1. \A m \in 1 .. (n - 1) : Followed(history[m], m)
    <3>1. n > 0 /\ \A m \in 1 .. (n - 1) : m \in 1 .. MaxClaims /\ m # n
      BY <1>1, OutboxAssumption
    <3>2. \A m \in 1 .. (n - 1) : Followed(attempts[d][m], m)
      BY <1>1, <3>1 DEF IInv, OutcomeAgreement
    <3> QED
      BY <1>5, <3>1, <3>2
  <2>2. Agrees(row.state, history[n], n)
    BY <1>2, <1>3, <1>5
  <2> QED
    BY <1>2, <1>6, <1>7, <2>1, <2>2 DEF IInv, OutcomeAgreement
<1>13. RetryBounded'
  <2>1. row.state = "retry" =>
          /\ row.next_attempt_at >= row.updated_at + Delay(n)
          /\ \/ row.next_attempt_at <= row.updated_at + Delay(n) + (Delay(n) \div 5)
             \/ row.next_attempt_at <= row.updated_at + ClockSkew + MaxRetryAfter
    BY <1>2, <1>3 DEF InRetryWindow, NoTime
  <2> QED
    BY <1>2, <1>6, <2>1 DEF IInv, RetryBounded
<1>14. Claimed' /\ RetriesAllowed'
  <2>1. n > 0
    BY <1>1, OutboxAssumption
  <2> QED
    BY <1>2, <1>3, <1>6, <2>1 DEF IInv, Claimed, RetriesAllowed
<1>15. TxTyped' /\ TxVerdict'
  BY <1>1, <1>8 DEF IInv, TxTyped, TxVerdict, Idle, Open
<1>16. TxClaim'
  BY <1>1, <1>6, <1>8 DEF IInv, TxClaim, TxTyped, Due, Idle, Open
<1>17. TxComplete'
  <2>1. ASSUME NEW r \in Session, tx'[r].op = "attempt_written"
        PROVE  /\ r # s /\ tx'[r] = tx[r]
               /\ tx[r].delivery \in Delivery /\ tx[r].delivery # d
    BY <1>1, <1>8, <2>1 DEF IInv, TxTyped, Idle, Open
  <2>2. CompletionNeverHalf'
    BY <1>6, <1>7, <2>1 DEF IInv, TxComplete, CompletionNeverHalf, Completable
  <2> QED
    BY <2>1, <2>2 DEF IInv, TxComplete
<1> QED
  BY <1>10, <1>11, <1>12, <1>13, <1>14, <1>15, <1>16, <1>17 DEF IInv

\* What a cleanup removes: terminal rows past their enabled retention.
LEMMA CleanupHolds ==
    ASSUME IInv, NEW s \in Session, CleanupCommit(s)
    PROVE  \E removed \in SUBSET Delivery :
             /\ \A d \in removed :
                  /\ deliveries[d].state \in TerminalStates
                  /\ Retention(deliveries[d].state) > 0
                  /\ deliveries[d].completed_at + Retention(deliveries[d].state) < now
             /\ deliveries' = [d \in Delivery |->
                    IF d \in removed THEN NewRow("deleted", NoTime) ELSE deliveries[d]]
             /\ attempts' = [d \in Delivery |->
                    IF d \in removed THEN [n \in 1 .. MaxClaims |-> "none"]
                    ELSE attempts[d]]
<1>1. PICK delivered \in Batches(Expired({"delivered"}, DeliveredRetention, tx[s].now)),
           failed \in Batches(Expired(FailedStates, FailedRetention, tx[s].now)) :
        /\ deliveries' = [d \in Delivery |->
                IF d \in delivered \cup failed THEN NewRow("deleted", NoTime)
                ELSE deliveries[d]]
        /\ attempts' = [d \in Delivery |->
                IF d \in delivered \cup failed THEN [n \in 1 .. MaxClaims |-> "none"]
                ELSE attempts[d]]
  BY DEF CleanupCommit
<1>2. /\ delivered \subseteq Expired({"delivered"}, DeliveredRetention, tx[s].now)
      /\ failed \subseteq Expired(FailedStates, FailedRetention, tx[s].now)
  BY DEF Batches
<1>3. /\ tx[s].now \in Nat /\ now \in Nat /\ tx[s].now <= now
      /\ DeliveredRetention \in Nat /\ FailedRetention \in Nat
      /\ \A d \in Delivery : deliveries[d].completed_at \in Int
  BY OutboxAssumption DEF CleanupCommit, IInv, TxTyped, TypeOK, DeliveryRow, Times, NoTime
<1>4. ASSUME NEW d \in delivered \cup failed
      PROVE  /\ d \in Delivery
             /\ deliveries[d].state \in TerminalStates
             /\ Retention(deliveries[d].state) > 0
             /\ deliveries[d].completed_at + Retention(deliveries[d].state) < now
  <2>1. CASE d \in delivered
    <3>1. /\ d \in Delivery /\ deliveries[d].state = "delivered"
          /\ DeliveredRetention > 0
          /\ deliveries[d].completed_at < tx[s].now - DeliveredRetention
      BY <1>2, <2>1 DEF Expired
    <3>2. Retention(deliveries[d].state) = DeliveredRetention
      BY <3>1 DEF Retention
    <3> QED
      BY <1>3, <3>1, <3>2 DEF TerminalStates
  <2>2. CASE d \in failed
    <3>1. /\ d \in Delivery /\ deliveries[d].state \in FailedStates
          /\ FailedRetention > 0
          /\ deliveries[d].completed_at < tx[s].now - FailedRetention
      BY <1>2, <2>2 DEF Expired
    <3>2. Retention(deliveries[d].state) = FailedRetention
      BY <3>1 DEF Retention, FailedStates
    <3> QED
      BY <1>3, <3>1, <3>2 DEF FailedStates
  <2> QED
    BY <2>1, <2>2
<1> QED
  BY <1>1, <1>4

\* A cleanup removes terminal deliveries with their attempts, and no open
\* transaction refers to one.
LEMMA CleanupCommitStep ==
    ASSUME IInv, NEW s \in Session, CleanupCommit(s)
    PROVE  IInv'
<1>1. PICK removed \in SUBSET Delivery :
             /\ \A d \in removed :
                  /\ deliveries[d].state \in TerminalStates
                  /\ Retention(deliveries[d].state) > 0
                  /\ deliveries[d].completed_at + Retention(deliveries[d].state) < now
             /\ deliveries' = [d \in Delivery |->
                    IF d \in removed THEN NewRow("deleted", NoTime) ELSE deliveries[d]]
             /\ attempts' = [d \in Delivery |->
                    IF d \in removed THEN [n \in 1 .. MaxClaims |-> "none"]
                    ELSE attempts[d]]
  BY CleanupHolds
<1> DEFINE gone == NewRow("deleted", NoTime)
           none == [n \in 1 .. MaxClaims |-> "none"]
<1>2. /\ gone \in DeliveryRow
      /\ gone.state = "deleted" /\ gone.attempt_count = 0
      /\ gone.lease_expires_at = NoTime /\ gone.completed_at = NoTime
      /\ gone.state \notin TerminalStates
  <2>1. NoTime \in Times
    BY DEF Times
  <2> QED
    BY <2>1, NewRowType DEF NewRow, TerminalStates
<1>3. /\ none \in [1 .. MaxClaims -> AttemptStatus]
      /\ \A n \in 1 .. MaxClaims : none[n] = "none"
  BY DEF AttemptStatus
<1> HIDE DEF gone, none
<1>4. \A d \in Delivery :
        /\ deliveries'[d] = IF d \in removed THEN gone ELSE deliveries[d]
        /\ attempts'[d] = IF d \in removed THEN none ELSE attempts[d]
  BY <1>1 DEF gone, none
<1>5. /\ tx[s].op = "cleaning" /\ tx' = [tx EXCEPT ![s] = Idle]
      /\ UNCHANGED << now, claims >>
  BY DEF CleanupCommit
<1>6. /\ tx'[s] = Idle
      /\ \A r \in Session : r # s => tx'[r] = tx[r]
      /\ tx' \in [Session -> Transaction]
  <2>1. Idle \in Transaction
    BY OutboxAssumption DEF Idle, Open, Transaction, Times, NoTime, DeliveryStates, Outcomes
  <2> QED
    BY <1>5, <2>1 DEF IInv, TypeOK
<1>7. TypeOK'
  <2>1. /\ deliveries' \in [Delivery -> DeliveryRow]
        /\ attempts' \in [Delivery -> [1 .. MaxClaims -> AttemptStatus]]
    <3>1. \A d \in Delivery : /\ deliveries[d] \in DeliveryRow
                              /\ attempts[d] \in [1 .. MaxClaims -> AttemptStatus]
      BY DEF IInv, TypeOK
    <3> QED
      BY <1>1, <1>2, <1>3, <3>1 DEF gone, none
  <2> QED
    BY <1>2, <1>4, <1>5, <1>6, <2>1 DEF IInv, TypeOK
<1>8. AttemptLedger'
  <2>1. ASSUME NEW d \in Delivery, NEW n \in 1 .. MaxClaims
        PROVE  /\ attempts'[d][n] # "none" <=> n <= deliveries'[d].attempt_count
               /\ attempts'[d][n] = "open" <=> /\ deliveries'[d].state = "in_flight"
                                               /\ n = deliveries'[d].attempt_count
    <3>1. CASE d \in removed
      <4>1. ~(n <= 0)
        BY OutboxAssumption
      <4> QED
        BY <1>2, <1>3, <1>4, <3>1, <4>1
    <3>2. CASE d \notin removed
      BY <1>4, <3>2 DEF IInv, AttemptLedger
    <3> QED
      BY <3>1, <3>2
  <2> QED
    BY <2>1 DEF AttemptLedger
<1>9. OutcomeAgreement'
  BY <1>2, <1>4 DEF IInv, OutcomeAgreement
<1>10. RetryBounded' /\ RetriesAllowed'
  BY <1>2, <1>4 DEF IInv, RetryBounded, RetriesAllowed
<1>11. Claimed'
  BY <1>2, <1>4 DEF IInv, Claimed
<1>12. TxTyped' /\ TxVerdict'
  BY <1>5, <1>6 DEF IInv, TxTyped, TxVerdict, Idle, Open
<1>13. TxClaim'
  <2>1. ASSUME NEW r \in Session, tx'[r].op = "row_locked"
        PROVE  /\ tx'[r] = tx[r] /\ tx[r].op = "row_locked"
               /\ deliveries'[tx[r].delivery] = deliveries[tx[r].delivery]
    <3>1. tx'[r] = tx[r] /\ tx[r].op = "row_locked"
      BY <1>6, <2>1 DEF Idle, Open
    <3>2. Due(tx[r].delivery, tx[r].now) /\ tx[r].delivery \in Delivery
      BY <3>1 DEF IInv, TxClaim, TxTyped
    <3>3. tx[r].delivery \notin removed
      BY <1>1, <3>2 DEF Due, TerminalStates
    <3> QED
      BY <1>4, <3>1, <3>2, <3>3
  <2> QED
    BY <2>1 DEF IInv, TxClaim, Due
<1>14. TxComplete'
  <2>1. ASSUME NEW r \in Session, tx'[r].op = "attempt_written"
        PROVE  /\ tx'[r] = tx[r] /\ tx[r].op = "attempt_written"
               /\ deliveries'[tx[r].delivery] = deliveries[tx[r].delivery]
               /\ attempts'[tx[r].delivery] = attempts[tx[r].delivery]
    <3>1. tx'[r] = tx[r] /\ tx[r].op = "attempt_written"
      BY <1>6, <2>1 DEF Idle, Open
    <3>2. Completable(tx[r].delivery, tx[r].attempt) /\ tx[r].delivery \in Delivery
      BY <3>1 DEF IInv, TxComplete, CompletionNeverHalf, TxTyped
    <3>3. tx[r].delivery \notin removed
      BY <1>1, <3>2 DEF Completable, TerminalStates
    <3> QED
      BY <1>4, <3>1, <3>2, <3>3
  <2> QED
    BY <2>1 DEF IInv, TxComplete, CompletionNeverHalf, Completable
<1> QED
  BY <1>7, <1>8, <1>9, <1>10, <1>11, <1>12, <1>13, <1>14 DEF IInv

\* A deadlock victim rolls back.
LEMMA DeadlockAbortStep ==
    ASSUME IInv, DeadlockAbort
    PROVE  IInv'
<1>1. PICK victim \in Session : tx' = [tx EXCEPT ![victim] = Idle]
  BY DEF DeadlockAbort
<1>2. UNCHANGED << now, deliveries, attempts, claims >>
  BY DEF DeadlockAbort
<1> QED
  BY <1>1, <1>2, IdleStep

\* Every step of a session.
LEMMA SessionStep ==
    ASSUME IInv, NEW s \in Session, Begin(s) \/ Step(s) \/ Abort(s)
    PROVE  IInv'
<1>1. CASE Begin(s)
  BY <1>1, BeginStep
<1>2. CASE ClaimSelect(s)
  BY <1>2, ClaimSelectStep
<1>3. CASE ClaimNothing(s) \/ Abort(s)
  BY <1>3, IdleStep DEF ClaimNothing, Abort
<1>4. CASE ClaimCommit(s)
  BY <1>4, ClaimCommitStep
<1>5. CASE RenewExec(s)
  BY <1>5, RenewExecStep
<1>6. CASE CompleteAttempt(s)
  BY <1>6, CompleteAttemptStep
<1>7. CASE CompleteCommit(s)
  BY <1>7, CompleteCommitStep
<1>8. CASE CleanupCommit(s)
  BY <1>8, CleanupCommitStep
<1> QED
  BY <1>1, <1>2, <1>3, <1>4, <1>5, <1>6, <1>7, <1>8 DEF Step

\* Stuttering steps.
LEMMA Stutter == IInv /\ UNCHANGED vars => IInv'
  BY DEF vars, IInv, TypeOK, AttemptLedger, OutcomeAgreement, RetryBounded,
         Claimed, RetriesAllowed, TxTyped, TxVerdict, TxClaim, TxComplete,
         CompletionNeverHalf, Completable, Due

\* The inductive invariant holds in every reachable state of the outbox,
\* whatever callers do with the handles ClaimDelivery returned.
THEOREM Invariance == Spec => []IInv
<1>1. Init => IInv
  BY InitInv
<1>2. IInv /\ [Next]_vars => IInv'
  <2> SUFFICES ASSUME IInv, [Next]_vars PROVE IInv'
    OBVIOUS
  <2>1. CASE Tick
    BY <2>1, TickStep
  <2>2. ASSUME NEW d \in Delivery, Enqueue(d) PROVE IInv'
    BY <2>2, EnqueueStep
  <2>3. ASSUME NEW s \in Session, Begin(s) \/ Step(s) \/ Abort(s) PROVE IInv'
    BY <2>3, SessionStep
  <2>4. CASE DeadlockAbort
    BY <2>4, DeadlockAbortStep
  <2>5. CASE UNCHANGED vars
    BY <2>5, Stutter
  <2> QED
    BY <2>1, <2>2, <2>3, <2>4, <2>5 DEF Next
<1> QED
  BY <1>1, <1>2, PTL DEF Spec

-----------------------------------------------------------------------------
(* The safety theorems. *)

\* The tables and the open transactions are always well formed.
THEOREM TypeCorrect == Spec => []TypeOK
<1>1. IInv => TypeOK
  BY DEF IInv
<1> QED
  BY <1>1, Invariance, PTL

\* One open attempt per delivery in flight, none otherwise.
THEOREM LedgerHolds == Spec => []AttemptLedger
<1>1. IInv => AttemptLedger
  BY DEF IInv
<1> QED
  BY <1>1, Invariance, PTL

\* Delivery state and attempt history always agree.
THEOREM OutcomesAgree == Spec => []OutcomeAgreement
<1>1. IInv => OutcomeAgreement
  BY DEF IInv
<1> QED
  BY <1>1, Invariance, PTL

\* The second conflict check of CompleteDelivery never fires.
THEOREM NeverHalf == Spec => []CompletionNeverHalf
<1>1. IInv => CompletionNeverHalf
  BY DEF IInv, TxComplete
<1> QED
  BY <1>1, Invariance, PTL

\* Every scheduled retry is in its window.
THEOREM RetriesBounded == Spec => []RetryBounded
<1>1. IInv => RetryBounded
  BY DEF IInv
<1> QED
  BY <1>1, Invariance, PTL

\* What a step can do to the row and the history of one delivery.
RowChange(d) ==
    \/ deliveries'[d] = deliveries[d] /\ attempts'[d] = attempts[d]
    \/ deliveries[d].state = "absent" /\ attempts'[d] = attempts[d]
    \/ \E s \in Session : ClaimCommit(s) /\ tx[s].delivery = d
    \/ \E s \in Session : CompleteCommit(s) /\ tx[s].delivery = d
    \/ /\ deliveries[d].state = "in_flight"
       /\ deliveries'[d].attempt_count = deliveries[d].attempt_count
       /\ attempts'[d] = attempts[d]
    \/ /\ deliveries[d].state \in TerminalStates
       /\ Retention(deliveries[d].state) > 0
       /\ deliveries[d].completed_at + Retention(deliveries[d].state) < now
       /\ deliveries'[d] = NewRow("deleted", NoTime)

\* What a step does to a delivery row, by the operation that wrote it.
LEMMA RowChanges ==
    ASSUME IInv, [Next]_vars, NEW d \in Delivery
    PROVE  RowChange(d)
<1>1. CASE UNCHANGED << deliveries, attempts >>
  BY <1>1 DEF RowChange
<1>2. ASSUME NEW e \in Delivery, Enqueue(e) PROVE RowChange(d)
  <2>1. deliveries[e].state = "absent" /\ attempts' = attempts
    BY <1>2 DEF Enqueue
  <2>2. d # e => deliveries'[d] = deliveries[d]
    BY <1>2 DEF Enqueue, IInv, TypeOK
  <2> QED
    BY <2>1, <2>2 DEF RowChange
<1>3. ASSUME NEW s \in Session, ClaimCommit(s) PROVE RowChange(d)
  <2>1. d # tx[s].delivery =>
          deliveries'[d] = deliveries[d] /\ attempts'[d] = attempts[d]
    BY <1>3 DEF ClaimCommit, IInv, TypeOK
  <2> QED
    BY <1>3, <2>1 DEF RowChange
<1>4. ASSUME NEW s \in Session, CompleteCommit(s) PROVE RowChange(d)
  <2>1. d # tx[s].delivery =>
          deliveries'[d] = deliveries[d] /\ attempts'[d] = attempts[d]
    <3> DEFINE e == tx[s].delivery
    <3>1. /\ deliveries' = [deliveries EXCEPT ![e] = Completed(deliveries[e], tx[s])]
          /\ attempts' = [attempts EXCEPT ![e] =
                            [attempts[e] EXCEPT ![tx[s].attempt] = tx[s].outcome]]
      BY <1>4, CompleteHolds
    <3> QED
      BY <3>1 DEF IInv, TypeOK
  <2> QED
    BY <1>4, <2>1 DEF RowChange
<1>5. ASSUME NEW s \in Session, RenewExec(s) PROVE RowChange(d)
  <2> DEFINE e == tx[s].delivery
  <2>1. attempts' = attempts
    BY <1>5 DEF RenewExec
  <2>2. CASE Renewable(e, tx[s].attempt, tx[s].now)
    <3>1. /\ deliveries' = [deliveries EXCEPT ![e] = Renewed(deliveries[e], tx[s].now)]
          /\ deliveries[e].state = "in_flight"
          /\ e \in Delivery /\ tx[s].now \in Nat
      BY <1>5, <2>2 DEF RenewExec, Renewable, IInv, TxTyped
    <3>2. deliveries[e] \in DeliveryRow
      BY <3>1 DEF IInv, TypeOK
    <3>3. Renewed(deliveries[e], tx[s].now).attempt_count = deliveries[e].attempt_count
      BY <3>1, <3>2, RenewedType
    <3>4. CASE d = e
      <4>1. deliveries'[d] = Renewed(deliveries[e], tx[s].now)
        BY <3>1, <3>4 DEF IInv, TypeOK
      <4> QED
        BY <2>1, <3>1, <3>3, <3>4, <4>1 DEF RowChange
    <3>5. CASE d # e
      <4>1. deliveries'[d] = deliveries[d]
        BY <3>1, <3>5 DEF IInv, TypeOK
      <4> QED
        BY <2>1, <4>1 DEF RowChange
    <3> QED
      BY <3>4, <3>5
  <2>3. CASE ~Renewable(e, tx[s].attempt, tx[s].now)
    BY <1>5, <2>1, <2>3 DEF RenewExec, RowChange
  <2> QED
    BY <2>2, <2>3
<1>6. ASSUME NEW s \in Session, CleanupCommit(s) PROVE RowChange(d)
  <2>1. PICK removed \in SUBSET Delivery :
             /\ \A e \in removed :
                  /\ deliveries[e].state \in TerminalStates
                  /\ Retention(deliveries[e].state) > 0
                  /\ deliveries[e].completed_at + Retention(deliveries[e].state) < now
             /\ deliveries' = [e \in Delivery |->
                    IF e \in removed THEN NewRow("deleted", NoTime) ELSE deliveries[e]]
             /\ attempts' = [e \in Delivery |->
                    IF e \in removed THEN [n \in 1 .. MaxClaims |-> "none"]
                    ELSE attempts[e]]
    BY <1>6, CleanupHolds
  <2>2. CASE d \in removed
    BY <2>1, <2>2 DEF RowChange
  <2>3. CASE d \notin removed
    BY <2>1, <2>3 DEF RowChange
  <2> QED
    BY <2>2, <2>3
<1>7. \/ UNCHANGED << deliveries, attempts >>
      \/ \E e \in Delivery : Enqueue(e)
      \/ \E s \in Session : \/ ClaimCommit(s) \/ CompleteCommit(s)
                            \/ RenewExec(s) \/ CleanupCommit(s)
  BY DEF Next, vars, Tick, Begin, Step, Abort, DeadlockAbort, ClaimBegin,
         RenewBegin, CompleteBegin, CleanupBegin, ClaimSelect, ClaimNothing,
         CompleteAttempt
<1> QED
  BY <1>1, <1>2, <1>3, <1>4, <1>5, <1>6, <1>7

\* A row in flight changes its attempt number only through a claim that found
\* its lease expired.
THEOREM LeaseSafe == Spec => NoLeaseStealing
<1> DEFINE A == \A d \in Delivery :
                  /\ deliveries[d].state = "in_flight"
                  /\ deliveries'[d].attempt_count # deliveries[d].attempt_count
                  => deliveries[d].lease_expires_at <= now
<1>1. IInv /\ [Next]_vars => [A]_vars
  <2> SUFFICES ASSUME IInv, [Next]_vars, NEW d \in Delivery,
                      deliveries[d].state = "in_flight",
                      deliveries'[d].attempt_count # deliveries[d].attempt_count
               PROVE  deliveries[d].lease_expires_at <= now
    OBVIOUS
  <2>1. RowChange(d)
    BY RowChanges
  <2>2. ASSUME NEW s \in Session, ClaimCommit(s), tx[s].delivery = d
        PROVE  deliveries[d].lease_expires_at <= now
    <3>1. Due(d, tx[s].now) /\ tx[s].now \in Nat /\ tx[s].now <= now
      BY <2>2, ClaimHolds
    <3>2. deliveries[d].lease_expires_at <= tx[s].now
      BY <3>1 DEF Due
    <3>3. deliveries[d].lease_expires_at \in Int /\ now \in Nat
      BY DEF IInv, TypeOK, DeliveryRow, Times, NoTime
    <3> QED
      BY <3>1, <3>2, <3>3
  <2>3. ASSUME NEW s \in Session, CompleteCommit(s), tx[s].delivery = d
        PROVE  FALSE
    <3>1. /\ deliveries[d] \in DeliveryRow
          /\ tx[s] \in Transaction /\ tx[s].now \in Nat
          /\ deliveries' = [deliveries EXCEPT ![d] = Completed(deliveries[d], tx[s])]
      BY <2>3, CompleteHolds
    <3>2. deliveries'[d] = Completed(deliveries[d], tx[s])
      BY <3>1 DEF IInv, TypeOK
    <3>3. Completed(deliveries[d], tx[s]).attempt_count = deliveries[d].attempt_count
      BY <3>1, CompletedType
    <3> QED
      BY <3>2, <3>3
  <2>4. "in_flight" \notin TerminalStates
    BY DEF TerminalStates
  <2> QED
    BY <2>1, <2>2, <2>3, <2>4 DEF RowChange
<1> QED
  BY <1>1, Invariance, PTL DEF Spec, NoLeaseStealing

\* No attempt starts before the policy's delay after the failed one.
THEOREM BackoffSafe == Spec => BackoffRespected
<1> DEFINE A == \A d \in Delivery :
                  /\ deliveries[d].state = "retry"
                  /\ deliveries'[d].state = "in_flight"
                  => now >= deliveries[d].updated_at
                               + Delay(deliveries[d].attempt_count)
<1>1. IInv /\ [Next]_vars => [A]_vars
  <2> SUFFICES ASSUME IInv, [Next]_vars, NEW d \in Delivery,
                      deliveries[d].state = "retry",
                      deliveries'[d].state = "in_flight"
               PROVE  now >= deliveries[d].updated_at
                               + Delay(deliveries[d].attempt_count)
    OBVIOUS
  <2>1. RowChange(d)
    BY RowChanges
  <2>2. ASSUME NEW s \in Session, ClaimCommit(s), tx[s].delivery = d
        PROVE  now >= deliveries[d].updated_at + Delay(deliveries[d].attempt_count)
    <3>1. Due(d, tx[s].now) /\ tx[s].now \in Nat /\ tx[s].now <= now
      BY <2>2, ClaimHolds
    <3>2. deliveries[d].next_attempt_at <= tx[s].now
      BY <3>1 DEF Due
    <3>3. /\ deliveries[d].next_attempt_at \in Int /\ now \in Nat
          /\ deliveries[d].updated_at \in Int
      BY DEF IInv, TypeOK, DeliveryRow, Times, NoTime
    <3>4. deliveries[d].next_attempt_at
            >= deliveries[d].updated_at + Delay(deliveries[d].attempt_count)
      BY DEF IInv, RetryBounded
    <3>5. Delay(deliveries[d].attempt_count) \in Int
      BY RetryAssumption DEF IInv, RetriesAllowed, RetryAllowed
    <3> QED
      BY <3>1, <3>2, <3>3, <3>4, <3>5
  <2>3. ASSUME NEW s \in Session, CompleteCommit(s), tx[s].delivery = d
        PROVE  FALSE
    BY <2>3, CompleteHolds
  <2>4. "retry" \notin TerminalStates
    BY DEF TerminalStates
  <2> QED
    BY <2>1, <2>2, <2>3, <2>4 DEF RowChange
<1> QED
  BY <1>1, Invariance, PTL DEF Spec, BackoffRespected

\* Terminal deliveries and finished attempts are never rewritten.
THEOREM HistorySafe == Spec => HistoryImmutable
<1> DEFINE removed(d) == /\ deliveries'[d] = NewRow("deleted", NoTime)
                         /\ deliveries[d].state \in TerminalStates
                         /\ Retention(deliveries[d].state) > 0
                         /\ deliveries[d].completed_at
                              + Retention(deliveries[d].state) < now
           A == \A d \in Delivery :
                  /\ deliveries[d].state \in TerminalStates
                       => deliveries'[d] = deliveries[d] \/ removed(d)
                  /\ \A n \in 1 .. MaxClaims :
                       attempts[d][n] \notin {"none", "open"} =>
                          attempts'[d][n] = attempts[d][n] \/ removed(d)
<1>1. IInv /\ [Next]_vars => [A]_vars
  <2> SUFFICES ASSUME IInv, [Next]_vars, NEW d \in Delivery
               PROVE  /\ deliveries[d].state \in TerminalStates
                           => deliveries'[d] = deliveries[d] \/ removed(d)
                      /\ \A n \in 1 .. MaxClaims :
                           attempts[d][n] \notin {"none", "open"} =>
                              attempts'[d][n] = attempts[d][n] \/ removed(d)
    OBVIOUS
  <2>1. RowChange(d)
    BY RowChanges
  <2>2. ASSUME NEW s \in Session, ClaimCommit(s), tx[s].delivery = d
        PROVE  /\ deliveries[d].state \notin TerminalStates
               /\ \A n \in 1 .. MaxClaims :
                    attempts[d][n] \notin {"none", "open"} =>
                       attempts'[d][n] = attempts[d][n]
    <3>1. /\ Due(d, tx[s].now)
          /\ tx[s].attempt = deliveries[d].attempt_count + 1
          /\ deliveries[d].attempt_count \in Nat
      BY <2>2, ClaimHolds
    <3>2. \A m \in 1 .. MaxClaims : m # tx[s].attempt =>
             attempts'[d][m] =
               IF deliveries[d].state = "in_flight" /\ m = deliveries[d].attempt_count
               THEN "lease_expired" ELSE attempts[d][m]
      BY <2>2, ClaimEffect
    <3>3. ASSUME NEW n \in 1 .. MaxClaims, attempts[d][n] \notin {"none", "open"}
          PROVE  attempts'[d][n] = attempts[d][n]
      <4>1. /\ n <= deliveries[d].attempt_count
            /\ ~(deliveries[d].state = "in_flight" /\ n = deliveries[d].attempt_count)
        BY <3>3 DEF IInv, AttemptLedger
      <4>2. n # tx[s].attempt
        BY <3>1, <4>1, OutboxAssumption
      <4> QED
        BY <3>2, <4>1, <4>2
    <3> QED
      BY <3>1, <3>3 DEF Due, TerminalStates
  <2>3. ASSUME NEW s \in Session, CompleteCommit(s), tx[s].delivery = d
        PROVE  /\ deliveries[d].state \notin TerminalStates
               /\ \A n \in 1 .. MaxClaims :
                    attempts[d][n] \notin {"none", "open"} =>
                       attempts'[d][n] = attempts[d][n]
    <3> DEFINE k == tx[s].attempt
    <3>1. /\ deliveries[d].state = "in_flight" /\ attempts[d][k] = "open"
          /\ k \in 1 .. MaxClaims
          /\ attempts' = [attempts EXCEPT ![d] = [attempts[d] EXCEPT ![k] = tx[s].outcome]]
      BY <2>3, CompleteHolds
    <3> HIDE DEF k
    <3>2. attempts'[d] = [attempts[d] EXCEPT ![k] = tx[s].outcome]
      BY <3>1 DEF IInv, TypeOK
    <3>3. attempts[d] \in [1 .. MaxClaims -> AttemptStatus]
      BY DEF IInv, TypeOK
    <3> QED
      BY <3>1, <3>2, <3>3 DEF TerminalStates
  <2>4. /\ "in_flight" \notin TerminalStates /\ "absent" \notin TerminalStates
    BY DEF TerminalStates
  <2> QED
    BY <2>1, <2>2, <2>3, <2>4 DEF RowChange
<1> QED
  BY <1>1, Invariance, PTL DEF Spec, HistoryImmutable

-----------------------------------------------------------------------------
(* Stale handles. *)

\* No handle is ahead of its row.
HandleOK(h) ==
    \/ deliveries[h[1]].state = "deleted"
    \/ h[2] <= deliveries[h[1]].attempt_count

HandlesOK == \A h \in claims : HandleOK(h)

\* A claim is one more than its row's attempts, and no step takes attempts back
\* but the removal of the delivery, whose id never returns.
LEMMA HandlesStep ==
    ASSUME IInv, HandlesOK, [Next]_vars
    PROVE  HandlesOK'
<1>1. ASSUME NEW h \in claims PROVE HandleOK(h)'
  <2>1. PICK d : d = h[1]
    OBVIOUS
  <2>2. d \in Delivery /\ h[2] \in Nat \ {0} /\ HandleOK(h)
    BY <2>1, OutboxAssumption DEF IInv, TypeOK, Handles, HandlesOK
  <2>3. RowChange(d)
    BY <2>2, RowChanges
  <2>4. deliveries[d] \in DeliveryRow /\ deliveries[d].attempt_count \in Nat
    BY <2>2, OutboxAssumption DEF IInv, TypeOK, DeliveryRow
  <2>5. SUFFICES ASSUME deliveries'[d] # deliveries[d]
                 PROVE  \/ deliveries'[d].state = "deleted"
                        \/ deliveries'[d].attempt_count >= deliveries[d].attempt_count
                           /\ deliveries'[d].attempt_count \in Nat
                           /\ deliveries[d].state # "deleted"
    BY <2>1, <2>2, <2>4 DEF HandleOK
  <2>6. deliveries[d].state # "absent"
    <3> SUFFICES ASSUME deliveries[d].state = "absent" PROVE FALSE
      OBVIOUS
    <3>1. ~(deliveries[d].attempt_count > 0)
      BY <2>2 DEF IInv, Claimed, TerminalStates
    <3> QED
      BY <2>1, <2>2, <2>4, <3>1 DEF HandleOK
  <2>7. ASSUME NEW s \in Session, ClaimCommit(s), tx[s].delivery = d
        PROVE  /\ deliveries'[d].attempt_count = deliveries[d].attempt_count + 1
               /\ deliveries[d].state # "deleted"
    <3>1. /\ Due(d, tx[s].now) /\ tx[s].attempt = deliveries[d].attempt_count + 1
          /\ tx[s].now \in Nat /\ tx[s].attempt \in 1 .. MaxClaims
      BY <2>7, ClaimHolds DEF IInv, TxClaim, TxTyped, ClaimCommit
    <3>2. deliveries'[d] = Leased(deliveries[d], tx[s].attempt, tx[s].now)
      BY <2>2, <2>7 DEF ClaimCommit, IInv, TypeOK
    <3>3. PICK n, t : n = tx[s].attempt /\ t = tx[s].now
      OBVIOUS
    <3>4. n \in 1 .. MaxClaims /\ t \in Nat /\ deliveries'[d] = Leased(deliveries[d], n, t)
      BY <3>1, <3>2, <3>3
    <3>5. deliveries'[d].attempt_count = n
      BY <2>4, <3>4, LeasedType
    <3> QED
      BY <3>1, <3>3, <3>5 DEF Due
  <2>8. ASSUME NEW s \in Session, CompleteCommit(s), tx[s].delivery = d
        PROVE  /\ deliveries'[d].attempt_count = deliveries[d].attempt_count
               /\ deliveries[d].state # "deleted"
    <3>1. /\ tx[s] \in Transaction /\ tx[s].now \in Nat
          /\ deliveries' = [deliveries EXCEPT ![d] = Completed(deliveries[d], tx[s])]
      BY <2>8, CompleteHolds
    <3>2. deliveries'[d] = Completed(deliveries[d], tx[s])
      BY <2>2, <3>1 DEF IInv, TypeOK
    <3>3. deliveries[d].state = "in_flight"
      BY <2>8 DEF CompleteCommit, IInv, TxComplete, CompletionNeverHalf, Completable
    <3> QED
      BY <2>4, <3>1, <3>2, <3>3, CompletedType
  <2>9. "deleted" \notin TerminalStates /\ NewRow("deleted", NoTime).state = "deleted"
    BY DEF TerminalStates, NewRow
  <2> QED
    BY <2>3, <2>4, <2>5, <2>6, <2>7, <2>8, <2>9 DEF RowChange
<1>2. ASSUME NEW s \in Session, ClaimCommit(s) PROVE HandlesOK'
  <2>1. PICK d, n : d = tx[s].delivery /\ n = tx[s].attempt
    OBVIOUS
  <2>2. /\ d \in Delivery /\ n \in 1 .. MaxClaims /\ tx[s].now \in Nat
        /\ deliveries[d] \in DeliveryRow
    BY <1>2, <2>1 DEF ClaimCommit, IInv, TxTyped, TypeOK
  <2>3. deliveries'[d] = Leased(deliveries[d], n, tx[s].now)
    BY <1>2, <2>1, <2>2 DEF ClaimCommit, IInv, TypeOK
  <2>4. deliveries'[d].attempt_count = n
    BY <2>2, <2>3, LeasedType
  <2>5. claims' = claims \cup {<< d, n >>}
    BY <1>2, <2>1 DEF ClaimCommit
  <2>6. HandleOK(<< d, n >>)'
    BY <2>2, <2>4, OutboxAssumption DEF HandleOK
  <2> QED
    BY <1>1, <2>5, <2>6 DEF HandlesOK
<1>3. claims' = claims \/ \E s \in Session : ClaimCommit(s)
  BY DEF Next, vars, Tick, Enqueue, Begin, Step, Abort, DeadlockAbort, ClaimBegin,
         RenewBegin, CompleteBegin, CleanupBegin, ClaimSelect, ClaimNothing,
         CompleteAttempt, RenewExec, CompleteCommit, CleanupCommit
<1> QED
  BY <1>1, <1>2, <1>3 DEF HandlesOK

\* A renewal or completion that writes has matched the row's attempt number.
LEMMA WriterMatches ==
    ASSUME IInv, [Next]_vars, NEW s \in Session,
           tx[s].op \in {"renewing", "attempt_written"}, tx'[s].op = "idle",
           deliveries' # deliveries
    PROVE  Completable(tx[s].delivery, tx[s].attempt)
<1>1. tx \in [Session -> Transaction]
  BY DEF IInv, TypeOK
<1>2. ASSUME NEW d \in Delivery, Enqueue(d) PROVE FALSE
  BY <1>2 DEF Enqueue
<1>3. ASSUME NEW r \in Session, ClaimCommit(r) \/ CleanupCommit(r) PROVE FALSE
  <2>1. r # s /\ tx' = [tx EXCEPT ![r] = Idle]
    BY <1>3 DEF ClaimCommit, CleanupCommit
  <2> QED
    BY <1>1, <2>1
<1>4. ASSUME NEW r \in Session, RenewExec(r)
      PROVE  Completable(tx[s].delivery, tx[s].attempt)
  <2>1. tx' = [tx EXCEPT ![r] = Idle] /\ Renewable(tx[r].delivery, tx[r].attempt, tx[r].now)
    BY <1>4 DEF RenewExec
  <2>2. r = s
    BY <1>1, <2>1
  <2> QED
    BY <2>1, <2>2 DEF Renewable, Completable
<1>5. ASSUME NEW r \in Session, CompleteCommit(r)
      PROVE  Completable(tx[s].delivery, tx[s].attempt)
  <2>1. tx' = [tx EXCEPT ![r] = Idle] /\ Completable(tx[r].delivery, tx[r].attempt)
    BY <1>5 DEF CompleteCommit
  <2>2. r = s
    BY <1>1, <2>1
  <2> QED
    BY <2>1, <2>2
<1> QED
  BY <1>2, <1>3, <1>4, <1>5
  DEF Next, vars, Tick, Begin, Step, Abort, DeadlockAbort, ClaimBegin,
      RenewBegin, CompleteBegin, CleanupBegin, ClaimSelect, ClaimNothing,
      CompleteAttempt

\* A worker whose delivery was taken over neither renews nor completes it.
THEOREM StaleRefused == Spec => StaleClaimIsRefused
<1> DEFINE A == \A s \in Session :
                  /\ tx[s].op \in {"renewing", "attempt_written"}
                  /\ tx'[s].op = "idle"
                  /\ deliveries' # deliveries
                  => \A h \in claims : h[1] = tx[s].delivery => h[2] <= tx[s].attempt
<1>1. Init => HandlesOK
  BY DEF Init, HandlesOK
<1>2. IInv /\ HandlesOK /\ [Next]_vars => A
  <2> SUFFICES ASSUME IInv, HandlesOK, [Next]_vars, NEW s \in Session,
                      tx[s].op \in {"renewing", "attempt_written"},
                      tx'[s].op = "idle", deliveries' # deliveries,
                      NEW h \in claims, h[1] = tx[s].delivery
               PROVE  h[2] <= tx[s].attempt
    OBVIOUS
  <2>1. Completable(tx[s].delivery, tx[s].attempt) /\ HandleOK(h)
    BY WriterMatches DEF HandlesOK
  <2> QED
    BY <2>1 DEF Completable, HandleOK
<1>3. Spec => []HandlesOK
  BY <1>1, HandlesStep, Invariance, PTL DEF Spec
<1>4. Spec => [][A]_vars
  BY <1>2, <1>3, Invariance, PTL DEF Spec
<1> QED
  BY <1>4 DEF StaleClaimIsRefused

-----------------------------------------------------------------------------
(* The outbox implements LeasedQueue: every one of its steps is one atomic *)
(* step of the queue, or leaves the queue as it is.                        *)

\* The item a row stands for, by the row's state.
LEMMA ItemOfRow ==
    ASSUME NEW row \in DeliveryRow
    PROVE  /\ row.state \in {"absent", "deleted"} => QueueItem(row) =
                [status |-> "absent", claim |-> row.attempt_count, until |-> 0]
           /\ row.state \in {"pending", "retry"} => QueueItem(row) =
                [status |-> "waiting", claim |-> row.attempt_count,
                 until |-> row.next_attempt_at]
           /\ row.state = "in_flight" => QueueItem(row) =
                [status |-> "leased", claim |-> row.attempt_count,
                 until |-> row.lease_expires_at]
           /\ row.state \in TerminalStates => QueueItem(row) =
                IF Retention(row.state) = 0
                THEN [status |-> "archived", claim |-> row.attempt_count, until |-> 0]
                ELSE [status |-> "done", claim |-> row.attempt_count,
                      until |-> row.completed_at + Retention(row.state)]
  BY DEF QueueItem, TerminalStates

\* A step that writes one row, without a clock step, changes one item.
LEMMA OneItem ==
    ASSUME IInv, NEW d \in Delivery, NEW row,
           deliveries' = [deliveries EXCEPT ![d] = row], now' = now,
           NEW status, NEW claim, NEW until,
           QueueItem(row) = [status |-> status, claim |-> claim, until |-> until]
    PROVE  Queue!Becomes(d, status, claim, until)
<1>1. /\ deliveries'[d] = row
      /\ \A e \in Delivery : e # d => deliveries'[e] = deliveries[e]
  BY DEF IInv, TypeOK
<1> DEFINE item == [status |-> status, claim |-> claim, until |-> until]
           Q == [e \in Delivery |-> QueueItem(deliveries[e])]
           R == [e \in Delivery |-> QueueItem(deliveries'[e])]
<1>2. R = [Q EXCEPT ![d] = item]
  <2>1. \A e \in Delivery : Q[e] = QueueItem(deliveries[e])
    OBVIOUS
  <2>2. \A e \in Delivery : R[e] = IF e = d THEN item ELSE Q[e]
    BY <1>1, <2>1
  <2>3. R = [e \in Delivery |-> R[e]] /\ Q = [e \in Delivery |-> Q[e]]
    OBVIOUS
  <2> HIDE DEF Q, R, item
  <2> QED
    BY <2>2, <2>3
<1> QED
  BY <1>2 DEF Queue!Becomes

\* The item of a delivery, read off the mapped queue.
LEMMA ItemAt ==
    ASSUME NEW d \in Delivery
    PROVE  /\ [e \in Delivery |-> QueueItem(deliveries[e])][d]
                = QueueItem(deliveries[d])
           /\ [e \in Delivery |-> QueueItem(deliveries'[e])][d]
                = QueueItem(deliveries'[d])
  OBVIOUS

\* The empty tables are the empty queue.
LEMMA InitRefines == Init => Queue!Init
<1> SUFFICES ASSUME Init PROVE Queue!Init
  OBVIOUS
<1> DEFINE row == NewRow("absent", NoTime)
<1>1. row \in DeliveryRow /\ row.state = "absent" /\ row.attempt_count = 0
  <2>1. NoTime \in Times
    BY DEF Times
  <2> QED
    BY <2>1, NewRowType DEF NewRow
<1>2. QueueItem(row) = Queue!Absent
  BY <1>1, ItemOfRow DEF Queue!Absent
<1>3. \A d \in Delivery : deliveries[d] = row
  BY DEF Init
<1> HIDE DEF row
<1>4. [d \in Delivery |-> QueueItem(deliveries[d])] = [d \in Delivery |-> Queue!Absent]
  BY <1>2, <1>3
<1> QED
  BY <1>4 DEF Init, Queue!Init

\* A publication adds an item that is due at once.
LEMMA EnqueueRefines ==
    ASSUME IInv, NEW d \in Delivery, Enqueue(d)
    PROVE  Queue!Add(d)
<1> DEFINE row == NewRow("pending", now)
<1>1. /\ deliveries[d].state = "absent" /\ deliveries[d] \in DeliveryRow
      /\ deliveries' = [deliveries EXCEPT ![d] = row] /\ now' = now
      /\ now \in Nat
  BY DEF Enqueue, IInv, TypeOK
<1>2. row \in DeliveryRow /\ row.state = "pending"
      /\ row.attempt_count = 0 /\ row.next_attempt_at = now
  <2>1. now \in Times
    BY <1>1 DEF Times
  <2> QED
    BY <2>1, NewRowType DEF NewRow
<1>3. QueueItem(row) = [status |-> "waiting", claim |-> 0, until |-> now]
  BY <1>2, ItemOfRow
<1> HIDE DEF row
<1>4. Queue!Becomes(d, "waiting", 0, now)
  BY <1>1, <1>3, OneItem
<1>5. QueueItem(deliveries[d]).status = "absent"
  BY <1>1, ItemOfRow
<1>6. now \in 0 .. now
  BY <1>1
<1> QED
  BY <1>4, <1>5, <1>6, ItemAt DEF Queue!Add

\* ClaimDelivery commits a claim on an item that was due when it read the
\* clock, whatever has happened since.
LEMMA ClaimRefines ==
    ASSUME IInv, NEW s \in Session, ClaimCommit(s)
    PROVE  \E d \in Delivery : Queue!Claim(d)
<1> DEFINE d == tx[s].delivery
           t == tx[s].now
           row == deliveries[d]
           new == Leased(row, tx[s].attempt, t)
<1>1. /\ d \in Delivery /\ t \in Nat /\ t <= now /\ now \in Nat
      /\ tx[s].attempt \in 1 .. MaxClaims
      /\ Due(d, t) /\ row \in DeliveryRow
      /\ tx[s].attempt = row.attempt_count + 1
  BY ClaimHolds DEF IInv, TypeOK
<1>2. deliveries' = [deliveries EXCEPT ![d] = new] /\ now' = now
  BY DEF ClaimCommit
<1>3. /\ new \in DeliveryRow /\ new.state = "in_flight"
      /\ new.attempt_count = row.attempt_count + 1
      /\ new.lease_expires_at = t + Lease
  BY <1>1, LeasedType
<1> HIDE DEF new
<1>4. QueueItem(new) = [status |-> "leased", claim |-> row.attempt_count + 1,
                        until |-> t + Lease]
  BY <1>3, ItemOfRow
<1>5. Queue!Becomes(d, "leased", row.attempt_count + 1, t + Lease)
  BY <1>1, <1>2, <1>4, OneItem
<1>6. /\ QueueItem(row).status \in {"waiting", "leased"}
      /\ QueueItem(row).claim = row.attempt_count
      /\ QueueItem(row).until <= t /\ QueueItem(row).until \in Int
  <2>1. row.next_attempt_at \in Int /\ row.lease_expires_at \in Int
    BY <1>1 DEF DeliveryRow, Times, NoTime
  <2>2. CASE row.state \in {"pending", "retry"}
    <3>1. row.next_attempt_at <= t
      BY <1>1, <2>2 DEF Due
    <3> QED
      BY <1>1, <2>1, <2>2, <3>1, ItemOfRow
  <2>3. CASE row.state = "in_flight"
    <3>1. row.lease_expires_at <= t
      BY <1>1, <2>3 DEF Due
    <3> QED
      BY <1>1, <2>1, <2>3, <3>1, ItemOfRow
  <2> QED
    BY <1>1, <2>2, <2>3 DEF Due
<1>7. t \in QueueItem(row).until .. now
  BY <1>1, <1>6
<1> QED
  BY <1>1, <1>5, <1>6, <1>7, ItemAt DEF Queue!Claim

\* RenewDeliveryLease renews a live claim or changes nothing.
LEMMA RenewRefines ==
    ASSUME IInv, NEW s \in Session, RenewExec(s)
    PROVE  \/ \E d \in Delivery : Queue!Renew(d)
           \/ UNCHANGED << now, deliveries >>
<1> DEFINE d == tx[s].delivery
           t == tx[s].now
           row == deliveries[d]
           new == Renewed(row, t)
<1>1. CASE Renewable(d, tx[s].attempt, t)
  <2>1. /\ d \in Delivery /\ t \in Nat /\ t <= now /\ now \in Nat
        /\ row \in DeliveryRow
        /\ row.state = "in_flight" /\ t < row.lease_expires_at
        /\ deliveries' = [deliveries EXCEPT ![d] = new] /\ now' = now
    <3>1. d \in Delivery /\ t \in Nat /\ t <= now /\ now \in Nat
      BY DEF RenewExec, IInv, TxTyped, TypeOK
    <3>2. row \in DeliveryRow
      BY <3>1 DEF IInv, TypeOK
    <3>3. row.lease_expires_at \in Int
      BY <3>2 DEF DeliveryRow, Times, NoTime
    <3> QED
      BY <1>1, <3>1, <3>2, <3>3 DEF RenewExec, Renewable
  <2>2. /\ new \in DeliveryRow /\ new.state = "in_flight"
        /\ new.attempt_count = row.attempt_count
        /\ new.lease_expires_at = t + Lease
    BY <2>1, RenewedType
  <2> HIDE DEF new
  <2>3. QueueItem(new) = [status |-> "leased", claim |-> row.attempt_count,
                          until |-> t + Lease]
    BY <2>2, ItemOfRow
  <2>4. Queue!Becomes(d, "leased", row.attempt_count, t + Lease)
    BY <2>1, <2>3, OneItem
  <2>5. /\ QueueItem(row).status = "leased"
        /\ QueueItem(row).claim = row.attempt_count
        /\ t < QueueItem(row).until
    BY <2>1, ItemOfRow
  <2>6. t \in 0 .. now
    BY <2>1
  <2> QED
    BY <2>1, <2>4, <2>5, <2>6, ItemAt DEF Queue!Renew
<1>2. CASE ~Renewable(d, tx[s].attempt, t)
  BY <1>2 DEF RenewExec
<1> QED
  BY <1>1, <1>2

\* CompleteDelivery ends the claim that is still the last one.
LEMMA CompleteRefines ==
    ASSUME IInv, NEW s \in Session, CompleteCommit(s)
    PROVE  \E d \in Delivery : Queue!End(d)
<1> DEFINE d == tx[s].delivery
           row == deliveries[d]
           new == Completed(row, tx[s])
           keep == Retention(new.state)
<1>1. /\ d \in Delivery /\ tx[s] \in Transaction /\ tx[s].now \in Nat
      /\ row \in DeliveryRow /\ row.state = "in_flight"
      /\ deliveries' = [deliveries EXCEPT ![d] = new] /\ now' = now
  BY CompleteHolds
<1>2. /\ new \in DeliveryRow /\ new.state = tx[s].state
      /\ new.attempt_count = row.attempt_count
      /\ new.completed_at # NoTime <=> tx[s].state \in TerminalStates
      /\ tx[s].next # NoTime => new.next_attempt_at = tx[s].next
  BY <1>1, CompletedType
<1>3. /\ tx[s].state \in {"retry"} \cup TerminalStates
      /\ tx[s].state = "retry" => tx[s].next \in Nat
  BY DEF CompleteCommit, IInv, TxVerdict
<1>4. keep \in Nat
  BY OutboxAssumption DEF Retention
<1> HIDE DEF new, keep
<1>5. ASSUME NEW status \in {"waiting", "done", "archived"}, NEW until \in Int,
             until >= 0,
             QueueItem(new) = [status |-> status, claim |-> row.attempt_count,
                               until |-> until]
      PROVE  Queue!End(d)
  <2>1. Queue!Becomes(d, status, row.attempt_count, until)
    BY <1>1, <1>5, OneItem
  <2>2. deliveries'[d] = new
    BY <1>1 DEF IInv, TypeOK
  <2>3. QueueItem(deliveries'[d]).until = until
    BY <1>5, <2>2
  <2>4. /\ QueueItem(row).status = "leased"
        /\ QueueItem(row).claim = row.attempt_count
    BY <1>1, ItemOfRow
  <2> QED
    BY <1>1, <1>5, <2>1, <2>3, <2>4, ItemAt DEF Queue!End
<1>6. CASE tx[s].state = "retry"
  <2>1. new.next_attempt_at \in Nat /\ new.state = "retry"
    BY <1>2, <1>3, <1>6 DEF NoTime
  <2>2. QueueItem(new) = [status |-> "waiting", claim |-> row.attempt_count,
                          until |-> new.next_attempt_at]
    BY <1>2, <2>1, ItemOfRow
  <2> QED
    BY <1>1, <1>5, <2>1, <2>2
<1>7. CASE tx[s].state \in TerminalStates
  <2>1. new.completed_at \in Nat /\ new.state \in TerminalStates
    BY <1>2, <1>7 DEF DeliveryRow, Times
  <2>2. CASE keep = 0
    <3>1. QueueItem(new) = [status |-> "archived", claim |-> row.attempt_count,
                            until |-> 0]
      BY <1>2, <2>1, <2>2, ItemOfRow DEF keep
    <3> QED
      BY <1>1, <1>5, <3>1
  <2>3. CASE keep # 0
    <3>1. QueueItem(new) = [status |-> "done", claim |-> row.attempt_count,
                            until |-> new.completed_at + keep]
      BY <1>2, <2>1, <2>3, ItemOfRow DEF keep
    <3>2. new.completed_at + keep \in Int /\ new.completed_at + keep >= 0
      BY <1>4, <2>1
    <3> QED
      BY <1>1, <1>5, <3>1, <3>2
  <2> QED
    BY <2>2, <2>3
<1> QED
  BY <1>3, <1>6, <1>7

\* Cleanup removes items that are done and have been kept long enough.
LEMMA CleanupRefines ==
    ASSUME IInv, NEW s \in Session, CleanupCommit(s)
    PROVE  \E items \in SUBSET Delivery : Queue!Remove(items)
<1>1. PICK removed \in SUBSET Delivery :
             /\ \A e \in removed :
                  /\ deliveries[e].state \in TerminalStates
                  /\ Retention(deliveries[e].state) > 0
                  /\ deliveries[e].completed_at + Retention(deliveries[e].state) < now
             /\ deliveries' = [e \in Delivery |->
                    IF e \in removed THEN NewRow("deleted", NoTime) ELSE deliveries[e]]
  BY CleanupHolds
<1> DEFINE gone == NewRow("deleted", NoTime)
<1>2. QueueItem(gone) = Queue!Absent
  <2>1. gone \in DeliveryRow /\ gone.state = "deleted" /\ gone.attempt_count = 0
    <3>1. NoTime \in Times
      BY DEF Times
    <3> QED
      BY <3>1, NewRowType DEF NewRow
  <2> QED
    BY <2>1, ItemOfRow DEF Queue!Absent
<1> HIDE DEF gone
<1>3. ASSUME NEW e \in removed
      PROVE  QueueItem(deliveries[e]).status = "done" /\ QueueItem(deliveries[e]).until < now
  <2>1. deliveries[e] \in DeliveryRow
    BY <1>3 DEF IInv, TypeOK
  <2>2. Retention(deliveries[e].state) # 0 /\ deliveries[e].state \in TerminalStates
    BY <1>1, <1>3
  <2>3. QueueItem(deliveries[e]) =
          [status |-> "done", claim |-> deliveries[e].attempt_count,
           until |-> deliveries[e].completed_at + Retention(deliveries[e].state)]
    BY <2>1, <2>2, ItemOfRow
  <2> QED
    BY <1>1, <1>3, <2>3
<1>4. \A e \in Delivery : QueueItem(deliveries'[e]) =
                IF e \in removed THEN Queue!Absent ELSE QueueItem(deliveries[e])
  BY <1>1, <1>2 DEF gone
<1>5. now' = now
  BY DEF CleanupCommit
<1> QED
  BY <1>3, <1>4, <1>5, ItemAt DEF Queue!Remove

\* Every other step leaves the tables alone, or only moves the clock.
LEMMA StepRefines ==
    ASSUME IInv, [Next]_vars
    PROVE  [Queue!Next]_(Queue!vars)
<1>1. CASE UNCHANGED << now, deliveries >>
  BY <1>1 DEF Queue!vars
<1>2. CASE Tick
  BY <1>2 DEF Tick, Queue!Tick, Queue!Next
<1>3. CASE \E d \in Delivery : Enqueue(d)
  BY <1>3, EnqueueRefines DEF Queue!Next
<1>4. CASE \E s \in Session : ClaimCommit(s)
  BY <1>4, ClaimRefines DEF Queue!Next
<1>5. CASE \E s \in Session : RenewExec(s)
  BY <1>1, <1>5, RenewRefines DEF Queue!Next
<1>6. CASE \E s \in Session : CompleteCommit(s)
  BY <1>6, CompleteRefines DEF Queue!Next
<1>7. CASE \E s \in Session : CleanupCommit(s)
  BY <1>7, CleanupRefines DEF Queue!Next
<1>8. \/ UNCHANGED << now, deliveries >>
      \/ Tick
      \/ \E d \in Delivery : Enqueue(d)
      \/ \E s \in Session : \/ ClaimCommit(s) \/ CompleteCommit(s)
                            \/ RenewExec(s) \/ CleanupCommit(s)
  BY DEF Next, vars, Begin, Step, Abort, DeadlockAbort, ClaimBegin,
         RenewBegin, CompleteBegin, CleanupBegin, ClaimSelect, ClaimNothing,
         CompleteAttempt
<1> QED
  BY <1>1, <1>2, <1>3, <1>4, <1>5, <1>6, <1>7, <1>8

\* The outbox, whatever the interleaving of its transactions and their
\* failures, implements the queue of atomic operations a worker relies on.
THEOREM RefinesQueue == Spec => ImplementsQueue
<1>1. Init => Queue!Init
  BY InitRefines
<1>2. IInv /\ [Next]_vars => [Queue!Next]_(Queue!vars)
  BY StepRefines
<1> QED
  BY <1>1, <1>2, Invariance, PTL DEF Spec, ImplementsQueue, Queue!Spec
=============================================================================
