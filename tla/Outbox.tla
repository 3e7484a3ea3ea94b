-------------------------------- MODULE Outbox --------------------------------
(***************************************************************************)
(* The outbound half of postgres.Store (src/postgres/store.go, cleanup.go):*)
(* the rows of hookbound_deliveries and hookbound_attempts, and the        *)
(* transactions that claim, renew, complete and remove them.               *)
(*                                                                         *)
(* One action is one SQL statement, or a run of statements no other        *)
(* transaction can observe the middle of.  A transaction that reads the    *)
(* clock, takes a row lock and writes is split at those points, so that    *)
(* another session, a clock step or a failure may come in between.         *)
(* PostgreSQL is external: READ COMMITTED, row locks held to the end of    *)
(* the transaction, an UPDATE waits for a lock and re-evaluates its WHERE, *)
(* SKIP LOCKED does not wait, a wait cycle aborts one of its members.      *)
(*                                                                         *)
(* A caller keeps the handle of a claim for as long as it likes: `claims'  *)
(* never shrinks, so delayed, repeated and stale calls are all behaviours. *)
(***************************************************************************)
EXTENDS Outcome

CONSTANTS
    Delivery,            \* delivery ids; random, hence never reused
    NoDelivery,
    Session,             \* database sessions
    ClockSkew,           \* how far a worker's clock, which dates Retry-After,
                         \* may be ahead of the database's
    Lease,               \* the lease duration workers ask for
    DeliveredRetention,  \* RetentionPolicy; 0 disables that category
    FailedRetention,
    BatchSize,           \* RetentionPolicy.BatchSize
    MaxTime,             \* bound: the clock stops here
    MaxClaims            \* bound: claims per delivery

ASSUME OutboxAssumption ==
    /\ NoDelivery \notin Delivery
    /\ ClockSkew \in Nat
    /\ Lease \in Nat \ {0}
    /\ DeliveredRetention \in Nat
    /\ FailedRetention \in Nat
    /\ BatchSize \in Nat \ {0}
    /\ MaxTime \in Nat
    /\ MaxClaims \in Nat \ {0}

VARIABLES
    now,         \* PostgreSQL's clock_timestamp()
    deliveries,  \* hookbound_deliveries, committed contents
    attempts,    \* hookbound_attempts, keyed by (delivery_id, attempt_number)
    claims,      \* the <<delivery, attempt>> handles ClaimDelivery returned
    tx           \* the open transaction of each session

vars == << now, deliveries, attempts, claims, tx >>

FailedStates   == TerminalStates \ {"delivered"}
DeliveryStates == {"absent", "pending", "in_flight", "retry", "deleted"}
                    \cup TerminalStates

\* finished_at and outcome of an attempt row: "open" has no finished_at,
\* "lease_expired" is outcome retry with that error code.
AttemptStatus == {"none", "open", "lease_expired"} \cup Outcomes

Handles == Delivery \X (1 .. MaxClaims)

\* A transaction that carries no completion; t is its clock reading.
Open(op, d, n, t) ==
    [op |-> op, delivery |-> d, attempt |-> n, now |-> t,
     state |-> "absent", outcome |-> "none", next |-> NoTime]

Idle == Open("idle", NoDelivery, 0, NoTime)

\* A row as inserted at time t; with NoTime, the row that is not there.
NewRow(state, t) ==
    [state |-> state, attempt_count |-> 0, next_attempt_at |-> t,
     lease_expires_at |-> NoTime, created_at |-> t,
     updated_at |-> t, completed_at |-> NoTime]

-----------------------------------------------------------------------------
Init ==
    /\ now = 0
    /\ deliveries = [d \in Delivery |-> NewRow("absent", NoTime)]
    /\ attempts = [d \in Delivery |-> [n \in 1 .. MaxClaims |-> "none"]]
    /\ claims = {}
    /\ tx = [s \in Session |-> Idle]

Tick ==
    /\ now < MaxTime
    /\ now' = now + 1
    /\ UNCHANGED << deliveries, attempts, claims, tx >>

\* The INSERT INTO hookbound_deliveries of a publication, at its commit.
Enqueue(d) ==
    /\ deliveries[d].state = "absent"
    /\ deliveries' = [deliveries EXCEPT ![d] = NewRow("pending", now)]
    /\ UNCHANGED << now, attempts, claims, tx >>

-----------------------------------------------------------------------------
(* Row locks. *)

\* FOR UPDATE of an unfinished claim.
RowLocked(d) ==
    \E s \in Session : tx[s].op = "row_locked" /\ tx[s].delivery = d

\* The attempt row updated by an unfinished completion.
AttemptLocked(d, n) ==
    \E s \in Session : /\ tx[s].op = "attempt_written"
                       /\ tx[s].delivery = d
                       /\ tx[s].attempt = n

-----------------------------------------------------------------------------
(* ClaimDelivery *)

\* BEGIN and authoritativeNow.
ClaimBegin(s) ==
    /\ tx[s].op = "idle"
    /\ tx' = [tx EXCEPT ![s] = Open("claiming", NoDelivery, 0, now)]
    /\ UNCHANGED << now, deliveries, attempts, claims >>

Due(d, t) ==
    LET row == deliveries[d] IN
    \/ row.state \in {"pending", "retry"} /\ row.next_attempt_at <= t
    \/ row.state = "in_flight" /\ row.lease_expires_at <= t

Candidates(t) ==
    { d \in Delivery : /\ Due(d, t)
                       /\ ~RowLocked(d)
                       /\ deliveries[d].attempt_count < MaxClaims }

\* ORDER BY d.next_attempt_at, d.created_at
NotAfter(d, e) ==
    LET r == deliveries[d]
        q == deliveries[e] IN
    \/ r.next_attempt_at < q.next_attempt_at
    \/ r.next_attempt_at = q.next_attempt_at /\ r.created_at <= q.created_at

\* SELECT ... FOR UPDATE OF d SKIP LOCKED LIMIT 1
ClaimSelect(s) ==
    /\ tx[s].op = "claiming"
    /\ \E d \in Candidates(tx[s].now) :
        /\ \A e \in Candidates(tx[s].now) : NotAfter(d, e)
        /\ tx' = [tx EXCEPT ![s] = Open("row_locked", d,
                        deliveries[d].attempt_count + 1, tx[s].now)]
    /\ UNCHANGED << now, deliveries, attempts, claims >>

\* sql.ErrNoRows: no work, (nil, nil).
ClaimNothing(s) ==
    /\ tx[s].op = "claiming"
    /\ Candidates(tx[s].now) = {}
    /\ tx' = [tx EXCEPT ![s] = Idle]
    /\ UNCHANGED << now, deliveries, attempts, claims >>

\* Faulty: the abandoned attempt stays open.
LeaveAbandoned(d) == attempts[d]

\* The abandoned attempt is closed by the claim that takes over.
ExpireAbandoned(d) ==
    LET row  == deliveries[d]
        last == row.attempt_count IN
    IF /\ row.state = "in_flight"
       /\ last > 0
       /\ attempts[d][last] = "open"
    THEN [attempts[d] EXCEPT ![last] = "lease_expired"]
    ELSE attempts[d]

\* Faulty: the claim overtakes a completion that has written the attempt.
ClaimOvertakes(s) == FALSE

\* The UPDATE that closes the abandoned attempt waits for a completion of it.
ClaimWaits(s) ==
    LET row == deliveries[tx[s].delivery] IN
    row.state = "in_flight" /\ AttemptLocked(tx[s].delivery, row.attempt_count)

Leased(row, n, t) ==
    [row EXCEPT !.state = "in_flight", !.attempt_count = n,
                !.lease_expires_at = t + Lease, !.updated_at = t]

ClaimCommit(s) ==
    LET d == tx[s].delivery
        n == tx[s].attempt IN
    /\ tx[s].op = "row_locked"
    /\ ~ClaimWaits(s)
    /\ deliveries' = [deliveries EXCEPT ![d] = Leased(@, n, tx[s].now)]
    /\ attempts' = [attempts EXCEPT
            ![d] = [ExpireAbandoned(d) EXCEPT ![n] = "open"]]
    /\ claims' = claims \cup {<< d, n >>}
    /\ tx' = [tx EXCEPT ![s] = Idle]
    /\ UNCHANGED now

-----------------------------------------------------------------------------
(* RenewDeliveryLease *)

\* The statement materialises db_now before it reaches the row.
RenewBegin(s, h) ==
    /\ tx[s].op = "idle"
    /\ tx' = [tx EXCEPT ![s] = Open("renewing", h[1], h[2], now)]
    /\ UNCHANGED << now, deliveries, attempts, claims >>

\* Faulty: the delivery's lease is renewed whoever holds it.
RenewableByAnyone(d, n, t) ==
    /\ deliveries[d].state = "in_flight"
    /\ deliveries[d].lease_expires_at > t

Renewable(d, n, t) ==
    /\ deliveries[d].state = "in_flight"
    /\ deliveries[d].attempt_count = n
    /\ deliveries[d].lease_expires_at > t
    /\ attempts[d][n] = "open"

Renewed(row, t) ==
    [row EXCEPT !.lease_expires_at = t + Lease, !.updated_at = t]

\* Faulty: the renewal reads and writes the row without its lock.
RenewWithoutLock(s) ==
    LET d == tx[s].delivery IN
    /\ tx[s].op = "renewing"
    /\ deliveries' =
         IF Renewable(d, tx[s].attempt, tx[s].now)
         THEN [deliveries EXCEPT ![d] = Renewed(@, tx[s].now)]
         ELSE deliveries
    /\ tx' = [tx EXCEPT ![s] = Idle]
    /\ UNCHANGED << now, attempts, claims >>

\* Zero rows is CodeConflict; the statement is its own transaction.
RenewExec(s) ==
    LET d == tx[s].delivery IN
    /\ tx[s].op = "renewing"
    /\ ~RowLocked(d)
    /\ deliveries' =
         IF Renewable(d, tx[s].attempt, tx[s].now)
         THEN [deliveries EXCEPT ![d] = Renewed(@, tx[s].now)]
         ELSE deliveries
    /\ tx' = [tx EXCEPT ![s] = Idle]
    /\ UNCHANGED << now, attempts, claims >>

-----------------------------------------------------------------------------
(* CompleteDelivery *)

\* What deliveryTransition makes of any result of attempt n, obtained at any
\* earlier time of the worker's clock, when it completes at t.
Completions(t, n) ==
    UNION { { [state |-> transition.state, outcome |-> NormalizedOutcome(result),
               next |-> transition.next] :
                transition \in DeliveryTransitions(t, n, result) } :
              result \in UNION { AttemptResults(sent) : sent \in 0 .. (t + ClockSkew) } }

\* BEGIN, authoritativeNow and deliveryTransition.
CompleteBegin(s, h) ==
    /\ tx[s].op = "idle"
    /\ \E c \in Completions(now, h[2]) :
          tx' = [tx EXCEPT ![s] =
                    [op |-> "completing", delivery |-> h[1], attempt |-> h[2],
                     now |-> now, state |-> c.state, outcome |-> c.outcome,
                     next |-> c.next]]
    /\ UNCHANGED << now, deliveries, attempts, claims >>

\* Faulty: no rollback when the attempt is already finished.
CompleteAttemptLeak(s) ==
    LET d == tx[s].delivery
        n == tx[s].attempt IN
    /\ tx[s].op = "completing"
    /\ ~AttemptLocked(d, n)
    /\ attempts[d][n] = "open"
    /\ tx' = [tx EXCEPT ![s].op = "attempt_written"]
    /\ UNCHANGED << now, deliveries, attempts, claims >>

\* UPDATE hookbound_attempts; zero rows is CodeConflict and a rollback.
CompleteAttempt(s) ==
    LET d == tx[s].delivery
        n == tx[s].attempt IN
    /\ tx[s].op = "completing"
    /\ ~AttemptLocked(d, n)
    /\ tx' = IF attempts[d][n] = "open"
             THEN [tx EXCEPT ![s].op = "attempt_written"]
             ELSE [tx EXCEPT ![s] = Idle]
    /\ UNCHANGED << now, deliveries, attempts, claims >>

Completable(d, n) ==
    /\ deliveries[d].state = "in_flight"
    /\ deliveries[d].attempt_count = n

\* Faulty: the lease survives the completion.
CompletedLeased(row, t) ==
    [row EXCEPT
        !.state = t.state,
        !.next_attempt_at = IF t.next # NoTime THEN t.next ELSE @,
        !.updated_at = t.now,
        !.completed_at = IF t.state \in TerminalStates THEN t.now ELSE NoTime]

Completed(row, t) ==
    [row EXCEPT
        !.state = t.state,
        !.next_attempt_at = IF t.next # NoTime THEN t.next ELSE @,
        !.lease_expires_at = NoTime,
        !.updated_at = t.now,
        !.completed_at = IF t.state \in TerminalStates THEN t.now ELSE NoTime]

\* UPDATE hookbound_deliveries and COMMIT.  Zero rows is CodeConflict: the
\* rollback takes the attempt update with it.
CompleteCommit(s) ==
    LET d == tx[s].delivery
        n == tx[s].attempt IN
    /\ tx[s].op = "attempt_written"
    /\ ~RowLocked(d)
    /\ IF Completable(d, n)
       THEN /\ deliveries' = [deliveries EXCEPT ![d] = Completed(@, tx[s])]
            /\ attempts' = [attempts EXCEPT ![d][n] = tx[s].outcome]
       ELSE UNCHANGED << deliveries, attempts >>
    /\ tx' = [tx EXCEPT ![s] = Idle]
    /\ UNCHANGED << now, claims >>

-----------------------------------------------------------------------------
(* Cleanup, the two delivery categories. *)

CleanupBegin(s) ==
    /\ tx[s].op = "idle"
    /\ DeliveredRetention > 0 \/ FailedRetention > 0
    /\ tx' = [tx EXCEPT ![s] = Open("cleaning", NoDelivery, 0, now)]
    /\ UNCHANGED << now, deliveries, attempts, claims >>

\* Faulty: every old enough terminal row, whatever its category's retention.
ExpiredInclusive(states, retention, t) ==
    { d \in Delivery : /\ deliveries[d].state \in states
                       /\ deliveries[d].completed_at <= t - retention }

Expired(states, retention, t) ==
    { d \in Delivery : /\ retention > 0
                       /\ deliveries[d].state \in states
                       /\ deliveries[d].completed_at < t - retention }

\* ORDER BY completed_at, id LIMIT $2; the order of ids is left open.
Batches(rows) ==
    { batch \in SUBSET rows :
        /\ Cardinality(batch) =
             IF Cardinality(rows) < BatchSize THEN Cardinality(rows) ELSE BatchSize
        /\ \A d \in batch, e \in rows \ batch :
             deliveries[d].completed_at <= deliveries[e].completed_at }

\* Deleting a delivery cascades to its attempts.
CleanupCommit(s) ==
    /\ tx[s].op = "cleaning"
    /\ \E delivered \in Batches(Expired({"delivered"}, DeliveredRetention, tx[s].now)),
          failed \in Batches(Expired(FailedStates, FailedRetention, tx[s].now)) :
        LET removed == delivered \cup failed IN
        /\ deliveries' = [d \in Delivery |->
                IF d \in removed THEN NewRow("deleted", NoTime) ELSE deliveries[d]]
        /\ attempts' = [d \in Delivery |->
                IF d \in removed THEN [n \in 1 .. MaxClaims |-> "none"]
                ELSE attempts[d]]
    /\ tx' = [tx EXCEPT ![s] = Idle]
    /\ UNCHANGED << now, claims >>

-----------------------------------------------------------------------------
(* Failures. *)

\* An error, a cancelled context, a lost connection or the death of the
\* process before COMMIT: every such path rolls back.
Abort(s) ==
    /\ tx[s].op # "idle"
    /\ tx' = [tx EXCEPT ![s] = Idle]
    /\ UNCHANGED << now, deliveries, attempts, claims >>

\* A claim locks the delivery and then its attempt, a completion the attempt
\* and then its delivery.
DeadlockCycle(claimer, completer) ==
    /\ tx[claimer].op = "row_locked"
    /\ tx[completer].op = "attempt_written"
    /\ tx[claimer].delivery = tx[completer].delivery
    /\ deliveries[tx[claimer].delivery].state = "in_flight"
    /\ deliveries[tx[claimer].delivery].attempt_count = tx[completer].attempt

\* PostgreSQL's deadlock detector aborts either of the two.
DeadlockAbort ==
    /\ \E claimer, completer \in Session :
        /\ DeadlockCycle(claimer, completer)
        /\ \E victim \in {claimer, completer} : tx' = [tx EXCEPT ![victim] = Idle]
    /\ UNCHANGED << now, deliveries, attempts, claims >>

-----------------------------------------------------------------------------
\* What brings an open transaction closer to its end, failures apart.
Step(s) ==
    \/ ClaimSelect(s) \/ ClaimNothing(s) \/ ClaimCommit(s)
    \/ RenewExec(s)
    \/ CompleteAttempt(s) \/ CompleteCommit(s)
    \/ CleanupCommit(s)

Begin(s) ==
    \/ ClaimBegin(s)
    \/ \E h \in claims : RenewBegin(s, h) \/ CompleteBegin(s, h)
    \/ CleanupBegin(s)

Next ==
    \/ Tick
    \/ \E d \in Delivery : Enqueue(d)
    \/ \E s \in Session : Begin(s) \/ Step(s) \/ Abort(s)
    \/ DeadlockAbort

Spec == Init /\ [][Next]_vars

\* Row-lock queues are first come, first served, so a waiter whose lock is
\* released again and again is granted it: strong fairness.
Fairness ==
    /\ \A s \in Session : SF_vars(Step(s))
    /\ WF_vars(DeadlockAbort)

FairSpec == Spec /\ Fairness

-----------------------------------------------------------------------------
(* Properties. *)

Times == Nat \cup {NoTime}

DeliveryRow ==
    [state : DeliveryStates, attempt_count : 0 .. MaxClaims,
     next_attempt_at : Times, lease_expires_at : Times, created_at : Times,
     updated_at : Times, completed_at : Times]

Transaction ==
    [op : {"idle", "claiming", "row_locked", "renewing", "completing",
           "attempt_written", "cleaning"},
     delivery : Delivery \cup {NoDelivery}, attempt : 0 .. MaxClaims,
     now : Times, state : DeliveryStates, outcome : Outcomes \cup {"none"},
     next : Times]

\* Type invariant: the tables and the open transactions are well formed, and
\* the nullable columns are set exactly in the states that use them: a lease
\* in flight, a completion time in a terminal state.
TypeOK ==
    /\ now \in Nat
    /\ deliveries \in [Delivery -> DeliveryRow]
    /\ attempts \in [Delivery -> [1 .. MaxClaims -> AttemptStatus]]
    /\ claims \subseteq Handles
    /\ tx \in [Session -> Transaction]
    /\ \A d \in Delivery :
        /\ deliveries[d].lease_expires_at # NoTime
             <=> deliveries[d].state = "in_flight"
        /\ deliveries[d].completed_at # NoTime
             <=> deliveries[d].state \in TerminalStates

\* The attempt rows of a delivery are 1 .. attempt_count, and an attempt is
\* open exactly when it is the last one of a delivery in flight: two workers
\* never own open attempts of one delivery, and no claim, completion, abort
\* or cleanup leaves an attempt open behind it.
AttemptLedger ==
    \A d \in Delivery : \A n \in 1 .. MaxClaims :
        /\ attempts[d][n] # "none" <=> n <= deliveries[d].attempt_count
        /\ attempts[d][n] = "open" <=> /\ deliveries[d].state = "in_flight"
                                       /\ n = deliveries[d].attempt_count

\* A failure of attempt n leaves one more to make, after a usable delay.
Retriable(n) ==
    n < MaximumAttempts /\ Schedule # << >> /\ Delay(n) \in 0 .. MaxDelay

\* What the last attempt of a delivery must say for the delivery's state.
Agrees(state, outcome, n) ==
    CASE state = "in_flight"         -> outcome = "open"
      [] state = "retry"             -> outcome = "retry" /\ Retriable(n)
      [] state = "exhausted"         -> outcome = "retry" /\ ~Retriable(n)
      [] state = "disabled"          -> outcome = "disable_destination"
      [] state = "delivered"         -> outcome = "delivered"
      [] state = "permanent_failure" -> outcome = "permanent_failure"
      [] OTHER                       -> FALSE

\* What an attempt that another one followed must say.
Followed(outcome, n) ==
    \/ outcome = "lease_expired"
    \/ outcome = "retry" /\ Retriable(n)

\* The delivery row and its attempt history, written by different statements,
\* tell one story: the state is the one the last attempt's outcome leads to,
\* with the retry limit applied to that attempt's number, and every earlier
\* attempt was a failure below that limit or abandoned (so at most one says
\* delivered).  Workers that die, which no limit counts, can take the attempt
\* number past MaxAttempts; the next result ends the delivery then and not
\* before.
OutcomeAgreement ==
    \A d \in Delivery :
        LET row == deliveries[d]
            n   == row.attempt_count IN
        n > 0 =>
          /\ Agrees(row.state, attempts[d][n], n)
          /\ \A m \in 1 .. (n - 1) : Followed(attempts[d][m], m)

\* A completion that has written its attempt finds its delivery row unchanged:
\* "delivery lease was lost before completion" (store.go:568) is not reached,
\* and no completion is half applied.
CompletionNeverHalf ==
    \A s \in Session :
        tx[s].op = "attempt_written" =>
            /\ Completable(tx[s].delivery, tx[s].attempt)
            /\ attempts[tx[s].delivery][tx[s].attempt] = "open"

\* A retry is scheduled no earlier than the policy's delay after the attempt
\* that failed and no later than its largest jitter, or the largest accepted
\* Retry-After, allows.
RetryBounded ==
    \A d \in Delivery :
        LET row   == deliveries[d]
            delay == Delay(row.attempt_count) IN
        row.state = "retry" =>
          /\ row.next_attempt_at >= row.updated_at + delay
          /\ \/ row.next_attempt_at <= row.updated_at + delay + (delay \div 5)
             \/ row.next_attempt_at <= row.updated_at + ClockSkew + MaxRetryAfter

Retention(state) ==
    IF state = "delivered" THEN DeliveredRetention ELSE FailedRetention

\* History is never rewritten: a finished attempt and a terminal delivery stay
\* as they are until the whole terminal delivery is removed, which happens
\* only under an enabled retention that has passed.  A late or repeated
\* completion, renewal or claim changes nothing.
HistoryImmutable ==
    [][\A d \in Delivery :
        LET row     == deliveries[d]
            removed == /\ deliveries'[d] = NewRow("deleted", NoTime)
                       /\ row.state \in TerminalStates
                       /\ Retention(row.state) > 0
                       /\ row.completed_at + Retention(row.state) < now IN
        /\ row.state \in TerminalStates => deliveries'[d] = row \/ removed
        /\ \A n \in 1 .. MaxClaims :
             attempts[d][n] \notin {"none", "open"} =>
                attempts'[d][n] = attempts[d][n] \/ removed]_vars

\* A renewal or completion that writes to a delivery holds its latest claim: a
\* worker whose delivery was taken over changes nothing any more, neither the
\* lease of its successor nor the outcome of its successor's attempt.
StaleClaimIsRefused ==
    [][\A s \in Session :
        /\ tx[s].op \in {"renewing", "attempt_written"}
        /\ tx'[s].op = "idle"
        /\ deliveries' # deliveries
        => \A h \in claims : h[1] = tx[s].delivery => h[2] <= tx[s].attempt]_vars

\* A delivery in flight passes to another attempt only when its lease, as
\* last renewed, has expired: a renewal that committed protects its worker
\* from every claim, also from one that read the clock before it.
NoLeaseStealing ==
    [][\A d \in Delivery :
        /\ deliveries[d].state = "in_flight"
        /\ deliveries'[d].attempt_count # deliveries[d].attempt_count
        => deliveries[d].lease_expires_at <= now]_vars

\* After a failed attempt no other starts before the policy's delay has passed
\* on the database clock, whatever Retry-After said and however late the
\* claim and the completion ran after their clock readings.
BackoffRespected ==
    [][\A d \in Delivery :
        /\ deliveries[d].state = "retry"
        /\ deliveries'[d].state = "in_flight"
        => now >= deliveries[d].updated_at
                     + Delay(deliveries[d].attempt_count)]_vars

\* Every transaction ends: lock waits between claims, renewals and completions
\* never last, although the two lock orders can form a cycle.
TransactionsEnd ==
    \A s \in Session : tx[s].op # "idle" ~> tx[s].op = "idle"

\* A delivery as an item of the queue LeasedQueue specifies.
QueueItem(row) ==
    LET keep == Retention(row.state)
        Is(status, until) ==
            [status |-> status, claim |-> row.attempt_count, until |-> until] IN
    CASE row.state \in {"absent", "deleted"} -> Is("absent", 0)
      [] row.state \in {"pending", "retry"}  -> Is("waiting", row.next_attempt_at)
      [] row.state = "in_flight"             -> Is("leased", row.lease_expires_at)
      [] OTHER -> IF keep = 0 THEN Is("archived", 0)
                  ELSE Is("done", row.completed_at + keep)

Queue == INSTANCE LeasedQueue WITH
            Item <- Delivery, queue <- [d \in Delivery |-> QueueItem(deliveries[d])]

\* The transactions of the outbox, interleaved statement by statement, with
\* stale clock readings, lock waits and rollbacks, behave as a queue whose
\* operations are atomic: no claim before a delivery is due or while its lease,
\* as last renewed, lasts, no renewal of a lease that has ended or had run out
\* when the renewal read the clock, nothing removed that is not done and kept
\* for its retention.  That a renewal is its holder's is StaleClaimIsRefused.
ImplementsQueue == Queue!Spec
=============================================================================
