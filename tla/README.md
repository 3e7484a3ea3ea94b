# Hookbound: TLA+ models and proofs

Hookbound sends and receives webhooks. Its durable half keeps an outbox and an
inbox in PostgreSQL, worked off by leased workers; its in-memory half is an HTTP
sender with a network policy and an HTTP receiver with signature verification and
a replay guard. This directory models them, checks them with TLC on small
instances, shows that the two tables implement one abstract queue, and proves every
safety property that the passing runs check with TLAPS, for every value of the
constants.

## Inventory

| Part | State | Operations | What is hard | What makes it correct |
|---|---|---|---|---|
| Outbox (`postgres/store.go`, `cleanup.go`) | rows of `hookbound_deliveries` and `hookbound_attempts` | `ClaimDelivery`, `RenewDeliveryLease`, `CompleteDelivery`, `Cleanup` | transactions of several workers interleave between statements; leases expire under a live worker; opposite lock orders; late and repeated completions | delivery and attempts agree, finished history is never rewritten, a lease is not stolen, back-off is kept |
| Publication (same files) | `hookbound_messages`, `hookbound_deliveries` with the idempotency index | `EnqueueWithOptions`, `EnqueueTxWithOptions`, orphan `Cleanup` | two calls race for a key; COMMIT succeeds and the answer is lost; several publications in a caller's transaction; cleanup between two statements of a publication | a key stands for one publication, callers get what they asked for, nothing pending is removed |
| Inbox (same files) | rows of `hookbound_receipts` | `Handle`, `ClaimReceipt`, `RenewReceiptLease`, `CompleteReceipt`, `Cleanup` | redelivery at any time, keys that come back after retention | what is acknowledged is kept until done, done stays done |
| Runtime (`postgres/runtime.go`) | worker loops, a heartbeat goroutine per claim, contexts, timers | `Run`, `WorkOutboundOnce`, `WorkInboundOnce`, `leaseHeartbeat` | slow and failing renewals against the lease; Stop against a renewal under way; shutdown | no two workers work on one row, heartbeats end with their work, `Run` returns |
| Receiver and replay guard (`receiver.go`, `replay.go`) | the guard's bounded map, requests under way | `ServeHTTP`, `Claim`, `Commit`, `Release` | concurrent duplicates, panics, cancelled waiters, a full map | one owner per claim, 2xx means handled, no replay within the TTL |
| Retry policy, classification (`retry.go`, `outcome.go`, `sender.go`) | none | `Next`, `Classify`, `retryAfter` | boundaries: last attempt, Retry-After, jitter, clock skew | retries stay in their window and end |
| Migrations (`postgres/migrate.go`) | migration ledger | `MigrateWithConfig` | concurrent migrators of several releases, a failure half way, an edited file | files take effect once, in order, all or nothing; success means the schema of the release |
| Standard Webhooks, Stripe and GitHub (`standard/`, `provider/`) | the keys providers return, at each request | `Sign`, `Verify` | key rotation while requests are on the way; failing key providers; clock offset and the tolerance's ends; copies, delays and changed headers | handlers see what was sent; genuine requests are not refused for good; a copy is not handled again before the last instant its timestamp is valid |
| Network policy (`transport/policy.go`, `sender.go`) | idle connections, dials under way, the policy given | `ValidateURL`, `DialContext`, `Send` | names that resolve differently each time; connections that outlive their request; a policy changed by its owner | requests reach only addresses and ports the policy permits |
| Handler registry, message validation, authenticators, identifiers, CLI, test kit | a map filled before serving, or none | | | not modelled |

How they interact: the receiver calls `Store.Handle` as its handler
(`Runtime.Receiver`), so an acknowledged request is a committed receipt. The
runtime's workers call the claim, renewal and completion operations of both
tables; the sender's result goes through classification and the retry policy
into `CompleteDelivery`. The verifiers stand between the network and the replay
guard, whose identity is the message id they return. `Cleanup` is called by operators, at any time and from
several processes.

## Modules

| Module | Models | Correspondence |
|---|---|---|
| `RetryPolicy` | `RetryPolicy.Next` | `RetryAllowed` is its boolean, `NextTimes` every time it can return |
| `Outcome` | `DefaultClassifier`, `Sender.Send`'s results, `normalizedOutcome`, `deliveryTransition` | `AttemptResults` is every result a worker can complete with |
| `LeasedQueue` | what the store promises workers | abstract: claim, renew, end, add and remove as single steps on `queue` |
| `Outbox` | deliveries and attempts | `tx[s]` is the open transaction of a session; one action per statement |
| `Inbox` | receipts | as `Outbox`; `gen` numbers the insertions of one key, a history variable |
| `Publication` | idempotent publication and orphan cleanup | `calls[c].pc` names the statement a call runs next; `CallerTx` are the calls made in one transaction of a caller |
| `Runtime` | worker and heartbeat goroutines | `workers[w].pc` and `.heartbeat` are the two goroutines; time is real |
| `Receiver` | HTTP requests over the replay guard | one action per critical section of the guard's mutex |
| `Exchange` | sender, network and verifiers around `Receiver`, with key rotation | `sent` is what is on the network, `arrivals[q]` what a request carries and the verdict on it: accepted, refused (4xx) or unavailable (500); `signing` and `trusted` are what the key providers return when they answer; `eventType` is what is read of a message as its event type |
| `Transport` | one `Sender` under a policy | `sends[s]` is a call of `Send`, `dials[s]` the dial net/http may have started for it |
| `Migrations` | the migrator on one schema | `calls[p]` is a call with what its transaction has written; a file name is its place in the order |
| `OutboxProofs`, `InboxProofs`, `PublicationProofs`, `RuntimeProofs`, `ReceiverProofs`, `ExchangeProofs`, `TransportProofs`, `MigrationsProofs` | theorems | one inductive invariant per module, one lemma per operation; `ExchangeProofs` extends `ReceiverProofs` |
| `MC*` | instances for TLC | |

`Outbox` extends `Outcome`, which extends `RetryPolicy`; `Inbox` extends
`RetryPolicy`; both instantiate `LeasedQueue`. `Exchange` extends `Receiver`, whose
verdict on a request, a choice there, is computed here. `Runtime` abstracts the row that `Outbox` and `Inbox` describe to
its lease, and `Publication` abstracts a delivery to pending or terminal.

A definition whose comment begins with "Faulty:" is not used by any
specification. It is the definition below it with a plausible mistake in it;
substituting it must violate a property, which shows that the property is about
the code.

### Conventions

PostgreSQL is external and modelled from how the code uses it: READ COMMITTED;
a statement sees what was committed when it started and its own transaction's
writes; row locks last to the end of the transaction; an UPDATE waits for a lock
and evaluates its WHERE again; SKIP LOCKED does not wait; an insert waits for an
uncommitted entry of the same key in a unique index; a foreign key check shares
the parent's key; a wait cycle aborts one member. Every transaction can be
aborted at every point, which stands for errors, cancelled contexts, lost
connections and crashes. A claim's handle is kept for ever, so delays,
repetitions and stale calls by workers are behaviours of the model.

Time is an integer. A clock reading is a step of its own, so it can be old by
the time it is used. `NoTime` is SQL NULL or Go's zero time.

Cryptography is symbolic: a signature is a key and the content it covers, and
nobody else can make one. The network repeats, delays, reorders and loses
requests, and an intermediary may change the id, the timestamp or the body.
net/http and the name service are external: a request goes out on whichever
connection to its scheme, host and port is free first, and every lookup may have
another answer.

## Runs

| Run | Instance | Shows |
|---|---|---|
| `outbox` | 1 delivery, 2 sessions, schedule 1 and 5 ticks, 3 claims, clock to 3 | the row and its attempts tell one story; retries in their window; no history rewritten; a worker that lost its delivery neither renews nor completes it; the table implements `LeasedQueue`; every transaction ends, the deadlock of claim and completion included |
| `inbox` | 1 message, 2 contents, 2 sessions, 2 insertions of the key | what was acknowledged is kept; the table implements `LeasedQueue`; a claim that was lost changes nothing |
| `inbox_stale` | the same | finding 1 |
| `publication` | 3 calls, two of them in one transaction, 1 key, 1 explicit ID, 2 contents, 2 destinations, clock to 2 | one publication per key, as requested, no message left by a race, no pending delivery of a generated ID removed by cleanup; every call ends, deadlocks included |
| `publication_orphan` | 2 calls, an explicit ID, cleanup | finding 2 |
| `publication_content` | 3 calls, an explicit ID, cleanup | finding 3 |
| `runtime` | 2 workers, 2 claims, lease 4, interval 1, timeout 1, claim latency 1, clock to 7 | work is exclusive, renewals return in time, none outlives its work; `Run` returns, with all work and heartbeats ended |
| `runtime_accepted` | lease 5, interval 2, timeout 2 | finding 4 |
| `receiver` | 3 requests, 2 messages, a guard of one entry, TTL 1, clock to 2 | ownership, 2xx means handled, no replay within the TTL; every request ends |
| `exchange` | 2 messages, 2 attempts, 2 requests, 3 schemes, 3 clock offsets, valid, invalid and unreadable event types, providers that fail, one rotation | what is handled was sent; genuine requests with a valid type are never answered 4xx, at any point of a rotation; a 2xx means that message was handled; no second handling before the last instant the timestamp is valid |
| `transport` | 2 sends, 5 URLs, 3 policies, a public and a private address | requests go only where the policy permits; one forbidden address in an answer refuses them all |
| `migrations` | 3 processes; a release of 2 files, one with a third, one with the first changed; 1 or 2 statements a file | files take effect once, in order, all or nothing; success means the schema of the release; every call ends |

`ImplementsQueue` says of both tables what callers rely on: no claim before a row
is due or while its lease, as last renewed, lasts; no renewal of a lease that has
ended, or had run out when the renewal read the clock; nothing removed that is not
done and past its retention. `LeasedQueue` does not say who renews: that a worker
cannot extend the lease, or finish the claim, of the one that took its row over is
`StaleClaimIsRefused`, checked and proved for both tables. Claims and renewals are dated by clock readings that may be old when
they commit, which is why `Claim` and `Renew` of `LeasedQueue` take effect at
some `t <= now`.

`GenuineIsAccepted` is about the 4xx answers, which a sender takes for permanent
failures. It does not say that every genuine request is handled: when a key or
secret provider fails or returns nothing, the receiver answers 500 and the sender
tries again. It speaks of messages with a valid event type. `Sender` validates the
`EventType` it is given and not the body, while the default verifier reads the type
from the body's JSON `type` field, Stripe's the id and the type, and GitHub's the
event header and the body's `action`; so a body without such a field can be signed
and sent, and is refused with 400 unless the verifier is configured with
`AllowNoType` or an extractor of its own. What an extractor lets pass,
`VerifiedMessage.Validate` may still refuse. The property supposes a rotation that
waits: the verifier trusts the new key before the sender signs with it alone, and
drops the old one when every request signed without the new one has left the
tolerance. `HandledAsSent` and
`AnsweredIsHandled` are as strong as the scheme: GitHub signs the body only, so an
intermediary can change the delivery id that replay protection uses, as
`docs/audit-v0.1.0.md` notes, and Stripe's id is inside the signed body.
`OncePerWindow` with TTL = 2 * tolerance, the ratio of the defaults, says that a
copy is not handled again before timestamp + tolerance: the TTL runs from the
commit, which is never earlier than timestamp - tolerance. That very instant is not
covered: the tolerance includes both of its ends and an entry is gone at its expiry,
so a request accepted at the first instant of the window may have a copy accepted
at the last.

### Bounds

The bounds are named constants: `MaxTime` stops the clock, `MaxClaims` bounds
claims of a row, `MaxGen` the insertions of a receipt key. In the outbox three
claims reach an abandoned attempt, a retry and the exhausted last attempt; the
clock reaches a lease that expires, is renewed and expires again, a back-off and
a retention. Two sessions are enough for every pair of operations to interleave;
several deliveries are left to the proofs, which hold for any number. Two insertions of a receipt key are the least
at which a handle can be older than its row. A third publication is the least at
which one caller wins a key, one loses it and one comes back, and at which a
caller's transaction deadlocks with another call. All three race while nothing is
old enough to be removed; with `Cleanup` two of them do (`Early` and `Bound` in
`MCPublication`): with three, finding 3 is reached, which has a run of its own. The
constraint cuts only clock steps and beginnings of calls, neither of which is
subject to fairness. The runtime's clock
covers a lease that is renewed, lost and claimed again. In the receiver two
messages and one entry make the guard full, and three requests give an owner, a
waiter and a stranger; the proofs hold for any number. Three migrating processes
are enough for one to hold the lock, one to wait and one to have finished; calls
repeat without a bound. In the exchange one second is two ticks, so a signed
timestamp is truncated; the tolerance is shorter than a second, so both of its
ends are met and missed; an offset of 40 ticks lies beyond `DurationLimit`, where
`time.Time.Sub` saturates. `MCPairing` chooses the combinations of scheme, offset
and event types: with an offset of 0 a rotation ends in time for requests that
arrive after it, with 1 timestamps lie in the future, and the message without a
valid type is refused by the verifier in one pair and by `Validate` in another;
the proofs hold for all combinations. In the transport two sends are enough for one to use the
connection that the other made.

Symmetry is used over sessions, calls, requests, sends, message keys and
uninterpreted contents, in runs without liveness.

Deadlock checking is off where the system may stop: all requests answered, all
calls returned, all workers left after a shutdown.

### Fairness

`Outbox`: strong fairness of each session's next step, since PostgreSQL's lock
queues serve a waiter, and weak fairness of the deadlock detector. Nothing
obliges a worker to begin anything. `Publication`: the same for calls that have
begun and cleanups that have begun; a caller is supposed to end a transaction in
which it publishes, as users of `sql.Tx` must. `Runtime`: goroutines run and sends and
handlers return (`docs/reliability.md` asks them to respond to cancellation);
leaving a loop through `ctx.Done` is strongly fair because Go's `select` chooses
among ready cases at random. `Receiver`: goroutines run and handlers return. `Migrations`:
strong fairness of a call's next step, for the same reason as in `Outbox`.

## Proofs

`OutboxProofs` proves, for any sets of deliveries and sessions and any schedule,
leases, retention and bounds that satisfy the assumptions, everything that run
`outbox` checks. `AttemptLedger`, `OutcomeAgreement` and `RetryBounded` are not
inductive: what a completion will write is decided in one step and written in a
later one, and what a claim saw must still hold when it commits. The inductive
invariant `IInv` adds

- `Claimed`: a delivery has attempts exactly in the states that follow a claim;
- `RetriesAllowed`: a delivery in state retry was allowed one;
- `TxTyped`, `TxVerdict`: an open completion carries a verdict that
  `deliveryTransition` can return for its attempt at its clock reading;
- `TxClaim`: a claim's row lock is exclusive and its row is still due;
- `TxComplete`: a completion that has written its attempt is the only one, and
  its delivery is in flight with that attempt.

`Invariance` has one lemma per operation. `TxComplete` is why
`CompletionNeverHalf` holds: the attempt's row lock alone makes the delivery
match, so the second conflict check of `CompleteDelivery` never fires. The action
properties follow from the invariant and `RowChanges`, which lists what a step
can do to one row. `StaleClaimIsRefused` needs one fact more, `HandlesOK`: no handle
is ahead of its row, since delivery ids are never reused and attempts only grow; a
write that matches the row's attempt number is then by the latest claim.

The refinement, `Spec => ImplementsQueue`, is proved there too. The mapping `QueueItem` reads an
item off a row: a pending or retried row waits until `next_attempt_at`, one in
flight is leased until `lease_expires_at`, a terminal one is done until its
retention ends, and its claim is `attempt_count`. There is one lemma per operation:
only the COMMIT of a claim, a renewal, a completion or a cleanup, and the insertion
of a delivery, change an item, each by one step of the queue; all other statements
stutter. That a claim which committed later than it read the row is still a claim
of a due item is `TxClaim` of the invariant; that a completion ends a lease and not
something else is `TxComplete`.

`RuntimeProofs` proves the safety properties of run `runtime` for any number of
workers. Type correctness and `NoRenewalAfterWork` need only what `NewRuntime`
checks. `ExclusiveWork` and `RenewalInTime` need `Timely`: interval + 2 timeouts <
lease, and claim latency + interval + timeout < lease. `NewRuntime` requires
neither (finding 4), and nothing in the code bounds the claim's latency: it is an
assumption about the database. The invariant follows the heartbeat of the row's
owner around its cycle (`Ahead`: how far its deadline lies before the lease's end
when waiting, renewing and after the write) and says that work which is not
cancelled owns the row. So a claim that finds the lease expired finds nobody at
work.

`ReceiverProofs` proves the safety properties of run `receiver` for any sets of
requests and messages. The invariant adds to `ClaimOwnership` what a request's
result may be at each point (`Progress`), that an accepted entry has a request
whose handler succeeded, and that the guard remembers a committed success until
it expires (`Remembered`). The bound on entries needs that they are finitely many,
which is proved along with it, since `Key` may be infinite.

`ExchangeProofs` proves what run `exchange` checks for any messages, requests,
clock offsets, tolerance and TTL, and that the exchange implements `Receiver`, so
that the receiver's theorems hold in front of real verifiers as well. `EInv` extends
the receiver's invariant. `SentOK` and `ArrivalOK` say that a packet on the network
carries signatures of its own content and that an arriving request, whatever else
was changed, carries the signatures of some packet that was sent; with `AcceptedOK`
they give `HandledAsSent`, without any assumption about the rotation: wrong keys can
refuse a request, never forge one. `RotationInv` orders the steps of a rotation: the
sender signs with the new key alone only when it is trusted, and the old key is
dropped only when everything signed without the new one has left the tolerance. From
it `RefusedOK`, and so `GenuineIsAccepted`, follows: a request passes all that is
checked before the providers are asked unless it is late, and then a provider that
answers has a key of it and one that does not makes the answer a 500; the theorem
supposes a positive
tolerance, since with timestamps unchecked old requests never expire and no rotation
can wait for them. `AnsweredIsHandled` combines `SuccessMeansHandled` of the receiver
with the fact that the identity a request is deduplicated by is signed.
`OncePerWindow` combines `NoReplayWithinTTL` with `ServedOK`: an entry expires a TTL
after a clock reading that is not before the request was received, and so not
before the timestamp became valid.

`TransportProofs` proves both properties of run `transport` for any policies, names,
addresses and destinations. The invariant says that a request which waits has
passed the URL check and that its dial is to its own destination, that a dial
tries nothing before all addresses of its one lookup are permitted, and that kept
connections were made to permitted addresses; `Unmapped` is why checking the plain
form of an address suffices.

`InboxProofs` proves what run `inbox` checks for any messages, sessions and bounds.
The invariant adds to `AckedIsKept` what a session carries from one statement to the
next (`SessionOK`), that a row under FOR UPDATE is as its claimer read it and still
due (`LockOK`, `Exclusive`), that no claim handle is ahead of its row (`HandleOK`)
and that a receipt which is done has been recorded so. `HandleOK` is why a stale
claim is refused: the code compares attempt numbers only, and while the receipt of a
handle exists nobody holds a higher number than the row's. The refinement is proved
as in `OutboxProofs`. In it a write through a handle of an earlier insertion of the
key (finding 1) is a step of the claim that holds the row, so it says nothing
against such a write.

`MigrationsProofs` proves what run `migrations` checks for any number of processes,
any releases and any number of statements. `IndInv` says of an open transaction that
it has merged every file of its release before the one in hand, that each ledger row
it wrote is a file of its release that nobody else has recorded, and that what it
executed is exactly what those rows and the statements so far of the file in hand
say (`TxOK`). The advisory lock, part of `TypeOK`, makes the transaction the only one.
`LedgerIsTrue` and `DoneMeansMigrated` need no assumption about the releases.
`AppliedInOrder` needs `ReleasesAppend`: a release that inserts a file before one
that is applied already has it executed late, by design; the releases of the run
satisfy it, which TLC evaluates.

`PublicationProofs` proves what run `publication` checks for any calls, calls in a
caller's transaction, keys, IDs, contents, destinations and retention, without the
run's constraint. A COMMIT moves what several calls hold into two tables at once, so
the parts of the invariant take the tables as arguments and each lemma speaks of two
sets of tables. They are what the code takes from PostgreSQL and what its statements
add:

- `CallInv`: one call of a transaction runs at a time, and what it has inserted so
  far;
- `InsertInv`, `KeyInv`: the unique indexes on message ID and key, over committed and
  uncommitted rows together;
- `RowInv`, `LockInv`: the foreign key, and the lock by which an uncommitted delivery
  keeps its message from Cleanup;
- `UsedInv`: a transaction that is about to commit a message holds a delivery of it,
  from which `NoUnsentMessage` follows;
- `AnswerInv`: the delivery a call will return is one of its own transaction, or one
  that was committed, and fits the request as long as it exists. With `KeyInv` it
  gives `KeyMeansOnePublication`, with `RowInv` `PublishedAsRequested`;
- `BackedInv`: between the statement that stored or compared the message and the
  insert of the delivery the content stays what was asked for. It holds only for
  messages that Cleanup cannot have replaced (`Protected`), which is finding 3 seen
  from the proof;
- `CleanInv`: what Cleanup has picked. A generated ID among the orphans has no
  delivery left and its call has ended, so none can follow: `PendingIsKept`. For an
  explicit ID that does not hold, which is finding 2.

Only model-checked: liveness (`TransactionsEnd`, `EveryRequestEnds`, `EveryCallEnds`,
`RunReturns`), which is out of this prover's reach. Every other property of a passing
run is proved. The properties of the four runs that end in a violation are false of
the code. The constants of the proofs satisfy the named assumptions of the modules;
the assumptions of single theorems are `Timely`, `Tolerance > 0` and `ReleasesAppend`
as above.

## Findings

1. `inbox_stale`: attempts of a redelivered receipt count from 1 again, so a
   worker that still holds attempt 1 of the removed receipt completes the claim
   of another worker on the new one. Outbound deliveries are safe, since their
   attempt IDs are random and checked.
2. `publication_orphan`: cleanup decides that a message is an orphan in its
   snapshot and locks it later. A publication for that explicit message ID which
   commits in between loses its pending delivery to the cascade.
3. `publication_content`: a publication for an existing explicit message ID compares
   the stored content without locking the row. Cleanup can remove that message, and
   another publication store other content under the ID, before the first one
   inserts its delivery, which then sends content its caller never gave.
   `PublishedAsRequested` therefore speaks of generated IDs, and of explicit ones as
   long as no message is old enough to be removed.
4. `runtime_accepted`: `NewRuntime` requires interval + timeout < lease, but two
   renewals can start interval + timeout apart with the first dated at its start,
   so interval + 2 timeouts < lease is what keeps a renewal inside the lease.

## Not modelled

- In `Exchange`: ids and the name of the source are valid, GitHub's event header
  comes with the body it was sent with, verifiers are configured as their
  constructors demand, and an extractor's error is one of those answered 400, as
  `JSONTypeField`'s are. A custom `ErrorResponder` may answer otherwise.
- Byte encodings (header syntax, base64, hex, percent escapes), limits on sizes and
  counts beyond what `ValidKeys`, `ParseSignatures` and `ParseHeader` keep, and the
  strength of the cryptography.
- `Policy.Proxy` and `UnsafeHTTPClient`, which hand the decision to somebody else.
- What else a caller's transaction locks besides its publications.
- Handler registry: a map that is filled before serving and a lookup; its errors
  are inputs of `Receiver` and `Inbox`. Message validation, authenticators and
  identifiers are pure functions of their arguments or of randomness; what
  validation decides about a message's type is an input of `Exchange`.
- The command line and the test kit: they call what is modelled.
- Two schemas being migrated at once: they share no row and no lock.
- Stored audit data (response bodies, headers, error details): no operation
  reads it back.

## Plan

1. A composition of `Exchange` with `Inbox`: an HTTP 2xx implies a receipt that is
   kept until it is done.
2. What the two queues imply for a worker, proved once of `LeasedQueue` and taken
   over by both tables through their refinements.
