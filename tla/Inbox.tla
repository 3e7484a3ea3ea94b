-------------------------------- MODULE Inbox ---------------------------------
(***************************************************************************)
(* The inbound half of postgres.Store: hookbound_receipts, written by      *)
(* Handle when a provider delivers a message, worked off by ClaimReceipt,  *)
(* RenewReceiptLease and CompleteReceipt, emptied by Cleanup.              *)
(*                                                                         *)
(* The conventions are those of Outbox: one action per statement, clock    *)
(* readings and row locks as separate steps, handles kept for ever.  A     *)
(* receipt has no attempt rows and its key comes from the provider, so a   *)
(* removed receipt can be inserted again.  `gen' numbers the insertions of *)
(* one key; it is history, no guard reads it.                              *)
(***************************************************************************)
EXTENDS RetryPolicy, FiniteSets

CONSTANTS
    Message,           \* (source, message ID) pairs
    NoMessage,
    Content,           \* event type, body and content type
    NoContent,
    Session,           \* database sessions
    HandlerErrors,     \* error codes of failed handlers
    Lease,
    ReceiptRetention,  \* RetentionPolicy; 0 disables it
    BatchSize,
    MaxTime,           \* bound: the clock stops here
    MaxClaims,         \* bound: claims per insertion
    MaxGen             \* bound: insertions per key

ASSUME InboxAssumption ==
    /\ NoMessage \notin Message
    /\ NoContent \notin Content
    /\ HandlerErrors \subseteq STRING
    /\ Lease \in Nat \ {0}
    /\ ReceiptRetention \in Nat
    /\ BatchSize \in Nat \ {0}
    /\ MaxTime \in Nat
    /\ MaxClaims \in Nat \ {0}
    /\ MaxGen \in Nat \ {0}

VARIABLES
    now,       \* PostgreSQL's clock_timestamp()
    receipts,  \* hookbound_receipts, committed contents
    claims,    \* the handles ClaimReceipt returned
    tx,        \* what each session is doing
    acked,     \* history: the <<message, gen, content>> Handle acknowledged
    finished   \* history: the <<message, gen>> that reached a terminal state

vars == << now, receipts, claims, tx, acked, finished >>

Done == {"processed", "failed", "exhausted"}

Absent(gen) ==
    [state |-> "absent", gen |-> gen, content |-> NoContent, attempt_count |-> 0,
     next_attempt_at |-> NoTime, lease_expires_at |-> NoTime,
     received_at |-> NoTime, updated_at |-> NoTime, processed_at |-> NoTime]

Open(op, m, t) ==
    [op |-> op, message |-> m, gen |-> 0, attempt |-> 0, now |-> t,
     content |-> NoContent, state |-> "absent", next |-> NoTime]

Idle == Open("idle", NoMessage, NoTime)

Init ==
    /\ now = 0
    /\ receipts = [m \in Message |-> Absent(0)]
    /\ claims = {}
    /\ tx = [s \in Session |-> Idle]
    /\ acked = {}
    /\ finished = {}

Tick ==
    /\ now < MaxTime
    /\ now' = now + 1
    /\ UNCHANGED << receipts, claims, tx, acked, finished >>

End(s) == tx' = [tx EXCEPT ![s] = Idle]

-----------------------------------------------------------------------------
(* Handle *)

\* A provider delivers m, for the first time or again; the clock reading.
HandleBegin(s, m, c) ==
    /\ tx[s].op = "idle"
    /\ tx' = [tx EXCEPT ![s] = [Open("inserting", m, now) EXCEPT !.content = c]]
    /\ UNCHANGED << now, receipts, claims, acked, finished >>

Received(gen, c, t) ==
    [Absent(gen) EXCEPT !.state = "pending", !.content = c,
        !.next_attempt_at = t, !.received_at = t, !.updated_at = t]

\* INSERT ... ON CONFLICT DO NOTHING; one row inserted acknowledges.
HandleInsert(s) ==
    LET m   == tx[s].message
        gen == receipts[m].gen + 1 IN
    /\ tx[s].op = "inserting"
    /\ receipts[m].state = "absent"
    /\ gen <= MaxGen
    /\ receipts' = [receipts EXCEPT ![m] = Received(gen, tx[s].content, tx[s].now)]
    /\ acked' = acked \cup {<< m, gen, tx[s].content >>}
    /\ End(s)
    /\ UNCHANGED << now, claims, finished >>

HandleConflict(s) ==
    /\ tx[s].op = "inserting"
    /\ receipts[tx[s].message].state # "absent"
    /\ tx' = [tx EXCEPT ![s].op = "reading"]
    /\ UNCHANGED << now, receipts, claims, acked, finished >>

\* Faulty: any existing receipt acknowledges.
SameIdentity(row, c) == row.state # "absent"

SameContent(row, c) == row.state # "absent" /\ row.content = c

\* The SELECT of the existing receipt, in a snapshot of its own: the row may be
\* gone ("read existing webhook receipt") or differ (CodeConflict).
HandleRead(s) ==
    LET m   == tx[s].message
        row == receipts[m] IN
    /\ tx[s].op = "reading"
    /\ acked' = IF SameContent(row, tx[s].content)
                THEN acked \cup {<< m, row.gen, tx[s].content >>}
                ELSE acked
    /\ End(s)
    /\ UNCHANGED << now, receipts, claims, finished >>

-----------------------------------------------------------------------------
(* ClaimReceipt *)

ClaimBegin(s) ==
    /\ tx[s].op = "idle"
    /\ tx' = [tx EXCEPT ![s] = Open("claiming", NoMessage, now)]
    /\ UNCHANGED << now, receipts, claims, acked, finished >>

\* FOR UPDATE of an unfinished claim.
RowLocked(m) ==
    \E s \in Session : tx[s].op = "row_locked" /\ tx[s].message = m

\* Faulty: next_attempt_at is consulted for new receipts only.
DueWithoutBackoff(m, t) ==
    LET row == receipts[m] IN
    \/ row.state = "retry"
    \/ row.state = "pending" /\ row.next_attempt_at <= t
    \/ row.state = "processing" /\ row.lease_expires_at <= t

Due(m, t) ==
    LET row == receipts[m] IN
    \/ row.state \in {"pending", "retry"} /\ row.next_attempt_at <= t
    \/ row.state = "processing" /\ row.lease_expires_at <= t

Candidates(t) ==
    { m \in Message : /\ Due(m, t)
                      /\ ~RowLocked(m)
                      /\ receipts[m].attempt_count < MaxClaims }

\* ORDER BY next_attempt_at, received_at
NotAfter(m, o) ==
    LET r == receipts[m]
        q == receipts[o] IN
    \/ r.next_attempt_at < q.next_attempt_at
    \/ r.next_attempt_at = q.next_attempt_at /\ r.received_at <= q.received_at

\* SELECT ... FOR UPDATE SKIP LOCKED LIMIT 1
ClaimSelect(s) ==
    /\ tx[s].op = "claiming"
    /\ \E m \in Candidates(tx[s].now) :
        /\ \A o \in Candidates(tx[s].now) : NotAfter(m, o)
        /\ tx' = [tx EXCEPT ![s].op = "row_locked", ![s].message = m,
                            ![s].gen = receipts[m].gen,
                            ![s].attempt = receipts[m].attempt_count + 1]
    /\ UNCHANGED << now, receipts, claims, acked, finished >>

ClaimNothing(s) ==
    /\ tx[s].op = "claiming"
    /\ Candidates(tx[s].now) = {}
    /\ End(s)
    /\ UNCHANGED << now, receipts, claims, acked, finished >>

\* UPDATE and COMMIT.
ClaimCommit(s) ==
    LET m == tx[s].message IN
    /\ tx[s].op = "row_locked"
    /\ receipts' = [receipts EXCEPT
            ![m].state = "processing", ![m].attempt_count = tx[s].attempt,
            ![m].lease_expires_at = tx[s].now + Lease,
            ![m].updated_at = tx[s].now]
    /\ claims' = claims \cup {<< m, tx[s].gen, tx[s].attempt >>}
    /\ End(s)
    /\ UNCHANGED << now, acked, finished >>

-----------------------------------------------------------------------------
(* RenewReceiptLease and CompleteReceipt: one statement each, which waits for *)
(* the row lock of a claim and then re-evaluates its WHERE.                   *)

Using(op, h) ==
    [Open(op, h[1], now) EXCEPT !.gen = h[2], !.attempt = h[3]]

RenewBegin(s, h) ==
    /\ tx[s].op = "idle"
    /\ tx' = [tx EXCEPT ![s] = Using("renewing", h)]
    /\ UNCHANGED << now, receipts, claims, acked, finished >>

\* Faulty: any worker's lease is renewed.
CurrentUnchecked(s) == receipts[tx[s].message].state = "processing"

\* state = 'processing' AND attempt_count = $n; a handle carries no more.
Current(s) ==
    LET row == receipts[tx[s].message] IN
    row.state = "processing" /\ row.attempt_count = tx[s].attempt

Renewed(s) ==
    LET m == tx[s].message IN
    IF Current(s) /\ receipts[m].lease_expires_at > tx[s].now
    THEN [receipts EXCEPT ![m].lease_expires_at = tx[s].now + Lease,
                          ![m].updated_at = tx[s].now]
    ELSE receipts

RenewExec(s) ==
    /\ tx[s].op = "renewing"
    /\ ~RowLocked(tx[s].message)
    /\ receipts' = Renewed(s)
    /\ End(s)
    /\ UNCHANGED << now, claims, acked, finished >>

\* Every (state, next attempt) receiptTransition can return.
ReceiptTransitions(t, attempt, code) ==
    CASE code = "nil" -> {[state |-> "processed", next |-> NoTime]}
      [] code \in {"invalid_configuration", "invalid_message", "decode",
                   "unknown_event"} ->
            {[state |-> "failed", next |-> NoTime]}
      [] OTHER ->
            IF RetryAllowed(attempt)
            THEN { [state |-> "retry", next |-> next] : next \in NextTimes(t, attempt) }
            ELSE {[state |-> "exhausted", next |-> NoTime]}

CompleteBegin(s, h) ==
    /\ tx[s].op = "idle"
    /\ \E code \in HandlerErrors \cup {"nil"} :
       \E transition \in ReceiptTransitions(now, h[3], code) :
         tx' = [tx EXCEPT ![s] = [Using("completing", h) EXCEPT
                                    !.state = transition.state,
                                    !.next = transition.next]]
    /\ UNCHANGED << now, receipts, claims, acked, finished >>

\* Faulty: the lease survives.
CompletedLeased(row, t) ==
    [row EXCEPT
        !.state = t.state,
        !.next_attempt_at = IF t.next # NoTime THEN t.next ELSE @,
        !.processed_at = IF t.state \in Done THEN t.now ELSE NoTime,
        !.updated_at = t.now]

Completed(row, t) ==
    [row EXCEPT
        !.state = t.state,
        !.next_attempt_at = IF t.next # NoTime THEN t.next ELSE @,
        !.lease_expires_at = NoTime,
        !.processed_at = IF t.state \in Done THEN t.now ELSE NoTime,
        !.updated_at = t.now]

CompleteExec(s) ==
    LET m == tx[s].message IN
    /\ tx[s].op = "completing"
    /\ ~RowLocked(m)
    /\ IF Current(s)
       THEN /\ receipts' = [receipts EXCEPT ![m] = Completed(@, tx[s])]
            /\ finished' = IF tx[s].state \in Done
                           THEN finished \cup {<< m, receipts[m].gen >>}
                           ELSE finished
       ELSE UNCHANGED << receipts, finished >>
    /\ End(s)
    /\ UNCHANGED << now, claims, acked >>

-----------------------------------------------------------------------------
(* Cleanup, the receipts category; and failures. *)

CleanupBegin(s) ==
    /\ tx[s].op = "idle"
    /\ ReceiptRetention > 0
    /\ tx' = [tx EXCEPT ![s] = Open("cleaning", NoMessage, now)]
    /\ UNCHANGED << now, receipts, claims, acked, finished >>

ExpiredReceipts(t) ==
    { m \in Message : /\ receipts[m].state \in Done
                      /\ receipts[m].processed_at < t - ReceiptRetention }

Batches(rows) ==
    { batch \in SUBSET rows :
        /\ Cardinality(batch) =
             IF Cardinality(rows) < BatchSize THEN Cardinality(rows) ELSE BatchSize
        /\ \A m \in batch, o \in rows \ batch :
             receipts[m].processed_at <= receipts[o].processed_at }

CleanupCommit(s) ==
    /\ tx[s].op = "cleaning"
    /\ \E removed \in Batches(ExpiredReceipts(tx[s].now)) :
         receipts' = [m \in Message |->
            IF m \in removed THEN Absent(receipts[m].gen) ELSE receipts[m]]
    /\ End(s)
    /\ UNCHANGED << now, claims, acked, finished >>

\* An error, a cancelled context or a crash before COMMIT.
Abort(s) ==
    /\ tx[s].op # "idle"
    /\ End(s)
    /\ UNCHANGED << now, receipts, claims, acked, finished >>

-----------------------------------------------------------------------------
Next ==
    \/ Tick
    \/ \E s \in Session :
        \/ \E m \in Message, c \in Content : HandleBegin(s, m, c)
        \/ HandleInsert(s) \/ HandleConflict(s) \/ HandleRead(s)
        \/ ClaimBegin(s) \/ ClaimSelect(s) \/ ClaimNothing(s) \/ ClaimCommit(s)
        \/ \E h \in claims : RenewBegin(s, h) \/ CompleteBegin(s, h)
        \/ RenewExec(s) \/ CompleteExec(s)
        \/ CleanupBegin(s) \/ CleanupCommit(s)
        \/ Abort(s)

Spec == Init /\ [][Next]_vars

-----------------------------------------------------------------------------
(* Properties. *)

Times == Nat \cup {NoTime}

ReceiptRow ==
    [state : {"absent", "pending", "processing", "retry"} \cup Done,
     gen : 0 .. MaxGen, content : Content \cup {NoContent},
     attempt_count : 0 .. MaxClaims, next_attempt_at : Times,
     lease_expires_at : Times, received_at : Times, updated_at : Times,
     processed_at : Times]

Transaction ==
    [op : {"idle", "inserting", "reading", "claiming", "row_locked", "renewing",
           "completing", "cleaning"},
     message : Message \cup {NoMessage}, gen : 0 .. MaxGen,
     attempt : 0 .. MaxClaims, now : Times, content : Content \cup {NoContent},
     state : {"absent", "retry"} \cup Done, next : Times]

\* Type invariant; a receipt has a lease exactly while it is processing and a
\* processing time exactly when it is done.
TypeOK ==
    /\ now \in Nat
    /\ receipts \in [Message -> ReceiptRow]
    /\ claims \subseteq Message \X (1 .. MaxGen) \X (1 .. MaxClaims)
    /\ tx \in [Session -> Transaction]
    /\ acked \subseteq Message \X (1 .. MaxGen) \X Content
    /\ finished \subseteq Message \X (1 .. MaxGen)
    /\ \A m \in Message :
        /\ receipts[m].lease_expires_at # NoTime <=> receipts[m].state = "processing"
        /\ receipts[m].processed_at # NoTime <=> receipts[m].state \in Done

\* What Handle acknowledged is kept, with the content it acknowledged, until
\* it is done: no redelivery replaces it, no conflicting content is
\* acknowledged, no cleanup, claim or completion loses it.
AckedIsKept ==
    \A m \in Message, g \in 1 .. MaxGen, c \in Content :
        << m, g, c >> \in acked =>
            \/ << m, g >> \in finished
            \/ /\ receipts[m].state # "absent"
               /\ receipts[m].gen = g
               /\ receipts[m].content = c

\* A renewal or completion that writes to the receipt it claimed holds the
\* latest claim of it: a worker that lost its lease changes nothing any more.
StaleClaimIsRefused ==
    [][\A s \in Session :
        /\ tx[s].op \in {"renewing", "completing"}
        /\ tx'[s].op = "idle"
        /\ receipts' # receipts
        /\ receipts[tx[s].message].gen = tx[s].gen
        => \A h \in claims :
             h[1] = tx[s].message /\ h[2] = tx[s].gen => h[3] <= tx[s].attempt]_vars

\* "A stale worker cannot renew or complete a claim after another worker
\* reclaims it" (docs/reliability.md): when a renewal or completion writes, no
\* later claim of that message, redelivered or not, has been handed out.
OnlyLatestClaimWrites ==
    [][\A s \in Session :
        /\ tx[s].op \in {"renewing", "completing"}
        /\ tx'[s].op = "idle"
        /\ receipts' # receipts
        => \A h \in claims : h[1] = tx[s].message =>
             \/ h[2] < tx[s].gen
             \/ h[2] = tx[s].gen /\ h[3] <= tx[s].attempt]_vars

\* A receipt as an item of the queue LeasedQueue specifies.
QueueItem(row) ==
    LET Is(status, until) ==
            [status |-> status, claim |-> row.attempt_count, until |-> until] IN
    CASE row.state = "absent"               -> Is("absent", 0)
      [] row.state \in {"pending", "retry"} -> Is("waiting", row.next_attempt_at)
      [] row.state = "processing"           -> Is("leased", row.lease_expires_at)
      [] OTHER -> IF ReceiptRetention = 0 THEN Is("archived", 0)
                  ELSE Is("done", row.processed_at + ReceiptRetention)

Queue == INSTANCE LeasedQueue WITH
            Item <- Message, queue <- [m \in Message |-> QueueItem(receipts[m])]

\* The transactions of the inbox, interleaved statement by statement, behave
\* as a queue whose operations are atomic: a receipt is claimed only when it
\* is due or its lease, as last renewed, has run out, a done one changes no
\* more and goes only after its retention.
ImplementsQueue == Queue!Spec
=============================================================================
