----------------------------- MODULE Publication ------------------------------
(***************************************************************************)
(* Publishing with idempotency keys: EnqueueWithOptions, which runs        *)
(* EnqueueTxWithOptions in a READ COMMITTED transaction of its own, and    *)
(* EnqueueTxWithOptions in the transaction of a caller, against each other *)
(* and against Cleanup (src/postgres).                                     *)
(*                                                                         *)
(* Each SQL statement is an action and sees what is committed when it      *)
(* starts, plus the transaction's own writes.  The message and delivery    *)
(* IDs a call generates are named by the call.  What delivers a message is *)
(* Outbox; here a delivery is pending or, at some later time, terminal.    *)
(***************************************************************************)
EXTENDS Integers, FiniteSets

CONSTANTS
    Call,               \* publishing calls, each made once
    CallerTx,           \* those made one after another in a caller's transaction
    NoCall,
    ExplicitID,         \* message IDs chosen by callers
    NoID,               \* SendRequest.ID is empty
    Key,                \* idempotency keys, as their hashes
    NoKey,
    Content,            \* event type, body and content type
    NoContent,
    Target,             \* destination URL and headers
    NoTarget,
    DeliveryRetention,  \* RetentionPolicy, terminal deliveries; 0 disables it
    OrphanRetention,    \* OrphanMessageRetention; 0 disables it
    MaxTime             \* bound: the clock stops here

ASSUME PublicationAssumption ==
    /\ NoCall \notin Call
    /\ CallerTx \subseteq Call
    /\ ExplicitID \cap Call = {}
    /\ NoID \notin ExplicitID \cup Call
    /\ NoKey \notin Key
    /\ NoContent \notin Content
    /\ NoTarget \notin Target
    /\ DeliveryRetention \in Nat
    /\ OrphanRetention \in Nat
    /\ MaxTime \in Nat

VARIABLES
    now,        \* PostgreSQL's clock_timestamp()
    messages,   \* hookbound_messages, committed contents
    deliveries, \* hookbound_deliveries, committed contents
    calls,      \* each call's transaction and local variables
    cleaner     \* a Cleanup transaction

vars == << now, messages, deliveries, calls, cleaner >>

-----------------------------------------------------------------------------
(* Rows. *)

MessageID == ExplicitID \cup Call

NoMessage == [live |-> FALSE, content |-> NoContent, created_at |-> 0]

Message(c, t) == [live |-> TRUE, content |-> c, created_at |-> t]

NoDelivery ==
    [state |-> "absent", message |-> NoID, key |-> NoKey, target |-> NoTarget,
     completed_at |-> 0]

Delivery(m, k, u) ==
    [state |-> "pending", message |-> m, key |-> k, target |-> u,
     completed_at |-> 0]

NoRequest == [id |-> NoID, key |-> NoKey, content |-> NoContent, target |-> NoTarget]

\* pc is the statement the call runs next or how it ended; inserted is
\* messageInserted, "undone" once the message is deleted again; answer is the
\* delivery ID to return.
Ended(outcome) ==
    [pc |-> outcome, request |-> NoRequest, createdAt |-> 0, inserted |-> "no",
     answer |-> NoCall]

Cleaning(step, t, removed, orphans) ==
    [step |-> step, now |-> t, removed |-> removed, orphans |-> orphans]

NotCleaning == Cleaning("idle", 0, {}, {})

Init ==
    /\ now = 0
    /\ messages = [m \in MessageID |-> NoMessage]
    /\ deliveries = [d \in Call |-> NoDelivery]
    /\ calls = [c \in Call |-> Ended("new")]
    /\ cleaner = NotCleaning

Tick ==
    /\ now < MaxTime
    /\ now' = now + 1
    /\ UNCHANGED << messages, deliveries, calls, cleaner >>

-----------------------------------------------------------------------------
(* Transactions. *)

Outcomes == {"published", "failed"}

\* A call that runs no statement: its transaction may commit.
Resting == {"new", "commit", "refused"}

Request(c) == calls[c].request

\* The calls that share c's transaction.
Tx(c) == IF c \in CallerTx THEN CallerTx ELSE {c}

\* request.ID, given or generated.
MessageOf(c) == IF Request(c).id = NoID THEN c ELSE Request(c).id

Goto(c, label) == calls' = [calls EXCEPT ![c].pc = label]

\* This call has an uncommitted delivery, and so a FOR KEY SHARE lock on its
\* message.
HasDelivery(c) == calls[c].pc = "commit" /\ calls[c].answer = c

\* What c's transaction sees of the two tables, and leaves when it commits.
SeenMessage(c, m) ==
    LET own == { o \in Tx(c) : calls[o].inserted = "yes" /\ MessageOf(o) = m }
        o   == CHOOSE o \in own : TRUE IN
    IF own = {} THEN messages[m] ELSE Message(Request(o).content, calls[o].createdAt)

SeenDelivery(c, d) ==
    IF d \in Tx(c) /\ HasDelivery(d)
    THEN Delivery(MessageOf(d), Request(d).key, Request(d).target)
    ELSE deliveries[d]

\* Faulty: the answer is lost on return.
PublishedUnfound(c) == [Ended("published") EXCEPT !.request = Request(c)]

Published(c) ==
    [Ended("published") EXCEPT !.request = Request(c), !.answer = calls[c].answer]

\* How a call ends with its transaction.
EndedWith(o, committed) ==
    IF calls[o].pc \in {"new"} \cup Outcomes THEN calls[o]
    ELSE IF committed /\ calls[o].pc = "commit" THEN Published(o)
    ELSE Ended("failed")

End(c, committed) ==
    calls' = [o \in Call |-> IF o \in Tx(c) THEN EndedWith(o, committed) ELSE calls[o]]

\* Faulty: the transaction is left open.
RefuseWithoutRollback(c) == Goto(c, "failed")

\* Return with an error of its own.  EnqueueWithOptions rolls back; a caller's
\* transaction stays as it is.
Refuse(c) == IF c \in CallerTx THEN Goto(c, "refused") ELSE End(c, FALSE)

-----------------------------------------------------------------------------
(* EnqueueTxWithOptions. *)

\* The call, after BeginTx if the transaction is its own.  A request the checks
\* at its head refuse never gets here.
Begin(c) ==
    /\ calls[c].pc = "new"
    /\ \A o \in Tx(c) : calls[o].pc \in Resting
    /\ \E id \in ExplicitID \cup {NoID}, k \in Key \cup {NoKey},
          b \in Content, u \in Target :
         calls' = [calls EXCEPT
            ![c].request = [id |-> id, key |-> k, content |-> b, target |-> u],
            ![c].pc = IF k = NoKey THEN "clock" ELSE "find"]
    /\ UNCHANGED << now, messages, deliveries, cleaner >>

\* Faulty: destination and headers are not compared.
MatchesContentOnly(c, d) ==
    LET row == SeenDelivery(c, d) IN
    /\ SeenMessage(c, row.message).content = Request(c).content
    /\ Request(c).id # NoID => row.message = Request(c).id

Matches(c, d) ==
    LET row == SeenDelivery(c, d) IN
    /\ SeenMessage(c, row.message).content = Request(c).content
    /\ row.target = Request(c).target
    /\ Request(c).id # NoID => row.message = Request(c).id

\* The committed deliveries under a key; the index makes it at most one.
WithKey(k) ==
    { d \in Call : deliveries[d].state # "absent" /\ deliveries[d].key = k }

\* The deliveries under c's key that its transaction sees.
SameKey(c) ==
    { d \in Call : /\ SeenDelivery(c, d).state # "absent"
                   /\ SeenDelivery(c, d).key = Request(c).key }

\* findIdempotentPublication: a hit answers, a mismatch is CodeConflict, and
\* what follows a miss depends on the caller.
FindIdempotentPublication(c, hit, Miss) ==
    \/ SameKey(c) = {} /\ Miss
    \/ \E d \in SameKey(c) : Matches(c, d)
        /\ calls' = [calls EXCEPT ![c].pc = hit, ![c].answer = d]
    \/ \E d \in SameKey(c) : ~Matches(c, d) /\ Refuse(c)

Find(c) ==
    /\ calls[c].pc = "find"
    /\ FindIdempotentPublication(c, "commit", Goto(c, "clock"))
    /\ UNCHANGED << now, messages, deliveries, cleaner >>

\* newMessageID and authoritativeNow
Clock(c) ==
    /\ calls[c].pc = "clock"
    /\ calls' = [calls EXCEPT ![c].pc = "message", ![c].createdAt = now]
    /\ UNCHANGED << now, messages, deliveries, cleaner >>

\* Cleanup holds the message FOR UPDATE and has deleted it, uncommitted.
BeingRemoved(m) == cleaner.step = "deleted" /\ m \in cleaner.orphans

\* The calls of unfinished transactions whose entry in a unique index c's
\* insert waits for: the message ID, or the idempotency key.
Blockers(c) ==
    { o \in Call \ Tx(c) :
        \/ calls[c].pc = "message" /\ calls[o].inserted # "no"
            /\ MessageOf(o) = MessageOf(c)
        \/ calls[c].pc = "delivery" /\ HasDelivery(o)
            /\ Request(c).key # NoKey /\ Request(o).key = Request(c).key }

\* INSERT message ON CONFLICT (id) DO NOTHING
InsertMessage(c) ==
    /\ calls[c].pc = "message"
    /\ Blockers(c) = {} /\ ~BeingRemoved(MessageOf(c))
    /\ IF SeenMessage(c, MessageOf(c)).live
       THEN Goto(c, "existing")
       ELSE calls' = [calls EXCEPT ![c].pc = "delivery", ![c].inserted = "yes"]
    /\ UNCHANGED << now, messages, deliveries, cleaner >>

\* The SELECT takes no lock: the row may be gone, now or later.
ReadExisting(c) ==
    LET row == SeenMessage(c, MessageOf(c)) IN
    /\ calls[c].pc = "existing"
    /\ \/ ~row.live /\ Refuse(c)
       \/ row.live /\ row.content # Request(c).content /\ Refuse(c)
       \/ row.live /\ row.content = Request(c).content /\ Goto(c, "delivery")
    /\ UNCHANGED << now, messages, deliveries, cleaner >>

\* The unique index waits for an uncommitted insert or delete of the key, the
\* foreign key for an uncommitted delete of the message.
DeliveryWaits(c) ==
    \/ Blockers(c) # {}
    \/ Request(c).key # NoKey /\ WithKey(Request(c).key) \cap cleaner.removed # {}
    \/ BeingRemoved(MessageOf(c))

\* Faulty: without ON CONFLICT's unique index.
KeyFree(c) == FALSE

KeyTaken(c) == Request(c).key # NoKey /\ SameKey(c) # {}

\* INSERT delivery ON CONFLICT (idempotency_key_hash) DO NOTHING.  A message
\* that has gone fails the foreign key, which aborts the transaction.
InsertDelivery(c) ==
    LET exists == SeenMessage(c, MessageOf(c)).live IN
    /\ calls[c].pc = "delivery"
    /\ ~DeliveryWaits(c)
    /\ \/ KeyTaken(c) /\ Goto(c, "refind")
       \/ /\ ~KeyTaken(c) /\ exists
          /\ calls' = [calls EXCEPT ![c].pc = "commit", ![c].answer = c]
       \/ ~KeyTaken(c) /\ ~exists /\ End(c, FALSE)
    /\ UNCHANGED << now, messages, deliveries, cleaner >>

\* Another call won the key; its delivery may also be gone again by now.
Refind(c) ==
    /\ calls[c].pc = "refind"
    /\ FindIdempotentPublication(c,
            IF calls[c].inserted = "yes" THEN "unwind" ELSE "commit",
            Refuse(c))
    /\ UNCHANGED << now, messages, deliveries, cleaner >>

\* Faulty: the loser of the race leaves its message behind.
KeepMessage(c) ==
    /\ calls[c].pc = "unwind"
    /\ Goto(c, "commit")
    /\ UNCHANGED << now, messages, deliveries, cleaner >>

\* DELETE the message inserted above unless a delivery refers to it.
RemoveMessage(c) ==
    /\ calls[c].pc = "unwind"
    /\ IF \E d \in Call : SeenDelivery(c, d).state # "absent"
                           /\ SeenDelivery(c, d).message = MessageOf(c)
       THEN Goto(c, "commit")
       ELSE calls' = [calls EXCEPT ![c].pc = "commit", ![c].inserted = "undone"]
    /\ UNCHANGED << now, messages, deliveries, cleaner >>

\* COMMIT, by EnqueueWithOptions or by the caller, who may have been refused a
\* publication.  The connection may be lost after it took effect: the caller
\* then sees an error and may publish again under the same key.
Commit(c) ==
    /\ calls[c].pc \in {"commit", "refused"}
    /\ \A o \in Tx(c) : calls[o].pc \in Resting
    /\ messages' = [m \in MessageID |-> SeenMessage(c, m)]
    /\ deliveries' = [d \in Call |-> SeenDelivery(c, d)]
    /\ End(c, TRUE) \/ End(c, FALSE)
    /\ UNCHANGED << now, cleaner >>

\* An error, a cancelled context, a crash or the caller's Rollback before COMMIT.
Abort(c) ==
    /\ calls[c].pc \notin {"new"} \cup Outcomes
    /\ End(c, FALSE)
    /\ UNCHANGED << now, messages, deliveries, cleaner >>

\* PostgreSQL aborts a member of a cycle of waiting transactions.
DetectDeadlock(c) ==
    /\ \E o \in Blockers(c) : \E e \in Tx(o) : Blockers(e) \cap Tx(c) # {}
    /\ Abort(c)

-----------------------------------------------------------------------------
(* Workers, and Cleanup. *)

\* A worker delivers d, or gives it up: CompleteDelivery.
Complete(d) ==
    /\ deliveries[d].state = "pending"
    /\ d \notin cleaner.removed
    /\ deliveries' = [deliveries EXCEPT ![d].state = "terminal", ![d].completed_at = now]
    /\ UNCHANGED << now, messages, calls, cleaner >>

\* BeginTx, the clock, and the DELETE of terminal deliveries; LIMIT may leave
\* some of them.
CleanupDeliveries ==
    LET expired == { d \in Call :
            /\ DeliveryRetention > 0
            /\ deliveries[d].state = "terminal"
            /\ deliveries[d].completed_at < now - DeliveryRetention } IN
    /\ cleaner.step = "idle"
    /\ DeliveryRetention + OrphanRetention > 0
    /\ \E removed \in SUBSET expired :
         cleaner' = Cleaning("deliveries", now, removed, {})
    /\ UNCHANGED << now, messages, deliveries, calls >>

References(d, m) == deliveries[d].state # "absent" /\ deliveries[d].message = m

\* Faulty: the age of a message is enough.
OldMessages(t, removed) ==
    { m \in MessageID : messages[m].live /\ messages[m].created_at < t - OrphanRetention }

\* What the orphan query selects in its snapshot.
Orphans(t, removed) ==
    { m \in MessageID :
        /\ messages[m].live
        /\ messages[m].created_at < t - OrphanRetention
        /\ ~\E d \in Call \ removed : References(d, m) }

CleanupSnapshot ==
    /\ cleaner.step = "deliveries"
    /\ cleaner' = Cleaning("snapshot", cleaner.now, cleaner.removed,
            IF OrphanRetention > 0 THEN Orphans(cleaner.now, cleaner.removed) ELSE {})
    /\ UNCHANGED << now, messages, deliveries, calls >>

\* FOR UPDATE SKIP LOCKED passes over a message whose key a publication shares;
\* LIMIT may leave others.  A row that was only locked in between is not
\* evaluated again.  The DELETE cascades to the deliveries that exist by now.
CleanupOrphans ==
    LET free == { m \in cleaner.orphans :
                    ~\E c \in Call : HasDelivery(c) /\ MessageOf(c) = m } IN
    /\ cleaner.step = "snapshot"
    /\ \E orphans \in SUBSET free :
         cleaner' = Cleaning("deleted", cleaner.now,
            cleaner.removed \cup
                { d \in Call : \E m \in orphans : References(d, m) },
            orphans)
    /\ UNCHANGED << now, messages, deliveries, calls >>

CleanupCommit ==
    /\ cleaner.step = "deleted"
    /\ messages' = [m \in MessageID |->
            IF m \in cleaner.orphans THEN NoMessage ELSE messages[m]]
    /\ deliveries' = [d \in Call |->
            IF d \in cleaner.removed THEN NoDelivery ELSE deliveries[d]]
    /\ cleaner' = NotCleaning
    /\ UNCHANGED << now, calls >>

CleanupAbort ==
    /\ cleaner.step # "idle"
    /\ cleaner' = NotCleaning
    /\ UNCHANGED << now, messages, deliveries, calls >>

-----------------------------------------------------------------------------
\* A step of a call that no lock keeps waiting.
Step(c) ==
    \/ Find(c) \/ Clock(c) \/ InsertMessage(c) \/ ReadExisting(c)
    \/ InsertDelivery(c) \/ Refind(c) \/ RemoveMessage(c) \/ Commit(c)

Cleanup == CleanupDeliveries \/ CleanupSnapshot \/ CleanupOrphans \/ CleanupCommit

Next ==
    \/ Tick
    \/ \E c \in Call : Begin(c) \/ Step(c) \/ Abort(c) \/ Complete(c)
    \/ Cleanup \/ CleanupAbort

Spec == Init /\ [][Next]_vars

\* Connections make progress, a lock queue serves a waiter that keeps finding
\* the lock free, deadlocks are detected, and a caller ends its transaction;
\* nothing obliges a call to begin or a cleaner to run.
Fairness ==
    /\ \A c \in Call : SF_vars(Step(c))
    /\ WF_vars(\E c \in Call : DetectDeadlock(c))
    /\ WF_vars(CleanupSnapshot \/ CleanupOrphans \/ CleanupCommit)

FairSpec == Spec /\ Fairness

-----------------------------------------------------------------------------
(* Properties. *)

MessageRow ==
    [live : BOOLEAN, content : Content \cup {NoContent}, created_at : Nat]

DeliveryRow ==
    [state : {"absent", "pending", "terminal"}, message : MessageID \cup {NoID},
     key : Key \cup {NoKey}, target : Target \cup {NoTarget}, completed_at : Nat]

RequestRow ==
    [id : ExplicitID \cup {NoID}, key : Key \cup {NoKey},
     content : Content \cup {NoContent}, target : Target \cup {NoTarget}]

CallState ==
    [pc : {"new", "find", "clock", "message", "existing", "delivery", "refind",
           "unwind", "commit", "refused"} \cup Outcomes,
     request : RequestRow, createdAt : Nat, inserted : {"no", "yes", "undone"},
     answer : Call \cup {NoCall}]

CleanerState ==
    [step : {"idle", "deliveries", "snapshot", "deleted"}, now : Nat,
     removed : SUBSET Call, orphans : SUBSET MessageID]

\* Type invariant; a call that succeeds has a delivery to return.
TypeOK ==
    /\ now \in Nat
    /\ messages \in [MessageID -> MessageRow]
    /\ deliveries \in [Call -> DeliveryRow]
    /\ calls \in [Call -> CallState]
    /\ cleaner \in CleanerState
    /\ \A c \in Call : calls[c].pc \in {"commit", "published"} => calls[c].answer # NoCall

\* A key stands for one publication: while the delivery that a successful call
\* returned exists, it is the only one under the call's key, whatever calls
\* raced, failed at COMMIT or were repeated.
KeyMeansOnePublication ==
    \A c \in Call :
        /\ calls[c].pc = "published"
        /\ Request(c).key # NoKey
        /\ deliveries[calls[c].answer].state # "absent"
        => WithKey(Request(c).key) = {calls[c].answer}

\* The delivery a call returned sends what the call asked to send: the message
\* exists, has the requested content and, if given, the requested ID, and goes
\* to the requested destination.
AsRequested(c) ==
    LET row == deliveries[calls[c].answer] IN
    /\ messages[row.message].live
    /\ messages[row.message].content = Request(c).content
    /\ row.target = Request(c).target
    /\ Request(c).id # NoID => row.message = Request(c).id

\* What a call publishes, or is told was published, is what it asked for,
\* through every race for keys and IDs, if its message has a generated ID or no
\* message is old enough yet to be removed.
PublishedAsRequested ==
    \A c \in Call :
        /\ calls[c].pc = "published"
        /\ deliveries[calls[c].answer].state # "absent"
        /\ \/ deliveries[calls[c].answer].message \in Call
           \/ OrphanRetention = 0 \/ now <= OrphanRetention
        => AsRequested(c)

\* "Message IDs protect immutable message content" (docs/audit-v0.1.0.md): the
\* same for every message and at all times.
IDsProtectContent ==
    \A c \in Call :
        /\ calls[c].pc = "published"
        /\ deliveries[calls[c].answer].state # "absent"
        => AsRequested(c)

\* A message appears together with a delivery: the loser of a race for a key
\* commits no message of its own, unless a caller commits its transaction
\* although the publication was refused.
NoUnsentMessage ==
    [][\A m \in MessageID :
        ~messages[m].live /\ messages'[m].live =>
            \/ \E d \in Call : deliveries'[d].state = "pending"
                               /\ deliveries'[d].message = m
            \/ \E c \in CallerTx : calls[c].pc = "refused" /\ MessageOf(c) = m]_vars

\* Cleanup removes no pending delivery of a message whose ID was generated,
\* whatever statements of publications, completions and cleanups interleave.
PendingIsKept ==
    [][\A d \in Call :
        deliveries[d].state = "pending" /\ deliveries[d].message \in Call =>
            deliveries'[d].state # "absent"]_vars

\* "Pending, retrying, processing, and in-flight records are never retention
\* candidates" (docs/postgres.md): a delivery disappears only when terminal.
ActiveNeverRemoved ==
    [][\A d \in Call :
        deliveries[d].state = "pending" => deliveries'[d].state # "absent"]_vars

\* Publications that wait for each other's keys and IDs, in whatever order a
\* caller's transaction takes them, and for Cleanup, all end.
EveryCallEnds == []<>(\A c \in Call : calls[c].pc \in {"new"} \cup Outcomes)
=============================================================================
