------------------------------- MODULE Receiver -------------------------------
(***************************************************************************)
(* The inbound HTTP path: Receiver.ServeHTTP (src/receiver.go) over the    *)
(* MemoryReplayGuard (src/replay.go).                                      *)
(*                                                                         *)
(* Each HTTP request is a goroutine.  The guard's methods hold its mutex   *)
(* from start to end, so one pass of Claim's loop, a Commit and a Release  *)
(* are single actions; the wait on an entry's done channel, the handler    *)
(* and the clock reading before Commit are steps of their own.  A done     *)
(* channel is identified by the request that made it.                      *)
(***************************************************************************)
EXTENDS Integers, FiniteSets

CONSTANTS
    Request,    \* HTTP requests, each served once
    NoRequest,
    Key,        \* message identities: source and id
    MaxEntries, \* NewMemoryReplayGuard's bound
    ReplayTTL,  \* ReceiverConfig.ReplayTTL
    MaxTime     \* bound: the clock stops here

ASSUME ReceiverAssumption ==
    /\ NoRequest \notin Request
    /\ MaxEntries \in Nat \ {0}
    /\ ReplayTTL \in Nat \ {0}
    /\ MaxTime \in Nat

VARIABLES
    now,       \* the clock of the receiver and of the guard
    entries,   \* MemoryReplayGuard.entries
    requests   \* where each request is, and what came of it

vars == << now, entries, requests >>

NoTime == -1

NoEntry == [status |-> "none", owner |-> NoRequest, expiresAt |-> NoTime]

Active(q) == [status |-> "active", owner |-> q, expiresAt |-> NoTime]

\* pc "claiming" is the head of Claim's loop; waitsFor is the request whose
\* done channel is awaited; result is what the handler did.
NewRequest(k) ==
    [pc |-> "new", key |-> k, waitsFor |-> NoRequest, expiresAt |-> NoTime,
     result |-> "none", response |-> "none"]

Init ==
    /\ now = 0
    /\ entries = [k \in Key |-> NoEntry]
    /\ \E keyOf \in [Request -> Key] :
         requests = [q \in Request |-> NewRequest(keyOf[q])]

Tick ==
    /\ now < MaxTime
    /\ now' = now + 1
    /\ UNCHANGED << entries, requests >>

-----------------------------------------------------------------------------
KeyOf(q) == requests[q].key

Goto(q, pc) == requests' = [requests EXCEPT ![q].pc = pc]

Respond(q, response) ==
    requests' = [requests EXCEPT ![q].pc = "done", ![q].response = response]

\* Method, encoding, size, body, signature or message refused.
Reject(q) ==
    /\ requests[q].pc = "new"
    /\ Respond(q, "error")
    /\ UNCHANGED << now, entries >>

Verify(q) ==
    /\ requests[q].pc = "new"
    /\ Goto(q, "claiming")
    /\ UNCHANGED << now, entries >>

-----------------------------------------------------------------------------
(* MemoryReplayGuard.Claim, one pass of its loop. *)

Expired(entry) == entry.status = "accepted" /\ entry.expiresAt <= now

Used(table) == Cardinality({ k \in Key : table[k].status # "none" })

\* Faulty: an identity being processed counts as accepted.
DuplicateOfActive(entry) == entry.status # "none" /\ ~Expired(entry)

Duplicate(entry) == entry.status = "accepted" /\ ~Expired(entry)

ClaimDuplicate(q) ==
    /\ requests[q].pc = "claiming"
    /\ Duplicate(entries[KeyOf(q)])
    /\ Respond(q, "success")
    /\ UNCHANGED << now, entries >>

ClaimWait(q) ==
    /\ requests[q].pc = "claiming"
    /\ entries[KeyOf(q)].status = "active"
    /\ requests' = [requests EXCEPT ![q].pc = "waiting",
                                    ![q].waitsFor = entries[KeyOf(q)].owner]
    /\ UNCHANGED << now, entries >>

\* The key's own entry goes when it has expired.
WithoutExpired(k) ==
    IF Expired(entries[k]) THEN [entries EXCEPT ![k] = NoEntry] ELSE entries

\* Faulty: a full table drops every accepted entry.
PurgeAccepted(table) ==
    [k \in Key |-> IF Used(table) >= MaxEntries /\ table[k].status = "accepted"
                   THEN NoEntry ELSE table[k]]

\* A full table first drops the expired entries.
Purge(table) ==
    [k \in Key |-> IF Used(table) >= MaxEntries /\ Expired(table[k])
                   THEN NoEntry ELSE table[k]]

Full(table) == Used(table) >= MaxEntries

Free(q) ==
    /\ requests[q].pc = "claiming"
    /\ ~Duplicate(entries[KeyOf(q)])
    /\ entries[KeyOf(q)].status # "active"

\* "memory replay guard capacity reached"
ClaimRefused(q) ==
    LET table == Purge(WithoutExpired(KeyOf(q))) IN
    /\ Free(q)
    /\ Full(table)
    /\ entries' = table
    /\ Respond(q, "error")
    /\ UNCHANGED now

ClaimNew(q) ==
    LET table == Purge(WithoutExpired(KeyOf(q))) IN
    /\ Free(q)
    /\ ~Full(table)
    /\ entries' = [table EXCEPT ![KeyOf(q)] = Active(q)]
    /\ Goto(q, "handling")
    /\ UNCHANGED now

\* Faulty: Release does not close the channel.
ClosedByCommit(q) == entries[KeyOf(q)].status = "accepted"

\* Whether the done channel q waits on is closed.
Closed(q) ==
    LET entry == entries[KeyOf(q)] IN
    ~(entry.status = "active" /\ entry.owner = requests[q].waitsFor)

Wake(q) ==
    /\ requests[q].pc = "waiting"
    /\ Closed(q)
    /\ Goto(q, "claiming")
    /\ UNCHANGED << now, entries >>

\* Faulty: a cancelled waiter releases the claim it waited for.
CancelReleases(q) ==
    /\ requests[q].pc = "waiting"
    /\ entries' = [entries EXCEPT ![KeyOf(q)] = NoEntry]
    /\ Respond(q, "error")
    /\ UNCHANGED now

\* The request's context ends while it waits.
Cancel(q) ==
    /\ requests[q].pc = "waiting"
    /\ Respond(q, "error")
    /\ UNCHANGED << now, entries >>

-----------------------------------------------------------------------------
(* The handler, and what ServeHTTP does with its result. *)

\* The handler returns nil, returns an error, or panics.
HandlerEnds(q) ==
    /\ requests[q].pc = "handling"
    /\ \E result \in {"ok", "failed", "panicked"} :
         requests' = [requests EXCEPT ![q].pc = "handled", ![q].result = result]
    /\ UNCHANGED << now, entries >>

\* Release, by ServeHTTP after an error, by handle's deferred function after a
\* panic.  It never removes an accepted entry; the caller ignores its error.
Released(k) ==
    IF entries[k].status = "active" THEN [entries EXCEPT ![k] = NoEntry] ELSE entries

ReleaseFailed(q) ==
    /\ requests[q].pc = "handled"
    /\ requests[q].result = "failed"
    /\ entries' = Released(KeyOf(q))
    /\ Respond(q, "error")
    /\ UNCHANGED now

\* The panic goes on to net/http, which drops the connection.
ReleasePanicked(q) ==
    /\ requests[q].pc = "handled"
    /\ requests[q].result = "panicked"
    /\ entries' = Released(KeyOf(q))
    /\ Respond(q, "aborted")
    /\ UNCHANGED now

\* r.clock.Now().Add(r.replayTTL), before the guard's mutex.
CommitBegin(q) ==
    /\ requests[q].pc = "handled"
    /\ requests[q].result = "ok"
    /\ requests' = [requests EXCEPT ![q].pc = "committing",
                                    ![q].expiresAt = now + ReplayTTL]
    /\ UNCHANGED << now, entries >>

\* Faulty: the entry is accepted without its expiry.
AcceptedForever(q) ==
    [status |-> "accepted", owner |-> q, expiresAt |-> NoTime]

Accepted(q) ==
    [status |-> "accepted", owner |-> entries[KeyOf(q)].owner,
     expiresAt |-> requests[q].expiresAt]

\* Commit of a claim that is not active is CodeConflict, a failed request.
Commit(q) ==
    /\ requests[q].pc = "committing"
    /\ IF entries[KeyOf(q)].status = "active"
       THEN /\ entries' = [entries EXCEPT ![KeyOf(q)] = Accepted(q)]
            /\ Respond(q, "success")
       ELSE /\ UNCHANGED entries
            /\ Respond(q, "error")
    /\ UNCHANGED now

-----------------------------------------------------------------------------
\* The steps of a goroutine that is running.
Step(q) ==
    \/ ClaimDuplicate(q) \/ ClaimWait(q) \/ ClaimRefused(q) \/ ClaimNew(q)
    \/ Wake(q)
    \/ HandlerEnds(q)
    \/ ReleaseFailed(q) \/ ReleasePanicked(q)
    \/ CommitBegin(q) \/ Commit(q)

Next ==
    \/ Tick
    \/ \E q \in Request : Reject(q) \/ Verify(q) \/ Step(q) \/ Cancel(q)

Spec == Init /\ [][Next]_vars

\* The Go scheduler runs every runnable goroutine, and handlers return.
Fairness == \A q \in Request : WF_vars(Step(q))

FairSpec == Spec /\ Fairness

-----------------------------------------------------------------------------
(* Properties. *)

Entry ==
    [status : {"none", "active", "accepted"}, owner : Request \cup {NoRequest},
     expiresAt : Nat \cup {NoTime}]

RequestState ==
    [pc : {"new", "claiming", "waiting", "handling", "handled", "committing", "done"},
     key : Key, waitsFor : Request \cup {NoRequest},
     expiresAt : Nat \cup {NoTime},
     result : {"none", "ok", "failed", "panicked"},
     response : {"none", "success", "error", "aborted"}]

\* Type invariant; an entry has an expiry exactly when it is accepted, so an
\* accepted entry can always be purged later.
TypeOK ==
    /\ now \in Nat
    /\ entries \in [Key -> Entry]
    /\ requests \in [Request -> RequestState]
    /\ \A k \in Key : entries[k].expiresAt # NoTime <=> entries[k].status = "accepted"

\* The requests between a successful Claim and the end of their Commit or
\* Release.
Owns(q) == requests[q].pc \in {"handling", "handled", "committing"}

\* An entry is active exactly while the request that made it is between Claim
\* and Commit or Release: two handlers never run for one message at a time,
\* no claim outlives its request, and no Commit or Release meets a conflict or
\* removes the claim of another request.
ClaimOwnership ==
    /\ \A q \in Request : Owns(q) => entries[KeyOf(q)] = Active(q)
    /\ \A k \in Key : entries[k].status = "active" =>
         \E q \in Request : Owns(q) /\ KeyOf(q) = k

\* A 2xx answer is given only once a handler has succeeded for the message:
\* a duplicate is never acknowledged because another request is processing it.
SuccessMeansHandled ==
    \A q \in Request : requests[q].response = "success" =>
        \E r \in Request : KeyOf(r) = KeyOf(q) /\ requests[r].result = "ok"

\* The table never outgrows its bound, with purges and expiries interleaved.
CapacityRespected == Used(entries) <= MaxEntries

\* No handler starts for a message while an earlier success for it, committed
\* by any request, is within its replay TTL: not after a purge, a release or
\* a wake-up either.
NoReplayWithinTTL ==
    [][\A q, r \in Request :
        /\ requests[q].pc # "handling" /\ requests'[q].pc = "handling"
        /\ KeyOf(r) = KeyOf(q)
        /\ requests[r].result = "ok" /\ requests[r].response = "success"
        => requests[r].expiresAt <= now]_vars

\* Every verified request is answered or aborted: no waiter is forgotten when
\* the claim it waits for is committed, released or lost to a panic.
EveryRequestEnds ==
    \A q \in Request : requests[q].pc = "claiming" ~> requests[q].pc = "done"
=============================================================================
