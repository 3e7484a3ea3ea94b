------------------------------- MODULE Runtime --------------------------------
(***************************************************************************)
(* postgres.Runtime: workers that claim one row at a time, work on it while *)
(* a heartbeat goroutine renews its lease, and record the result           *)
(* (src/postgres/runtime.go).  Outbound and inbound workers have the same  *)
(* shape; `row' stands for the delivery or receipt they compete for, whose *)
(* own rules are Outbox and Inbox.                                         *)
(*                                                                         *)
(* Time is real here: a timer fires when it is due, and a call with a      *)
(* deadline returns by it.  ClaimLatency bounds the one call that has no   *)
(* deadline in the code.                                                   *)
(***************************************************************************)
EXTENDS Integers

CONSTANTS
    Worker,
    Lease,         \* RuntimeConfig.LeaseDuration
    Interval,      \* RuntimeConfig.LeaseRenewalInterval
    Timeout,       \* RuntimeConfig.LeaseRenewalTimeout
    ClaimLatency,  \* from the claim's clock reading to its return
    MaxTime,       \* bound: the clock stops here
    MaxClaims      \* bound: claims of the row

\* What NewRuntime accepts.
ASSUME RuntimeAssumption ==
    /\ Lease \in Nat \ {0}
    /\ Interval \in 1 .. (Lease - 1)
    /\ Timeout \in Nat \ {0}
    /\ Timeout < Lease - Interval
    /\ ClaimLatency \in Nat
    /\ MaxTime \in Nat
    /\ MaxClaims \in Nat \ {0}

VARIABLES
    now,      \* the database's and the workers' clock
    ctxDone,  \* the context given to Run is cancelled
    row,      \* the row worked on
    workers   \* each worker goroutine and its heartbeat goroutine

vars == << now, ctxDone, row, workers >>

NoTime == -1

\* err is leaseHeartbeat.err; cancelled is its cancel function called; reading
\* is the clock reading of a claim or renewal under way; deadline is when the
\* timer fires, or when the call under way returns at the latest.
Polling ==
    [pc |-> "polling", attempt |-> 0, heartbeat |-> "none", reading |-> NoTime,
     deadline |-> NoTime, err |-> FALSE, cancelled |-> FALSE]

Working(n) ==
    [pc |-> "working", attempt |-> n, heartbeat |-> "waiting", reading |-> NoTime,
     deadline |-> now + Interval, err |-> FALSE, cancelled |-> FALSE]

Init ==
    /\ now = 0
    /\ ctxDone = FALSE
    /\ row = [state |-> "due", attempt_count |-> 0, lease_expires_at |-> NoTime]
    /\ workers = [w \in Worker |-> Polling]

\* Nothing that is due now is put off.
Tick ==
    /\ now < MaxTime
    /\ \A w \in Worker : workers[w].deadline = NoTime \/ now < workers[w].deadline
    /\ now' = now + 1
    /\ UNCHANGED << ctxDone, row, workers >>

\* The caller of Run cancels its context.
Shutdown ==
    /\ ~ctxDone
    /\ ctxDone' = TRUE
    /\ UNCHANGED << now, row, workers >>

-----------------------------------------------------------------------------
(* runLoop, and the claim of WorkOutboundOnce and WorkInboundOnce. *)

\* The poll timer fires.  select takes it or ctx.Done when both are ready.
ClaimBegin(w) ==
    /\ workers[w].pc = "polling"
    /\ workers' = [workers EXCEPT ![w].pc = "claiming", ![w].reading = now,
                                  ![w].deadline = now + ClaimLatency]
    /\ UNCHANGED << now, ctxDone, row >>

Exit(w) ==
    /\ workers[w].pc = "polling"
    /\ ctxDone
    /\ workers' = [workers EXCEPT ![w].pc = "exited"]
    /\ UNCHANGED << now, ctxDone, row >>

\* Nothing due, an error, or a panic that runWorkSafely recovers.
ClaimNothing(w) ==
    /\ workers[w].pc = "claiming"
    /\ workers' = [workers EXCEPT ![w] = Polling]
    /\ UNCHANGED << now, ctxDone, row >>

Due(t) ==
    \/ row.state = "due"
    \/ row.state = "leased" /\ row.lease_expires_at <= t

\* The claim returns a row, and startLeaseHeartbeat starts a goroutine.
Claim(w) ==
    LET t == workers[w].reading
        n == row.attempt_count + 1 IN
    /\ workers[w].pc = "claiming"
    /\ Due(t)
    /\ n <= MaxClaims
    /\ row' = [state |-> "leased", attempt_count |-> n, lease_expires_at |-> t + Lease]
    /\ workers' = [workers EXCEPT ![w] = Working(n)]
    /\ UNCHANGED << now, ctxDone >>

-----------------------------------------------------------------------------
(* The heartbeat goroutine. *)

\* workCtx.Err() # nil
Cancelled(w) == ctxDone \/ workers[w].cancelled

HeartbeatFires(w) ==
    /\ workers[w].heartbeat = "waiting"
    /\ workers[w].deadline <= now
    /\ workers' = [workers EXCEPT ![w].heartbeat = "renewing",
                                  ![w].deadline = now + Timeout]
    /\ UNCHANGED << now, ctxDone, row >>

\* ctx.Done, or stop closed
HeartbeatEnds(w) ==
    /\ workers[w].heartbeat = "waiting"
    /\ Cancelled(w)
    /\ workers' = [workers EXCEPT ![w].heartbeat = "ended", ![w].deadline = NoTime]
    /\ UNCHANGED << now, ctxDone, row >>

\* authoritativeNow of the renewal
RenewRead(w) ==
    /\ workers[w].heartbeat = "renewing"
    /\ workers' = [workers EXCEPT ![w].heartbeat = "read", ![w].reading = now]
    /\ UNCHANGED << now, ctxDone, row >>

Owned(w) == row.state = "leased" /\ row.attempt_count = workers[w].attempt

RenewWrite(w) ==
    /\ workers[w].heartbeat = "read"
    /\ Owned(w)
    /\ row.lease_expires_at > workers[w].reading
    /\ row' = [row EXCEPT !.lease_expires_at = workers[w].reading + Lease]
    /\ workers' = [workers EXCEPT ![w].heartbeat = "written"]
    /\ UNCHANGED << now, ctxDone >>

\* Faulty: the timer is set by the lease.
RenewReturnsLate(w) ==
    /\ workers[w].heartbeat = "written"
    /\ workers' = [workers EXCEPT ![w].heartbeat = "waiting",
                                  ![w].deadline = now + Lease - Timeout]
    /\ UNCHANGED << now, ctxDone, row >>

\* The renewal returns nil: timer.Reset(interval)
RenewReturns(w) ==
    /\ workers[w].heartbeat = "written"
    /\ workers' = [workers EXCEPT ![w].heartbeat = "waiting",
                                  ![w].deadline = now + Interval]
    /\ UNCHANGED << now, ctxDone, row >>

\* Faulty: the work goes on after a failed renewal.
RenewFailsQuietly(w) ==
    /\ workers[w].heartbeat \in {"renewing", "read", "written"}
    /\ workers' = [workers EXCEPT ![w].heartbeat = "ended", ![w].deadline = NoTime,
                                  ![w].err = ~Cancelled(w)]
    /\ UNCHANGED << now, ctxDone, row >>

\* Faulty: the goroutine returns without closing done.
RenewFailsUnclosed(w) ==
    /\ workers[w].heartbeat \in {"renewing", "read", "written"}
    /\ workers' = [workers EXCEPT ![w].heartbeat = "none", ![w].deadline = NoTime,
                                  ![w].err = ~Cancelled(w),
                                  ![w].cancelled = TRUE]
    /\ UNCHANGED << now, ctxDone, row >>

\* The renewal fails: no row updated, a timeout, a cancelled context, a lost
\* connection (after the commit too), a panic.  The failure counts unless the
\* work is already cancelled; then the work is cancelled.
RenewFails(w) ==
    /\ workers[w].heartbeat \in {"renewing", "read", "written"}
    /\ workers' = [workers EXCEPT ![w].heartbeat = "ended", ![w].deadline = NoTime,
                                  ![w].err = ~Cancelled(w),
                                  ![w].cancelled = TRUE]
    /\ UNCHANGED << now, ctxDone, row >>

-----------------------------------------------------------------------------
(* The rest of WorkOutboundOnce and WorkInboundOnce. *)

\* The send or handler returns, with a result, an error or a recovered panic;
\* heartbeat.Stop closes stop and cancels.
WorkReturns(w) ==
    /\ workers[w].pc = "working"
    /\ workers' = [workers EXCEPT ![w].pc = "stopping", ![w].cancelled = TRUE]
    /\ UNCHANGED << now, ctxDone, row >>

\* Faulty: Stop does not wait for the goroutine.
JoinWithoutWaiting(w) ==
    /\ workers[w].pc = "stopping"
    /\ workers' = [workers EXCEPT ![w] =
            IF @.err THEN Polling ELSE [@ EXCEPT !.pc = "completing"]]
    /\ UNCHANGED << now, ctxDone, row >>

\* Stop has waited for done: a renewal error leaves the row to expire.
Join(w) ==
    /\ workers[w].pc = "stopping"
    /\ workers[w].heartbeat = "ended"
    /\ workers' = [workers EXCEPT ![w] =
            IF @.err THEN Polling ELSE [@ EXCEPT !.pc = "completing"]]
    /\ UNCHANGED << now, ctxDone, row >>

\* Faulty: the lease survives.
CompleteLeased(w) ==
    /\ workers[w].pc = "completing"
    /\ \/ /\ Owned(w)
          /\ \E state \in {"due", "done"} : row' = [row EXCEPT !.state = state]
       \/ ~Owned(w) /\ UNCHANGED row
    /\ workers' = [workers EXCEPT ![w] = Polling]
    /\ UNCHANGED << now, ctxDone >>

\* CompleteDelivery or CompleteReceipt, whose context the shutdown does not
\* cancel: the row is finished, due again, or no longer this worker's.
Complete(w) ==
    /\ workers[w].pc = "completing"
    /\ \/ /\ Owned(w)
          /\ \E state \in {"due", "done"} :
               row' = [row EXCEPT !.state = state, !.lease_expires_at = NoTime]
       \/ ~Owned(w) /\ UNCHANGED row
    /\ workers' = [workers EXCEPT ![w] = Polling]
    /\ UNCHANGED << now, ctxDone >>

CompleteFails(w) ==
    /\ workers[w].pc = "completing"
    /\ workers' = [workers EXCEPT ![w] = Polling]
    /\ UNCHANGED << now, ctxDone, row >>

-----------------------------------------------------------------------------
Heartbeat(w) ==
    \/ HeartbeatFires(w) \/ HeartbeatEnds(w)
    \/ RenewRead(w) \/ RenewWrite(w) \/ RenewReturns(w) \/ RenewFails(w)

Work(w) ==
    \/ ClaimNothing(w) \/ Claim(w) \/ WorkReturns(w) \/ Join(w)
    \/ Complete(w) \/ CompleteFails(w)

Next ==
    \/ Tick \/ Shutdown
    \/ \E w \in Worker : ClaimBegin(w) \/ Exit(w) \/ Heartbeat(w) \/ Work(w)

Spec == Init /\ [][Next]_vars

\* Goroutines run, sends and handlers return (docs/reliability.md asks them to
\* be responsive to cancellation), and select, which picks at random, does not
\* pass over ctx.Done for ever; neither does the heartbeat's.
Fairness ==
    \A w \in Worker :
        /\ WF_vars(Work(w))
        /\ WF_vars(Heartbeat(w))
        /\ SF_vars(HeartbeatEnds(w))
        /\ SF_vars(Exit(w))

FairSpec == Spec /\ Fairness

-----------------------------------------------------------------------------
(* Properties. *)

Times == Nat \cup {NoTime}

WorkerState ==
    [pc : {"polling", "claiming", "working", "stopping", "completing", "exited"},
     attempt : 0 .. MaxClaims,
     heartbeat : {"none", "waiting", "renewing", "read", "written", "ended"},
     reading : Times, deadline : Times, err : BOOLEAN, cancelled : BOOLEAN]

\* Type invariant; a row has a lease exactly while it is leased.
TypeOK ==
    /\ now \in Nat
    /\ ctxDone \in BOOLEAN
    /\ row \in [state : {"due", "leased", "done"}, attempt_count : 0 .. MaxClaims,
                lease_expires_at : Times]
    /\ row.lease_expires_at # NoTime <=> row.state = "leased"
    /\ workers \in [Worker -> WorkerState]

\* No two workers work on the row at a time: before another worker can claim
\* it, a worker that lost its lease, or could not renew it, has its send or
\* handler cancelled, also when the database stops answering.
ExclusiveWork ==
    \A v, w \in Worker :
        /\ workers[v].pc = "working" /\ ~Cancelled(v)
        /\ workers[w].pc = "working" /\ ~Cancelled(w)
        => v = w

\* "Hookbound rejects configurations where a renewal cannot finish before the
\* current lease expires" (docs/postgres.md): a renewal of a lease that no
\* other worker took returns, at the latest, before the lease runs out.
RenewalInTime ==
    \A w \in Worker :
        workers[w].heartbeat = "renewing" /\ Owned(w) =>
            workers[w].deadline < row.lease_expires_at

\* Renewals stop before the result is recorded: none is under way, or can
\* start, once the worker completes the row or goes on to the next.
NoRenewalAfterWork ==
    \A w \in Worker :
        workers[w].pc \notin {"working", "stopping"} =>
            workers[w].heartbeat \in {"none", "ended"}

\* Run returns after its context is cancelled: every worker leaves its loop,
\* wherever it was.  And a worker that has claimed a row comes back for the
\* next, with or without a shutdown: no Stop waits for a heartbeat that never
\* ends.
RunReturns ==
    /\ ctxDone ~> \A w \in Worker : workers[w].pc = "exited"
    /\ \A w \in Worker : workers[w].pc = "working" ~> workers[w].pc = "polling"
=============================================================================
