---------------------------- MODULE RuntimeProofs -----------------------------
(***************************************************************************)
(* That a lease protects the work done under it, for any number of workers *)
(* and any durations that leave room for two renewals: ExclusiveWork and   *)
(* RenewalInTime of Runtime, with NoRenewalAfterWork and the type          *)
(* invariant.                                                              *)
(***************************************************************************)
EXTENDS Runtime, TLAPS

\* More than NewRuntime checks: a renewal that takes its full timeout, the
\* interval and the next renewal fit into a lease; so do a claim, the interval
\* and the first renewal.
Timely ==
    /\ Interval + 2 * Timeout < Lease
    /\ ClaimLatency + Interval + Timeout < Lease

-----------------------------------------------------------------------------
(* The inductive invariant. *)

\* The workers that hold a claim, current or lost.
Holds(w) == workers[w].pc \in {"working", "stopping", "completing"}

\* A worker whose work goes on.
Live(w) == workers[w].pc = "working" /\ ~Cancelled(w)

\* A heartbeat goroutine that has not ended.
Beating(w) == workers[w].heartbeat \in {"waiting", "renewing", "read", "written"}

\* A timer or a call is not overdue.
NotOverdue(w) ==
    /\ workers[w].deadline # NoTime => now <= workers[w].deadline
    /\ Beating(w) => workers[w].deadline # NoTime

\* The clock a call has read is not older than the call may last.
Readings(w) ==
    /\ workers[w].pc = "claiming" =>
         /\ workers[w].reading \in 0 .. now
         /\ workers[w].deadline = workers[w].reading + ClaimLatency
    /\ workers[w].heartbeat = "renewing" => workers[w].deadline <= now + Timeout
    /\ workers[w].heartbeat = "read" =>
         /\ workers[w].reading \in 0 .. now
         /\ workers[w].deadline <= workers[w].reading + Timeout

\* The heartbeat of the row's owner is ahead of the lease.
Ahead(w) ==
    Holds(w) /\ Owned(w) =>
        /\ workers[w].heartbeat = "waiting" =>
             workers[w].deadline + Timeout < row.lease_expires_at
        /\ workers[w].heartbeat \in {"renewing", "read"} =>
             workers[w].deadline < row.lease_expires_at
        /\ workers[w].heartbeat = "written" =>
             workers[w].deadline + Interval + Timeout < row.lease_expires_at

\* What the invariant says of one worker.  Only the last part needs Timely.
WorkerInv(w) ==
    /\ workers[w].pc \notin {"working", "stopping"} => ~Beating(w)
    /\ Holds(w) => workers[w].attempt \in 1 .. row.attempt_count
    /\ NotOverdue(w)
    /\ Readings(w)
    /\ Live(w) => Beating(w)
    /\ Timely => Ahead(w) /\ (Live(w) => Owned(w))

\* No two claims have the same attempt.
Distinct ==
    \A v, w \in Worker :
        Holds(v) /\ Holds(w) /\ workers[v].attempt = workers[w].attempt => v = w

IInv ==
    /\ TypeOK
    /\ Distinct
    /\ \A w \in Worker : WorkerInv(w)

-----------------------------------------------------------------------------
(* What the invariant implies. *)

\* An owner with a heartbeat has a lease that has not run out.
LEMMA LeaseHeld ==
    ASSUME IInv, Timely, NEW w \in Worker, Holds(w), Owned(w), Beating(w)
    PROVE  now < row.lease_expires_at
<1>1. /\ workers[w].deadline \in Nat
      /\ now <= workers[w].deadline
      /\ now \in Nat /\ row.lease_expires_at \in Int
  BY DEF IInv, TypeOK, WorkerInv, WorkerState, NotOverdue, NoTime, Times
<1>2. workers[w].deadline < row.lease_expires_at
  BY <1>1, RuntimeAssumption DEF IInv, WorkerInv, Ahead, Beating
<1> QED
  BY <1>1, <1>2

\* Two workers are never at work at once.
LEMMA LiveIsUnique == Timely /\ IInv => ExclusiveWork
<1> SUFFICES ASSUME Timely, IInv, NEW v \in Worker, NEW w \in Worker, Live(v), Live(w)
             PROVE  v = w
  BY DEF ExclusiveWork, Live
<1>1. workers[v].attempt = row.attempt_count /\ workers[w].attempt = row.attempt_count
  BY DEF IInv, WorkerInv, Owned
<1> QED
  BY <1>1 DEF IInv, Distinct, Holds, Live

\* A renewal has time to return.
LEMMA RenewalsFit == Timely /\ IInv => RenewalInTime
<1> SUFFICES ASSUME Timely, IInv, NEW w \in Worker,
                    workers[w].heartbeat = "renewing", Owned(w)
             PROVE  workers[w].deadline < row.lease_expires_at
  BY DEF RenewalInTime
<1> QED
  BY DEF IInv, WorkerInv, Ahead, Holds, Beating

\* None is left when the work is over.
LEMMA RenewalsOver == IInv => NoRenewalAfterWork
BY DEF IInv, TypeOK, WorkerState, WorkerInv, Beating, NoRenewalAfterWork

-----------------------------------------------------------------------------
(* The steps that leave the clock and the row alone: one worker changes. *)

\* The invariant follows from what becomes of that worker, if it does not
\* come to hold a claim.
LEMMA OneWorkerInv ==
    ASSUME IInv, NEW w \in Worker, NEW x \in WorkerState,
           UNCHANGED << now, ctxDone, row >>,
           workers' = [workers EXCEPT ![w] = x],
           x.pc \in {"working", "stopping", "completing"} =>
             Holds(w) /\ x.attempt = workers[w].attempt,
           WorkerInv(w)'
    PROVE  IInv'
<1>1. workers \in [Worker -> WorkerState]
  BY DEF IInv, TypeOK
<1>2. /\ workers' \in [Worker -> WorkerState]
      /\ workers'[w] = x
      /\ \A v \in Worker : v # w => workers'[v] = workers[v]
  BY <1>1
<1>3. TypeOK'
  BY <1>2 DEF IInv, TypeOK
<1>4. Distinct'
  BY <1>2 DEF IInv, Distinct, Holds
<1>5. ASSUME NEW v \in Worker, v # w PROVE WorkerInv(v)'
  <2>1. WorkerInv(v) /\ workers'[v] = workers[v]
    BY <1>2, <1>5 DEF IInv
  <2> QED
    BY <2>1 DEF WorkerInv, NotOverdue, Readings, Ahead, Holds, Live, Beating, Owned,
                Cancelled
<1> QED
  BY <1>3, <1>4, <1>5 DEF IInv

\* A claim begins with a clock reading and ClaimLatency to return.
LEMMA ClaimBeginInv ==
    ASSUME IInv, NEW w \in Worker, ClaimBegin(w)
    PROVE  IInv'
<1> DEFINE x == [workers[w] EXCEPT !.pc = "claiming",
                                  !.reading = now,
                                  !.deadline = now + ClaimLatency]
<1>1. /\ WorkerInv(w) /\ workers[w] \in WorkerState /\ now \in Nat
      /\ workers \in [Worker -> WorkerState]
  BY DEF IInv, TypeOK
<1>2. workers' = [workers EXCEPT ![w] = x]
  BY <1>1 DEF ClaimBegin
<1>3. x \in WorkerState
  <2>1. now + ClaimLatency \in Times /\ now \in Times
    BY <1>1, RuntimeAssumption DEF Times
  <2> QED
    BY <1>1, <2>1 DEF WorkerState
<1>4. /\ x.pc = "claiming" /\ x.attempt = workers[w].attempt
      /\ x.heartbeat = workers[w].heartbeat /\ x.reading = now
      /\ x.deadline = now + ClaimLatency /\ x.cancelled = workers[w].cancelled
  BY <1>1 DEF WorkerState
<1> HIDE DEF x
<1>5. workers'[w] = x
  BY <1>1, <1>2
<1>6. WorkerInv(w)'
  BY <1>1, <1>4, <1>5, RuntimeAssumption
  DEF ClaimBegin, IInv, TypeOK, WorkerState, Times, NoTime, WorkerInv, NotOverdue,
      Readings, Ahead, Holds, Live, Beating, Owned, Cancelled
<1> QED
  BY <1>2, <1>3, <1>4, <1>6, OneWorkerInv DEF ClaimBegin, Holds

\* A worker that leaves held nothing.
LEMMA ExitInv ==
    ASSUME IInv, NEW w \in Worker, Exit(w)
    PROVE  IInv'
<1> DEFINE x == [workers[w] EXCEPT !.pc = "exited"]
<1>1. /\ WorkerInv(w) /\ workers[w] \in WorkerState /\ now \in Nat
      /\ workers \in [Worker -> WorkerState]
  BY DEF IInv, TypeOK
<1>2. workers' = [workers EXCEPT ![w] = x]
  BY <1>1 DEF Exit
<1>3. x \in WorkerState
  BY <1>1, RuntimeAssumption DEF WorkerState, Times
<1>4. /\ x.pc = "exited" /\ x.attempt = workers[w].attempt
      /\ x.heartbeat = workers[w].heartbeat /\ x.reading = workers[w].reading
      /\ x.deadline = workers[w].deadline /\ x.cancelled = workers[w].cancelled
  BY <1>1 DEF WorkerState
<1> HIDE DEF x
<1>5. workers'[w] = x
  BY <1>1, <1>2
<1>6. WorkerInv(w)'
  BY <1>1, <1>4, <1>5, RuntimeAssumption
  DEF Exit, IInv, TypeOK, WorkerState, Times, NoTime, WorkerInv, NotOverdue,
      Readings, Ahead, Holds, Live, Beating, Owned, Cancelled
<1> QED
  BY <1>2, <1>3, <1>4, <1>6, OneWorkerInv DEF Exit, Holds

\* Nothing is claimed: the worker polls again.
LEMMA ClaimNothingInv ==
    ASSUME IInv, NEW w \in Worker, ClaimNothing(w)
    PROVE  IInv'
<1>1. workers \in [Worker -> WorkerState]
  BY DEF IInv, TypeOK
<1>2. Polling \in WorkerState
  BY RuntimeAssumption DEF Polling, WorkerState, Times
<1>3. workers' = [workers EXCEPT ![w] = Polling] /\ workers'[w] = Polling
  BY <1>1 DEF ClaimNothing
<1>4. WorkerInv(w)'
  BY <1>3 DEF Polling, WorkerInv, NotOverdue, Readings, Ahead, Holds, Live, Beating
<1> QED
  BY <1>2, <1>3, <1>4, OneWorkerInv DEF ClaimNothing, Polling

\* The timer fires when it is due, and leaves a timeout before the lease ends.
LEMMA HeartbeatFiresInv ==
    ASSUME IInv, NEW w \in Worker, HeartbeatFires(w)
    PROVE  IInv'
<1> DEFINE x == [workers[w] EXCEPT !.heartbeat = "renewing",
                                  !.deadline = now + Timeout]
<1>1. /\ WorkerInv(w) /\ workers[w] \in WorkerState /\ now \in Nat
      /\ workers \in [Worker -> WorkerState]
  BY DEF IInv, TypeOK
<1>2. workers' = [workers EXCEPT ![w] = x]
  BY <1>1 DEF HeartbeatFires
<1>3. x \in WorkerState
  <2>1. now + Timeout \in Times /\ now \in Times
    BY <1>1, RuntimeAssumption DEF Times
  <2> QED
    BY <1>1, <2>1 DEF WorkerState
<1>4. /\ x.pc = workers[w].pc /\ x.attempt = workers[w].attempt
      /\ x.heartbeat = "renewing" /\ x.reading = workers[w].reading
      /\ x.deadline = now + Timeout /\ x.cancelled = workers[w].cancelled
  BY <1>1 DEF WorkerState
<1> HIDE DEF x
<1>5. workers'[w] = x
  BY <1>1, <1>2
<1>6. WorkerInv(w)'
  BY <1>1, <1>4, <1>5, RuntimeAssumption
  DEF HeartbeatFires, IInv, TypeOK, WorkerState, Times, NoTime, WorkerInv, NotOverdue,
      Readings, Ahead, Holds, Live, Beating, Owned, Cancelled
<1> QED
  BY <1>2, <1>3, <1>4, <1>6, OneWorkerInv DEF HeartbeatFires, Holds

\* The goroutine ends only after the work is cancelled.
LEMMA HeartbeatEndsInv ==
    ASSUME IInv, NEW w \in Worker, HeartbeatEnds(w)
    PROVE  IInv'
<1> DEFINE x == [workers[w] EXCEPT !.heartbeat = "ended",
                                  !.deadline = NoTime]
<1>1. /\ WorkerInv(w) /\ workers[w] \in WorkerState /\ now \in Nat
      /\ workers \in [Worker -> WorkerState]
  BY DEF IInv, TypeOK
<1>2. workers' = [workers EXCEPT ![w] = x]
  BY <1>1 DEF HeartbeatEnds
<1>3. x \in WorkerState
  BY <1>1, RuntimeAssumption DEF WorkerState, Times
<1>4. /\ x.pc = workers[w].pc /\ x.attempt = workers[w].attempt
      /\ x.heartbeat = "ended" /\ x.reading = workers[w].reading
      /\ x.deadline = NoTime /\ x.cancelled = workers[w].cancelled
  BY <1>1 DEF WorkerState
<1> HIDE DEF x
<1>5. workers'[w] = x
  BY <1>1, <1>2
<1>6. WorkerInv(w)'
  BY <1>1, <1>4, <1>5, RuntimeAssumption
  DEF HeartbeatEnds, IInv, TypeOK, WorkerState, Times, NoTime, WorkerInv, NotOverdue,
      Readings, Ahead, Holds, Live, Beating, Owned, Cancelled
<1> QED
  BY <1>2, <1>3, <1>4, <1>6, OneWorkerInv DEF HeartbeatEnds, Holds

\* The renewal reads the clock within its timeout.
LEMMA RenewReadInv ==
    ASSUME IInv, NEW w \in Worker, RenewRead(w)
    PROVE  IInv'
<1> DEFINE x == [workers[w] EXCEPT !.heartbeat = "read",
                                  !.reading = now]
<1>1. /\ WorkerInv(w) /\ workers[w] \in WorkerState /\ now \in Nat
      /\ workers \in [Worker -> WorkerState]
  BY DEF IInv, TypeOK
<1>2. workers' = [workers EXCEPT ![w] = x]
  BY <1>1 DEF RenewRead
<1>3. x \in WorkerState
  BY <1>1, RuntimeAssumption DEF WorkerState, Times
<1>4. /\ x.pc = workers[w].pc /\ x.attempt = workers[w].attempt
      /\ x.heartbeat = "read" /\ x.reading = now
      /\ x.deadline = workers[w].deadline /\ x.cancelled = workers[w].cancelled
  BY <1>1 DEF WorkerState
<1> HIDE DEF x
<1>5. workers'[w] = x
  BY <1>1, <1>2
<1>6. WorkerInv(w)'
  BY <1>1, <1>4, <1>5, RuntimeAssumption
  DEF RenewRead, IInv, TypeOK, WorkerState, Times, NoTime, WorkerInv, NotOverdue,
      Readings, Ahead, Holds, Live, Beating, Owned, Cancelled
<1> QED
  BY <1>2, <1>3, <1>4, <1>6, OneWorkerInv DEF RenewRead, Holds

\* The next interval and renewal fit into the lease just renewed.
LEMMA RenewReturnsInv ==
    ASSUME IInv, NEW w \in Worker, RenewReturns(w)
    PROVE  IInv'
<1> DEFINE x == [workers[w] EXCEPT !.heartbeat = "waiting",
                                  !.deadline = now + Interval]
<1>1. /\ WorkerInv(w) /\ workers[w] \in WorkerState /\ now \in Nat
      /\ workers \in [Worker -> WorkerState]
  BY DEF IInv, TypeOK
<1>2. workers' = [workers EXCEPT ![w] = x]
  BY <1>1 DEF RenewReturns
<1>3. x \in WorkerState
  <2>1. now + Interval \in Times /\ now \in Times
    BY <1>1, RuntimeAssumption DEF Times
  <2> QED
    BY <1>1, <2>1 DEF WorkerState
<1>4. /\ x.pc = workers[w].pc /\ x.attempt = workers[w].attempt
      /\ x.heartbeat = "waiting" /\ x.reading = workers[w].reading
      /\ x.deadline = now + Interval /\ x.cancelled = workers[w].cancelled
  BY <1>1 DEF WorkerState
<1> HIDE DEF x
<1>5. workers'[w] = x
  BY <1>1, <1>2
<1>6. WorkerInv(w)'
  BY <1>1, <1>4, <1>5, RuntimeAssumption
  DEF RenewReturns, IInv, TypeOK, WorkerState, Times, NoTime, WorkerInv, NotOverdue,
      Readings, Ahead, Holds, Live, Beating, Owned, Cancelled
<1> QED
  BY <1>2, <1>3, <1>4, <1>6, OneWorkerInv DEF RenewReturns, Holds

\* A failed renewal cancels the work.
LEMMA RenewFailsInv ==
    ASSUME IInv, NEW w \in Worker, RenewFails(w)
    PROVE  IInv'
<1> DEFINE x == [workers[w] EXCEPT !.heartbeat = "ended",
                                  !.deadline = NoTime,
                                  !.err = ~Cancelled(w),
                                  !.cancelled = TRUE]
<1>1. /\ WorkerInv(w) /\ workers[w] \in WorkerState /\ now \in Nat
      /\ workers \in [Worker -> WorkerState]
  BY DEF IInv, TypeOK
<1>2. workers' = [workers EXCEPT ![w] = x]
  BY <1>1 DEF RenewFails
<1>3. x \in WorkerState
  BY <1>1, RuntimeAssumption DEF WorkerState, Times, Cancelled
<1>4. /\ x.pc = workers[w].pc /\ x.attempt = workers[w].attempt
      /\ x.heartbeat = "ended" /\ x.reading = workers[w].reading
      /\ x.deadline = NoTime /\ x.cancelled = TRUE
  BY <1>1 DEF WorkerState
<1> HIDE DEF x
<1>5. workers'[w] = x
  BY <1>1, <1>2
<1>6. WorkerInv(w)'
  BY <1>1, <1>4, <1>5, RuntimeAssumption
  DEF RenewFails, IInv, TypeOK, WorkerState, Times, NoTime, WorkerInv, NotOverdue,
      Readings, Ahead, Holds, Live, Beating, Owned, Cancelled
<1> QED
  BY <1>2, <1>3, <1>4, <1>6, OneWorkerInv DEF RenewFails, Holds

\* Stop cancels the work.
LEMMA WorkReturnsInv ==
    ASSUME IInv, NEW w \in Worker, WorkReturns(w)
    PROVE  IInv'
<1> DEFINE x == [workers[w] EXCEPT !.pc = "stopping",
                                  !.cancelled = TRUE]
<1>1. /\ WorkerInv(w) /\ workers[w] \in WorkerState /\ now \in Nat
      /\ workers \in [Worker -> WorkerState]
  BY DEF IInv, TypeOK
<1>2. workers' = [workers EXCEPT ![w] = x]
  BY <1>1 DEF WorkReturns
<1>3. x \in WorkerState
  BY <1>1, RuntimeAssumption DEF WorkerState, Times
<1>4. /\ x.pc = "stopping" /\ x.attempt = workers[w].attempt
      /\ x.heartbeat = workers[w].heartbeat /\ x.reading = workers[w].reading
      /\ x.deadline = workers[w].deadline /\ x.cancelled = TRUE
  BY <1>1 DEF WorkerState
<1> HIDE DEF x
<1>5. workers'[w] = x
  BY <1>1, <1>2
<1>6. WorkerInv(w)'
  BY <1>1, <1>4, <1>5, RuntimeAssumption
  DEF WorkReturns, IInv, TypeOK, WorkerState, Times, NoTime, WorkerInv, NotOverdue,
      Readings, Ahead, Holds, Live, Beating, Owned, Cancelled
<1> QED
  BY <1>2, <1>3, <1>4, <1>6, OneWorkerInv DEF WorkReturns, Holds

\* The row keeps its lease; the worker gives up its claim.
LEMMA CompleteFailsInv ==
    ASSUME IInv, NEW w \in Worker, CompleteFails(w)
    PROVE  IInv'
<1>1. workers \in [Worker -> WorkerState]
  BY DEF IInv, TypeOK
<1>2. Polling \in WorkerState
  BY RuntimeAssumption DEF Polling, WorkerState, Times
<1>3. workers' = [workers EXCEPT ![w] = Polling] /\ workers'[w] = Polling
  BY <1>1 DEF CompleteFails
<1>4. WorkerInv(w)'
  BY <1>3 DEF Polling, WorkerInv, NotOverdue, Readings, Ahead, Holds, Live, Beating
<1> QED
  BY <1>2, <1>3, <1>4, OneWorkerInv DEF CompleteFails, Polling

\* After a renewal error the worker polls again; otherwise it completes the
\* row, with its heartbeat ended either way.
LEMMA JoinInv ==
    ASSUME IInv, NEW w \in Worker, Join(w)
    PROVE  IInv'
<1> DEFINE x == [workers[w] EXCEPT !.pc = "completing"]
<1>1. /\ WorkerInv(w) /\ workers[w] \in WorkerState
      /\ workers \in [Worker -> WorkerState]
  BY DEF IInv, TypeOK
<1>2. CASE workers[w].err
  <2>1. Polling \in WorkerState
    BY RuntimeAssumption DEF Polling, WorkerState, Times
  <2>2. workers' = [workers EXCEPT ![w] = Polling] /\ workers'[w] = Polling
    BY <1>1, <1>2 DEF Join
  <2>3. WorkerInv(w)'
    BY <2>2 DEF Polling, WorkerInv, NotOverdue, Readings, Ahead, Holds, Live, Beating
  <2> QED
    BY <2>1, <2>2, <2>3, OneWorkerInv DEF Join, Polling
<1>3. CASE ~workers[w].err
  <2>1. workers' = [workers EXCEPT ![w] = x] /\ workers'[w] = x
    BY <1>1, <1>3 DEF Join
  <2>2. x \in WorkerState
    BY <1>1 DEF WorkerState
  <2>3. /\ x.pc = "completing" /\ x.attempt = workers[w].attempt
        /\ x.heartbeat = workers[w].heartbeat /\ x.deadline = workers[w].deadline
    BY <1>1 DEF WorkerState
  <2> HIDE DEF x
  <2>4. WorkerInv(w)'
    BY <1>1, <2>1, <2>3
    DEF Join, WorkerInv, NotOverdue, Readings, Ahead, Holds, Live, Beating, Owned
  <2> QED
    BY <2>1, <2>2, <2>3, <2>4, OneWorkerInv DEF Join, Holds
<1> QED
  BY <1>2, <1>3

-----------------------------------------------------------------------------
(* The steps that change the row. *)

\* A claim finds the row due, so whoever still owned it is no longer at work;
\* its lease, dated by the claim's clock reading, leaves room for a claim that
\* took ClaimLatency, an interval and a renewal.
LEMMA ClaimInv ==
    ASSUME IInv, NEW w \in Worker, Claim(w)
    PROVE  IInv'
<1> DEFINE n == row.attempt_count + 1
           t == workers[w].reading
<1>1. /\ WorkerInv(w) /\ workers[w] \in WorkerState /\ now \in Nat
      /\ workers \in [Worker -> WorkerState]
      /\ row.attempt_count \in 0 .. MaxClaims
  BY DEF IInv, TypeOK
<1>2. /\ n \in 1 .. MaxClaims /\ t \in 0 .. now /\ now <= t + ClaimLatency
  BY <1>1, RuntimeAssumption DEF Claim, WorkerInv, Readings, NotOverdue, NoTime
<1>3. Working(n) \in WorkerState
  <2>1. now + Interval \in Times /\ NoTime \in Times
    BY <1>1, RuntimeAssumption DEF Times
  <2> QED
    BY <1>2, <2>1 DEF Working, WorkerState
<1>4. /\ workers' = [workers EXCEPT ![w] = Working(n)]
      /\ row'.state = "leased" /\ row'.attempt_count = n
      /\ row'.lease_expires_at = t + Lease
      /\ now' = now /\ ctxDone' = ctxDone
  BY DEF Claim
<1>5. /\ workers' \in [Worker -> WorkerState]
      /\ workers'[w] = Working(n)
      /\ \A v \in Worker : v # w => workers'[v] = workers[v]
  BY <1>1, <1>3, <1>4
<1>6. TypeOK'
  <2>1. row' \in [state : {"due", "leased", "done"}, attempt_count : 0 .. MaxClaims,
                  lease_expires_at : Times]
    BY <1>2, RuntimeAssumption DEF Claim, Times
  <2> QED
    BY <1>2, <1>4, <1>5, <2>1, RuntimeAssumption DEF IInv, TypeOK, NoTime
<1>7. ASSUME NEW v \in Worker, v # w, Holds(v)'
      PROVE  Holds(v) /\ workers'[v].attempt \in 1 .. row.attempt_count
  BY <1>5, <1>7 DEF IInv, WorkerInv, Holds
<1>8. workers'[w].attempt = n
  BY <1>5 DEF Working
<1>9. Distinct'
  BY <1>1, <1>5, <1>7, <1>8 DEF IInv, Distinct, Holds
<1>10. WorkerInv(w)'
  <2>1. /\ workers'[w].pc = "working" /\ workers'[w].heartbeat = "waiting"
        /\ workers'[w].deadline = now + Interval /\ workers'[w].attempt = n
    BY <1>5 DEF Working
  <2>2. Timely => Ahead(w)'
    BY <1>1, <1>2, <1>4, <2>1, RuntimeAssumption DEF Ahead, Timely
  <2> QED
    BY <1>1, <1>2, <1>4, <2>1, <2>2, RuntimeAssumption
    DEF WorkerInv, NotOverdue, Readings, Holds, Live, Beating, Owned, NoTime
<1>11. ASSUME NEW v \in Worker, v # w PROVE WorkerInv(v)'
  <2>1. WorkerInv(v) /\ workers'[v] = workers[v] /\ workers[v] \in WorkerState
    BY <1>1, <1>5, <1>11 DEF IInv
  <2>2. Timely => ~Live(v)
    <3> SUFFICES ASSUME Timely, Live(v) PROVE FALSE
      OBVIOUS
    <3>1. Owned(v) /\ Beating(v) /\ Holds(v)
      BY <2>1 DEF WorkerInv, Live, Holds
    <3>2. now < row.lease_expires_at
      BY <3>1, LeaseHeld
    <3>3. row.state = "leased" /\ row.lease_expires_at <= t
      BY <3>1 DEF Claim, Due, Owned
    <3> QED
      BY <1>1, <1>2, <3>2, <3>3 DEF IInv, TypeOK, Times, NoTime
  <2>3. Holds(v)' => ~Owned(v)'
    BY <1>1, <1>4, <1>7, <1>11 DEF Owned
  <2>4. Holds(v)' => workers'[v].attempt \in 1 .. row'.attempt_count
    BY <1>1, <1>4, <1>7, <1>11
  <2> QED
    BY <1>4, <2>1, <2>2, <2>3, <2>4
    DEF WorkerInv, NotOverdue, Readings, Ahead, Holds, Live, Beating, Cancelled
<1> QED
  BY <1>6, <1>9, <1>10, <1>11 DEF IInv

\* A renewal is dated by its clock reading, at most a timeout ago, and moves
\* only the lease of the row's owner.
LEMMA RenewWriteInv ==
    ASSUME IInv, NEW w \in Worker, RenewWrite(w)
    PROVE  IInv'
<1> DEFINE x == [workers[w] EXCEPT !.heartbeat = "written"]
           t == workers[w].reading
<1>1. /\ WorkerInv(w) /\ workers[w] \in WorkerState /\ now \in Nat
      /\ workers \in [Worker -> WorkerState]
      /\ row \in [state : {"due", "leased", "done"}, attempt_count : 0 .. MaxClaims,
                  lease_expires_at : Times]
  BY DEF IInv, TypeOK
<1>2. /\ workers' = [workers EXCEPT ![w] = x]
      /\ now' = now /\ ctxDone' = ctxDone
  BY <1>1 DEF RenewWrite
<1>3. x \in WorkerState
  BY <1>1 DEF WorkerState
<1>4. /\ x.pc = workers[w].pc /\ x.attempt = workers[w].attempt
      /\ x.heartbeat = "written" /\ x.reading = workers[w].reading
      /\ x.deadline = workers[w].deadline /\ x.cancelled = workers[w].cancelled
  BY <1>1 DEF WorkerState
<1> HIDE DEF x
<1>5. /\ workers' \in [Worker -> WorkerState]
      /\ workers'[w] = x
      /\ \A v \in Worker : v # w => workers'[v] = workers[v]
  BY <1>1, <1>2, <1>3
<1>6. t \in 0 .. now /\ workers[w].deadline <= t + Timeout /\ workers[w].deadline \in Times
  BY <1>1 DEF RenewWrite, WorkerInv, Readings, WorkerState
<1>7. /\ row'.state = "leased" /\ row'.attempt_count = row.attempt_count
      /\ row'.lease_expires_at = t + Lease
      /\ row.state = "leased" /\ row.attempt_count = workers[w].attempt
  BY <1>1 DEF RenewWrite, Owned
<1>8. TypeOK'
  <2>1. t + Lease \in Times
    BY <1>6, RuntimeAssumption DEF Times
  <2>2. row' \in [state : {"due", "leased", "done"}, attempt_count : 0 .. MaxClaims,
                  lease_expires_at : Times]
    BY <1>1, <2>1 DEF RenewWrite
  <2> QED
    BY <1>2, <1>5, <1>6, <1>7, <2>2, RuntimeAssumption DEF IInv, TypeOK, NoTime
<1>9. Distinct'
  BY <1>4, <1>5 DEF IInv, Distinct, Holds
<1>10. WorkerInv(w)'
  <2>1. Timely => Ahead(w)'
    BY <1>4, <1>5, <1>6, <1>7, RuntimeAssumption DEF Ahead, Timely, Times, NoTime
  <2> QED
    BY <1>1, <1>2, <1>4, <1>5, <1>7, <2>1
    DEF RenewWrite, WorkerInv, NotOverdue, Readings, Holds, Live, Beating, Owned, Cancelled
<1>11. ASSUME NEW v \in Worker, v # w PROVE WorkerInv(v)'
  <2>1. WorkerInv(v) /\ workers'[v] = workers[v]
    BY <1>5, <1>11 DEF IInv
  <2>2. Holds(w)
    BY <1>1 DEF RenewWrite, WorkerInv, Beating, Holds
  <2>3. Holds(v) => ~Owned(v)
    BY <1>7, <1>11, <2>2 DEF IInv, Distinct, Owned
  <2> QED
    BY <1>2, <1>7, <2>1, <2>3
    DEF WorkerInv, NotOverdue, Readings, Ahead, Holds, Live, Beating, Owned, Cancelled
<1> QED
  BY <1>8, <1>9, <1>10, <1>11 DEF IInv

\* Only the owner's completion changes the row, and its work is over.
LEMMA CompleteInv ==
    ASSUME IInv, NEW w \in Worker, Complete(w)
    PROVE  IInv'
<1>1. /\ WorkerInv(w) /\ workers \in [Worker -> WorkerState]
      /\ row \in [state : {"due", "leased", "done"}, attempt_count : 0 .. MaxClaims,
                  lease_expires_at : Times]
  BY DEF IInv, TypeOK
<1>2. Polling \in WorkerState
  BY RuntimeAssumption DEF Polling, WorkerState, Times
<1>3. /\ workers' \in [Worker -> WorkerState] /\ workers'[w] = Polling
      /\ workers' = [workers EXCEPT ![w] = Polling]
      /\ \A v \in Worker : v # w => workers'[v] = workers[v]
      /\ now' = now /\ ctxDone' = ctxDone
  BY <1>1, <1>2 DEF Complete
<1>4. CASE UNCHANGED row
  <2>1. WorkerInv(w)'
    BY <1>3 DEF Polling, WorkerInv, NotOverdue, Readings, Ahead, Holds, Live, Beating
  <2> QED
    BY <1>2, <1>3, <1>4, <2>1, OneWorkerInv DEF Polling
<1>5. ASSUME Owned(w), NEW state \in {"due", "done"},
             row' = [row EXCEPT !.state = state, !.lease_expires_at = NoTime]
      PROVE  IInv'
  <2>1. /\ row'.state = state /\ row'.attempt_count = row.attempt_count
        /\ row'.lease_expires_at = NoTime
    BY <1>1, <1>5
  <2>2. row' \in [state : {"due", "leased", "done"}, attempt_count : 0 .. MaxClaims,
                  lease_expires_at : Times]
    BY <1>1, <1>5 DEF Times
  <2>3. TypeOK'
    BY <1>3, <1>5, <2>1, <2>2 DEF IInv, TypeOK
  <2>4. ~Holds(w)'
    BY <1>3 DEF Holds, Polling
  <2>5. Distinct'
    BY <1>3, <2>4 DEF IInv, Distinct, Holds
  <2>6. WorkerInv(w)'
    BY <1>3 DEF Polling, WorkerInv, NotOverdue, Readings, Ahead, Holds, Live, Beating
  <2>7. ASSUME NEW v \in Worker, v # w PROVE WorkerInv(v)'
    <3>1. WorkerInv(v) /\ workers'[v] = workers[v]
      BY <1>3, <2>7 DEF IInv
    <3>2. Holds(w)
      BY DEF Complete, Holds
    <3>3. ~(Holds(v) /\ Owned(v))
      BY <1>5, <2>7, <3>2 DEF IInv, Distinct, Owned
    <3>4. Timely => ~Live(v)
      BY <3>1, <3>3 DEF WorkerInv, Live, Holds
    <3>5. ~Owned(v)'
      BY <1>5, <2>1 DEF Owned
    <3> QED
      BY <1>3, <2>1, <3>1, <3>4, <3>5
      DEF WorkerInv, NotOverdue, Readings, Ahead, Holds, Live, Beating, Cancelled
  <2> QED
    BY <2>3, <2>5, <2>6, <2>7 DEF IInv
<1> QED
  BY <1>4, <1>5 DEF Complete

-----------------------------------------------------------------------------
(* The clock and the shutdown. *)

\* The clock does not pass a deadline.
LEMMA TickInv ==
    ASSUME IInv, Tick
    PROVE  IInv'
<1>1. now \in Nat /\ now' = now + 1 /\ UNCHANGED << ctxDone, row, workers >>
  BY DEF IInv, TypeOK, Tick
<1>2. TypeOK' /\ Distinct'
  BY <1>1 DEF IInv, TypeOK, Distinct, Holds
<1>3. ASSUME NEW w \in Worker PROVE WorkerInv(w)'
  <2>1. /\ WorkerInv(w) /\ workers[w].deadline \in Times /\ workers[w].reading \in Times
        /\ workers[w].deadline = NoTime \/ now < workers[w].deadline
    BY DEF IInv, TypeOK, WorkerState, Tick
  <2>2. NotOverdue(w)' /\ Readings(w)'
    BY <1>1, <2>1, RuntimeAssumption
    DEF WorkerInv, NotOverdue, Readings, Beating, Times, NoTime
  <2> QED
    BY <1>1, <2>1, <2>2 DEF WorkerInv, Ahead, Holds, Live, Beating, Owned, Cancelled
<1> QED
  BY <1>2, <1>3 DEF IInv

\* A shutdown cancels all work.
LEMMA ShutdownInv ==
    ASSUME IInv, Shutdown
    PROVE  IInv'
<1>1. ctxDone' = TRUE /\ UNCHANGED << now, row, workers >>
  BY DEF Shutdown
<1>2. TypeOK' /\ Distinct'
  BY <1>1 DEF IInv, TypeOK, Distinct, Holds
<1>3. ASSUME NEW w \in Worker PROVE WorkerInv(w)'
  BY <1>1 DEF IInv, WorkerInv, NotOverdue, Readings, Ahead, Holds, Live, Beating, Owned,
              Cancelled
<1> QED
  BY <1>2, <1>3 DEF IInv

-----------------------------------------------------------------------------
(* The theorems. *)

\* At the start every worker polls and the row is due.
LEMMA InitInv == Init => IInv
<1> SUFFICES ASSUME Init PROVE IInv
  OBVIOUS
<1>1. Polling \in WorkerState
  BY RuntimeAssumption DEF Polling, WorkerState, Times
<1>2. TypeOK
  <2>1. 0 \in 0 .. MaxClaims /\ NoTime \in Times
    BY RuntimeAssumption DEF Times
  <2>2. workers \in [Worker -> WorkerState]
    BY <1>1 DEF Init
  <2>3. row \in [state : {"due", "leased", "done"}, attempt_count : 0 .. MaxClaims,
                 lease_expires_at : Times]
    BY <2>1 DEF Init
  <2> QED
    BY <2>2, <2>3 DEF Init, TypeOK
<1>3. ASSUME NEW w \in Worker PROVE WorkerInv(w) /\ ~Holds(w)
  BY DEF Init, Polling, WorkerInv, NotOverdue, Readings, Ahead, Holds, Live, Beating
<1> QED
  BY <1>2, <1>3 DEF IInv, Distinct

\* Every step of the workers, the heartbeats and the clock keeps the invariant.
LEMMA Invariance == IInv /\ [Next]_vars => IInv'
<1> SUFFICES ASSUME IInv, [Next]_vars PROVE IInv'
  OBVIOUS
<1>1. CASE Tick
  BY <1>1, TickInv
<1>2. CASE Shutdown
  BY <1>2, ShutdownInv
<1>3. ASSUME NEW w \in Worker, ClaimBegin(w) \/ Exit(w) PROVE IInv'
  BY <1>3, ClaimBeginInv, ExitInv
<1>4. ASSUME NEW w \in Worker, Heartbeat(w) PROVE IInv'
  BY <1>4, HeartbeatFiresInv, HeartbeatEndsInv, RenewReadInv, RenewWriteInv,
     RenewReturnsInv, RenewFailsInv
  DEF Heartbeat
<1>5. ASSUME NEW w \in Worker, Work(w) PROVE IInv'
  BY <1>5, ClaimNothingInv, ClaimInv, WorkReturnsInv, JoinInv, CompleteInv,
     CompleteFailsInv
  DEF Work
<1>6. CASE UNCHANGED vars
  BY <1>6 DEF vars, IInv, TypeOK, Distinct, WorkerInv, NotOverdue, Readings, Ahead,
              Holds, Live, Beating, Owned, Cancelled
<1> QED
  BY <1>1, <1>2, <1>3, <1>4, <1>5, <1>6 DEF Next

\* The invariant holds in every state.
LEMMA AlwaysInv == Spec => []IInv
BY InitInv, Invariance, PTL DEF Spec

\* The row, the worker goroutines and their heartbeats keep their types: a row
\* has a lease exactly while it is leased.
THEOREM TypeCorrect == Spec => []TypeOK
<1>1. IInv => TypeOK
  BY DEF IInv
<1> QED
  BY <1>1, AlwaysInv, PTL

\* Stop ends the heartbeat before the result is recorded (leaseHeartbeat.Stop),
\* whatever the durations.
THEOREM RenewalsEnd == Spec => []NoRenewalAfterWork
BY AlwaysInv, RenewalsOver, PTL

\* With timely durations no two workers are at work on the row at once, for
\* any number of workers and any failures of renewals (leaseHeartbeat).
THEOREM WorkIsExclusive ==
    ASSUME Timely
    PROVE  Spec => []ExclusiveWork
<1>1. IInv => ExclusiveWork
  BY LiveIsUnique
<1> QED
  BY <1>1, AlwaysInv, PTL

\* With timely durations a renewal that runs into its timeout still returns
\* before the lease expires; NewRuntime's check alone does not give this.
THEOREM RenewalsInTime ==
    ASSUME Timely
    PROVE  Spec => []RenewalInTime
<1>1. IInv => RenewalInTime
  BY RenewalsFit
<1> QED
  BY <1>1, AlwaysInv, PTL
=============================================================================
