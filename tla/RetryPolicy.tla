---------------------------- MODULE RetryPolicy ----------------------------
(***************************************************************************)
(* hookbound.RetryPolicy (src/retry.go): when the next automatic attempt   *)
(* may start.  Time is an integer number of ticks; NoTime is the zero      *)
(* time.Time, the value the code tests with IsZero.                        *)
(***************************************************************************)
EXTENDS Integers, Sequences

CONSTANTS
    Schedule,     \* RetryPolicy.Schedule, a sequence of delays
    MaxAttempts,  \* RetryPolicy.MaxAttempts; <= 0 means "derive from Schedule"
    MaxDelay      \* stands for time.Duration(math.MaxInt64/2)

ASSUME RetryAssumption ==
    /\ Schedule \in Seq(Int)
    /\ MaxAttempts \in Int
    /\ MaxDelay \in Nat

NoTime == -1

MaximumAttempts == IF MaxAttempts <= 0 THEN Len(Schedule) + 1 ELSE MaxAttempts

\* The delay after the given one-based attempt: past its end the schedule
\* repeats its last entry.
Delay(attempt) ==
    Schedule[IF attempt > Len(Schedule) THEN Len(Schedule) ELSE attempt]

\* Faulty: one attempt too many.
RetryOnceMore(attempt) ==
    /\ attempt \in 1 .. MaximumAttempts
    /\ Schedule # << >>
    /\ Delay(attempt) \in 0 .. MaxDelay

\* Whether Next returns ok = true.  The last test of Next (delay + jitter
\* overflows) cannot fire once Delay(attempt) <= MaxDelay.
RetryAllowed(attempt) ==
    /\ attempt > 0
    /\ attempt < MaximumAttempts
    /\ Schedule # << >>
    /\ Delay(attempt) \in 0 .. MaxDelay

\* Every time Next(t, attempt) can return: the jitter source is clamped to
\* [0, delay/5], whatever it returns.
NextTimes(t, attempt) ==
    { t + Delay(attempt) + jitter : jitter \in 0 .. (Delay(attempt) \div 5) }
=============================================================================
