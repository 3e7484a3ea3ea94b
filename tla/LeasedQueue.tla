----------------------------- MODULE LeasedQueue ------------------------------
(***************************************************************************)
(* What postgres.Store promises a worker: a queue whose items are worked   *)
(* by one claim at a time.  A claim holds an item until its lease runs     *)
(* out, may renew it, and ends it by putting it back for later or by       *)
(* finishing it for good.  Outbox and Inbox implement this specification   *)
(* with tables, row locks and transactions that can overlap and fail; here *)
(* every operation is one step.                                            *)
(*                                                                         *)
(* An item is [status, claim, until]: `claim' counts its claims, `until'   *)
(* is when it is due (waiting), when its lease runs out (leased) or until  *)
(* when it is kept (done).  An archived item is done and kept for ever.    *)
(***************************************************************************)
EXTENDS Integers

CONSTANTS
    Item,
    Lease   \* how long a claim or a renewal lasts

VARIABLES
    now,
    queue

vars == << now, queue >>

Absent == [status |-> "absent", claim |-> 0, until |-> 0]

Init ==
    /\ now = 0
    /\ queue = [i \in Item |-> Absent]

Tick ==
    /\ now' = now + 1
    /\ UNCHANGED queue

Becomes(i, status, claim, until) ==
    /\ queue' = [queue EXCEPT
            ![i] = [status |-> status, claim |-> claim, until |-> until]]
    /\ UNCHANGED now

\* A new item is due at once: t is when its producer read the clock.
Add(i) ==
    /\ queue[i].status = "absent"
    /\ \E t \in 0 .. now : Becomes(i, "waiting", 0, t)

\* A claim is granted on an item that is due, or whose lease has run out, at
\* a time t the claimer has read from the clock; its lease starts then.
Claim(i) ==
    /\ queue[i].status \in {"waiting", "leased"}
    /\ \E t \in queue[i].until .. now :
         Becomes(i, "leased", queue[i].claim + 1, t + Lease)

\* A lease that had not run out at t lasts until t + Lease.  Whose call this is
\* is not said here: StaleClaimIsRefused of Outbox and Inbox does.
Renew(i) ==
    /\ queue[i].status = "leased"
    /\ \E t \in 0 .. now : /\ t < queue[i].until
                           /\ Becomes(i, "leased", queue[i].claim, t + Lease)

\* The claim ends: the item is worked again later, or it is done.
End(i) ==
    /\ queue[i].status = "leased"
    /\ \E status \in {"waiting", "done", "archived"} :
         Becomes(i, status, queue[i].claim, queue'[i].until)
    /\ queue'[i].until >= 0

\* Done items go, and only those, once they have been kept long enough.
Remove(items) ==
    /\ \A i \in items : queue[i].status = "done" /\ queue[i].until < now
    /\ queue' = [i \in Item |-> IF i \in items THEN Absent ELSE queue[i]]
    /\ UNCHANGED now

Next ==
    \/ Tick
    \/ \E i \in Item : Add(i) \/ Claim(i) \/ Renew(i) \/ End(i)
    \/ \E items \in SUBSET Item : Remove(items)

Spec == Init /\ [][Next]_vars
=============================================================================
