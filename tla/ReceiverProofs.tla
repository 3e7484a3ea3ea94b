---------------------------- MODULE ReceiverProofs ----------------------------
(***************************************************************************)
(* Safety of the inbound path for any number of requests, messages and     *)
(* guard entries: claims have one owner, a 2xx answer means a handler      *)
(* succeeded, no replay within the TTL, and the guard keeps to its bound.  *)
(***************************************************************************)
EXTENDS Receiver, FiniteSetTheorems, TLAPS

-----------------------------------------------------------------------------
(* The inductive invariant. *)

\* A request has a result only after its handler has returned, an expiry
\* before it commits, and an answer only at its end.
Progress(q) ==
    /\ requests[q].pc \in {"new", "claiming", "waiting", "handling"} =>
         requests[q].result = "none"
    /\ requests[q].pc = "committing" =>
         requests[q].result = "ok" /\ requests[q].expiresAt \in Nat
    /\ requests[q].response # "none" => requests[q].pc = "done"

\* The requests whose claim was committed.
Committed(q) == requests[q].result = "ok" /\ requests[q].response = "success"

\* The guard remembers a committed message until it expires.
Remembered(q) ==
    Committed(q) =>
        \/ requests[q].expiresAt <= now
        \/ /\ entries[KeyOf(q)].status = "accepted"
           /\ entries[KeyOf(q)].expiresAt = requests[q].expiresAt

\* The handler succeeded for the message, by some request.
Handled(k) == \E r \in Request : KeyOf(r) = k /\ requests[r].result = "ok"

\* What the invariant says of one request and of one message.
RequestInv(q) ==
    /\ Progress(q)
    /\ Owns(q) => entries[KeyOf(q)] = Active(q)
    /\ requests[q].response = "success" => Handled(KeyOf(q))
    /\ Remembered(q)

KeyInv(k) ==
    /\ entries[k].status = "active" => \E q \in Request : Owns(q) /\ KeyOf(q) = k
    /\ entries[k].status = "accepted" => Handled(k)

IInv ==
    /\ TypeOK
    /\ \A q \in Request : RequestInv(q)
    /\ \A k \in Key : KeyInv(k)

-----------------------------------------------------------------------------
(* Steps that leave the guard alone: one request changes. *)

\* The invariant follows from what becomes of that request, if it neither takes
\* nor gives up a claim.
LEMMA OneRequestInv ==
    ASSUME IInv, NEW q \in Request, NEW x \in RequestState,
           UNCHANGED << now, entries >>,
           requests' = [requests EXCEPT ![q] = x],
           x.key = requests[q].key,
           x.pc \in {"handling", "handled", "committing"} <=> Owns(q),
           requests[q].result = "ok" => x.result = "ok",
           x.response = "success" => Handled(KeyOf(q)),
           x.response = "success" => x.result # "ok",
           Progress(q)'
    PROVE  IInv'
<1>1. requests \in [Request -> RequestState]
  BY DEF IInv, TypeOK
<1>2. /\ requests' \in [Request -> RequestState]
      /\ requests'[q] = x
      /\ \A r \in Request : r # q => requests'[r] = requests[r]
  BY <1>1
<1>3. TypeOK'
  BY <1>2 DEF IInv, TypeOK
<1>4. \A r \in Request : KeyOf(r)' = KeyOf(r) /\ (Owns(r)' <=> Owns(r))
  BY <1>2 DEF KeyOf, Owns
<1>5. \A k \in Key : Handled(k) => Handled(k)'
  BY <1>2, <1>4 DEF Handled
<1>6. \A r \in Request : KeyOf(r) \in Key
  BY <1>1 DEF KeyOf, RequestState
<1>7. ASSUME NEW r \in Request, r # q PROVE RequestInv(r)'
  <2>1. RequestInv(r) /\ requests'[r] = requests[r]
    BY <1>2, <1>7 DEF IInv
  <2> QED
    BY <1>4, <1>5, <1>6, <2>1
    DEF RequestInv, Progress, Remembered, Committed, Active
<1>8. RequestInv(q)'
  <2>1. RequestInv(q)
    BY DEF IInv
  <2> QED
    BY <1>2, <1>4, <1>5, <1>6, <2>1 DEF RequestInv, Remembered, Committed, Active
<1>9. ASSUME NEW k \in Key PROVE KeyInv(k)'
  BY <1>4, <1>5 DEF IInv, KeyInv
<1> QED
  BY <1>3, <1>7, <1>8, <1>9 DEF IInv

\* A request refused before its claim ends without touching the guard.
LEMMA RejectInv ==
    ASSUME IInv, NEW q \in Request, Reject(q)
    PROVE  IInv'
<1> DEFINE x == [requests[q] EXCEPT !.pc = "done", !.response = "error"]
<1>1. /\ requests \in [Request -> RequestState] /\ requests[q] \in RequestState
      /\ entries \in [Key -> Entry] /\ now \in Nat /\ KeyOf(q) \in Key
  BY DEF IInv, TypeOK, KeyOf, RequestState
<1>2. requests' = [requests EXCEPT ![q] = x]
  BY <1>1 DEF Reject, Goto, Respond
<1>3. x \in RequestState
  BY <1>1 DEF RequestState
<1>4. /\ x.pc = "done" /\ x.key = requests[q].key /\ x.result = requests[q].result
      /\ x.response = "error" /\ x.expiresAt = requests[q].expiresAt
  BY <1>1 DEF RequestState
<1> HIDE DEF x
<1>5. requests'[q] = x
  BY <1>1, <1>2
<1>6. RequestInv(q) /\ KeyInv(KeyOf(q))
  BY <1>1 DEF IInv
<1>7. Progress(q)'
  BY <1>4, <1>5, <1>6 DEF Reject, RequestInv, Progress
<1>8. /\ x.pc \in {"handling", "handled", "committing"} <=> Owns(q)
      /\ requests[q].result = "ok" => x.result = "ok"
      /\ x.response = "success" => Handled(KeyOf(q)) /\ x.result # "ok"
  BY <1>4, <1>6 DEF Reject, RequestInv, Progress, Owns
<1> QED
  BY <1>2, <1>3, <1>4, <1>7, <1>8, OneRequestInv DEF Reject

\* A verified request goes on to claim its message.
LEMMA VerifyInv ==
    ASSUME IInv, NEW q \in Request, Verify(q)
    PROVE  IInv'
<1> DEFINE x == [requests[q] EXCEPT !.pc = "claiming"]
<1>1. /\ requests \in [Request -> RequestState] /\ requests[q] \in RequestState
      /\ entries \in [Key -> Entry] /\ now \in Nat /\ KeyOf(q) \in Key
  BY DEF IInv, TypeOK, KeyOf, RequestState
<1>2. requests' = [requests EXCEPT ![q] = x]
  BY <1>1 DEF Verify, Goto, Respond
<1>3. x \in RequestState
  BY <1>1 DEF RequestState
<1>4. /\ x.pc = "claiming" /\ x.key = requests[q].key /\ x.result = requests[q].result
      /\ x.response = requests[q].response /\ x.expiresAt = requests[q].expiresAt
  BY <1>1 DEF RequestState
<1> HIDE DEF x
<1>5. requests'[q] = x
  BY <1>1, <1>2
<1>6. RequestInv(q) /\ KeyInv(KeyOf(q))
  BY <1>1 DEF IInv
<1>7. Progress(q)'
  BY <1>4, <1>5, <1>6 DEF Verify, RequestInv, Progress
<1>8. /\ x.pc \in {"handling", "handled", "committing"} <=> Owns(q)
      /\ requests[q].result = "ok" => x.result = "ok"
      /\ x.response = "success" => Handled(KeyOf(q)) /\ x.result # "ok"
  BY <1>4, <1>6 DEF Verify, RequestInv, Progress, Owns
<1> QED
  BY <1>2, <1>3, <1>4, <1>7, <1>8, OneRequestInv DEF Verify

\* A duplicate is acknowledged on the strength of the accepted entry.
LEMMA ClaimDuplicateInv ==
    ASSUME IInv, NEW q \in Request, ClaimDuplicate(q)
    PROVE  IInv'
<1> DEFINE x == [requests[q] EXCEPT !.pc = "done", !.response = "success"]
<1>1. /\ requests \in [Request -> RequestState] /\ requests[q] \in RequestState
      /\ entries \in [Key -> Entry] /\ now \in Nat /\ KeyOf(q) \in Key
  BY DEF IInv, TypeOK, KeyOf, RequestState
<1>2. requests' = [requests EXCEPT ![q] = x]
  BY <1>1 DEF ClaimDuplicate, Goto, Respond
<1>3. x \in RequestState
  BY <1>1 DEF RequestState
<1>4. /\ x.pc = "done" /\ x.key = requests[q].key /\ x.result = requests[q].result
      /\ x.response = "success" /\ x.expiresAt = requests[q].expiresAt
  BY <1>1 DEF RequestState
<1> HIDE DEF x
<1>5. requests'[q] = x
  BY <1>1, <1>2
<1>6. RequestInv(q) /\ KeyInv(KeyOf(q))
  BY <1>1 DEF IInv
<1>7. Progress(q)'
  BY <1>4, <1>5, <1>6 DEF ClaimDuplicate, RequestInv, Progress
<1>8. /\ x.pc \in {"handling", "handled", "committing"} <=> Owns(q)
      /\ requests[q].result = "ok" => x.result = "ok"
      /\ x.response = "success" => Handled(KeyOf(q)) /\ x.result # "ok"
  BY <1>4, <1>6 DEF ClaimDuplicate, RequestInv, Progress, Owns, KeyInv, Duplicate
<1> QED
  BY <1>2, <1>3, <1>4, <1>7, <1>8, OneRequestInv DEF ClaimDuplicate

\* A duplicate of an active claim waits.
LEMMA ClaimWaitInv ==
    ASSUME IInv, NEW q \in Request, ClaimWait(q)
    PROVE  IInv'
<1> DEFINE x == [requests[q] EXCEPT !.pc = "waiting", !.waitsFor = entries[KeyOf(q)].owner]
<1>1. /\ requests \in [Request -> RequestState] /\ requests[q] \in RequestState
      /\ entries \in [Key -> Entry] /\ now \in Nat /\ KeyOf(q) \in Key
  BY DEF IInv, TypeOK, KeyOf, RequestState
<1>2. requests' = [requests EXCEPT ![q] = x]
  BY <1>1 DEF ClaimWait, Goto, Respond
<1>3. x \in RequestState
  BY <1>1 DEF RequestState, Entry
<1>4. /\ x.pc = "waiting" /\ x.key = requests[q].key /\ x.result = requests[q].result
      /\ x.response = requests[q].response /\ x.expiresAt = requests[q].expiresAt
  BY <1>1 DEF RequestState
<1> HIDE DEF x
<1>5. requests'[q] = x
  BY <1>1, <1>2
<1>6. RequestInv(q) /\ KeyInv(KeyOf(q))
  BY <1>1 DEF IInv
<1>7. Progress(q)'
  BY <1>4, <1>5, <1>6 DEF ClaimWait, RequestInv, Progress
<1>8. /\ x.pc \in {"handling", "handled", "committing"} <=> Owns(q)
      /\ requests[q].result = "ok" => x.result = "ok"
      /\ x.response = "success" => Handled(KeyOf(q)) /\ x.result # "ok"
  BY <1>4, <1>6 DEF ClaimWait, RequestInv, Progress, Owns
<1> QED
  BY <1>2, <1>3, <1>4, <1>7, <1>8, OneRequestInv DEF ClaimWait

\* A waiter goes back to the head of the loop.
LEMMA WakeInv ==
    ASSUME IInv, NEW q \in Request, Wake(q)
    PROVE  IInv'
<1> DEFINE x == [requests[q] EXCEPT !.pc = "claiming"]
<1>1. /\ requests \in [Request -> RequestState] /\ requests[q] \in RequestState
      /\ entries \in [Key -> Entry] /\ now \in Nat /\ KeyOf(q) \in Key
  BY DEF IInv, TypeOK, KeyOf, RequestState
<1>2. requests' = [requests EXCEPT ![q] = x]
  BY <1>1 DEF Wake, Goto, Respond
<1>3. x \in RequestState
  BY <1>1 DEF RequestState
<1>4. /\ x.pc = "claiming" /\ x.key = requests[q].key /\ x.result = requests[q].result
      /\ x.response = requests[q].response /\ x.expiresAt = requests[q].expiresAt
  BY <1>1 DEF RequestState
<1> HIDE DEF x
<1>5. requests'[q] = x
  BY <1>1, <1>2
<1>6. RequestInv(q) /\ KeyInv(KeyOf(q))
  BY <1>1 DEF IInv
<1>7. Progress(q)'
  BY <1>4, <1>5, <1>6 DEF Wake, RequestInv, Progress
<1>8. /\ x.pc \in {"handling", "handled", "committing"} <=> Owns(q)
      /\ requests[q].result = "ok" => x.result = "ok"
      /\ x.response = "success" => Handled(KeyOf(q)) /\ x.result # "ok"
  BY <1>4, <1>6 DEF Wake, RequestInv, Progress, Owns
<1> QED
  BY <1>2, <1>3, <1>4, <1>7, <1>8, OneRequestInv DEF Wake

\* A waiter that gives up leaves the claim alone.
LEMMA CancelInv ==
    ASSUME IInv, NEW q \in Request, Cancel(q)
    PROVE  IInv'
<1> DEFINE x == [requests[q] EXCEPT !.pc = "done", !.response = "error"]
<1>1. /\ requests \in [Request -> RequestState] /\ requests[q] \in RequestState
      /\ entries \in [Key -> Entry] /\ now \in Nat /\ KeyOf(q) \in Key
  BY DEF IInv, TypeOK, KeyOf, RequestState
<1>2. requests' = [requests EXCEPT ![q] = x]
  BY <1>1 DEF Cancel, Goto, Respond
<1>3. x \in RequestState
  BY <1>1 DEF RequestState
<1>4. /\ x.pc = "done" /\ x.key = requests[q].key /\ x.result = requests[q].result
      /\ x.response = "error" /\ x.expiresAt = requests[q].expiresAt
  BY <1>1 DEF RequestState
<1> HIDE DEF x
<1>5. requests'[q] = x
  BY <1>1, <1>2
<1>6. RequestInv(q) /\ KeyInv(KeyOf(q))
  BY <1>1 DEF IInv
<1>7. Progress(q)'
  BY <1>4, <1>5, <1>6 DEF Cancel, RequestInv, Progress
<1>8. /\ x.pc \in {"handling", "handled", "committing"} <=> Owns(q)
      /\ requests[q].result = "ok" => x.result = "ok"
      /\ x.response = "success" => Handled(KeyOf(q)) /\ x.result # "ok"
  BY <1>4, <1>6 DEF Cancel, RequestInv, Progress, Owns
<1> QED
  BY <1>2, <1>3, <1>4, <1>7, <1>8, OneRequestInv DEF Cancel

\* The claim outlasts the handler.
LEMMA HandlerEndsInv ==
    ASSUME IInv, NEW q \in Request, HandlerEnds(q)
    PROVE  IInv'
<1>0. PICK result \in {"ok", "failed", "panicked"} :
        requests' = [requests EXCEPT ![q].pc = "handled", ![q].result = result]
  BY DEF HandlerEnds
<1> DEFINE x == [requests[q] EXCEPT !.pc = "handled", !.result = result]
<1>1. /\ requests \in [Request -> RequestState] /\ requests[q] \in RequestState
      /\ entries \in [Key -> Entry] /\ now \in Nat /\ KeyOf(q) \in Key
  BY DEF IInv, TypeOK, KeyOf, RequestState
<1>2. requests' = [requests EXCEPT ![q] = x]
  BY <1>1, <1>0 DEF HandlerEnds, Goto, Respond
<1>3. x \in RequestState
  BY <1>1 DEF RequestState
<1>4. /\ x.pc = "handled" /\ x.key = requests[q].key /\ x.result = result
      /\ x.response = requests[q].response /\ x.expiresAt = requests[q].expiresAt
  BY <1>1 DEF RequestState
<1> HIDE DEF x
<1>5. requests'[q] = x
  BY <1>1, <1>2
<1>6. RequestInv(q) /\ KeyInv(KeyOf(q))
  BY <1>1 DEF IInv
<1>7. Progress(q)'
  BY <1>4, <1>5, <1>6 DEF HandlerEnds, RequestInv, Progress
<1>8. /\ x.pc \in {"handling", "handled", "committing"} <=> Owns(q)
      /\ requests[q].result = "ok" => x.result = "ok"
      /\ x.response = "success" => Handled(KeyOf(q)) /\ x.result # "ok"
  BY <1>4, <1>6, <1>0 DEF HandlerEnds, RequestInv, Progress, Owns
<1> QED
  BY <1>2, <1>3, <1>4, <1>7, <1>8, OneRequestInv DEF HandlerEnds

\* The expiry is read from the clock before the commit.
LEMMA CommitBeginInv ==
    ASSUME IInv, NEW q \in Request, CommitBegin(q)
    PROVE  IInv'
<1> DEFINE x == [requests[q] EXCEPT !.pc = "committing", !.expiresAt = now + ReplayTTL]
<1>1. /\ requests \in [Request -> RequestState] /\ requests[q] \in RequestState
      /\ entries \in [Key -> Entry] /\ now \in Nat /\ KeyOf(q) \in Key
  BY DEF IInv, TypeOK, KeyOf, RequestState
<1>2. requests' = [requests EXCEPT ![q] = x]
  BY <1>1 DEF CommitBegin, Goto, Respond
<1>3. x \in RequestState
  <2>1. now + ReplayTTL \in Nat \cup {NoTime}
    BY <1>1, ReceiverAssumption
  <2> QED
    BY <1>1, <2>1 DEF RequestState
<1>4. /\ x.pc = "committing" /\ x.key = requests[q].key /\ x.result = requests[q].result
      /\ x.response = requests[q].response /\ x.expiresAt = now + ReplayTTL
  BY <1>1 DEF RequestState
<1> HIDE DEF x
<1>5. requests'[q] = x
  BY <1>1, <1>2
<1>6. RequestInv(q) /\ KeyInv(KeyOf(q))
  BY <1>1 DEF IInv
<1>7. Progress(q)'
  <2>1. now + ReplayTTL \in Nat
    BY <1>1, ReceiverAssumption
  <2> QED
    BY <1>4, <1>5, <1>6, <2>1 DEF CommitBegin, RequestInv, Progress
<1>8. /\ x.pc \in {"handling", "handled", "committing"} <=> Owns(q)
      /\ requests[q].result = "ok" => x.result = "ok"
      /\ x.response = "success" => Handled(KeyOf(q)) /\ x.result # "ok"
  BY <1>4, <1>6 DEF CommitBegin, RequestInv, Progress, Owns
<1> QED
  BY <1>2, <1>3, <1>4, <1>7, <1>8, OneRequestInv DEF CommitBegin

-----------------------------------------------------------------------------
(* Steps that change the guard. *)

\* While a request owns the claim of its message, or finds no claim and no
\* accepted entry, nobody else owns it and no committed success is within its
\* TTL.
LEMMA Alone ==
    ASSUME IInv, NEW q \in Request, Owns(q) \/ Free(q),
           NEW r \in Request, r # q, KeyOf(r) = KeyOf(q)
    PROVE  ~Owns(r) /\ (Committed(r) => requests[r].expiresAt <= now)
<1>1. /\ RequestInv(q) /\ RequestInv(r) /\ now \in Nat
      /\ entries \in [Key -> Entry] /\ KeyOf(q) \in Key
  BY DEF IInv, TypeOK, KeyOf, RequestState
<1>2. CASE Owns(q)
  <2>1. entries[KeyOf(q)] = Active(q)
    BY <1>1, <1>2 DEF RequestInv
  <2>2. ~Owns(r)
    BY <1>1, <2>1 DEF RequestInv, Active
  <2> QED
    BY <1>1, <2>1, <2>2 DEF RequestInv, Remembered, Active
<1>3. CASE Free(q)
  <2>1. ~Owns(r)
    BY <1>1, <1>3 DEF Free, RequestInv, Active
  <2>2. entries[KeyOf(q)].status = "accepted" => entries[KeyOf(q)].expiresAt <= now
    BY <1>3 DEF Free, Duplicate, Expired
  <2> QED
    BY <1>1, <2>1, <2>2 DEF RequestInv, Remembered
<1> QED
  BY <1>2, <1>3

\* The invariant follows from what becomes of the request and of its entry,
\* when other entries go only once they have expired.
LEMMA GuardStepInv ==
    ASSUME IInv, NEW q \in Request, Owns(q) \/ Free(q), NEW x \in RequestState,
           now' = now, TypeOK',
           requests' = [requests EXCEPT ![q] = x],
           x.key = requests[q].key,
           requests[q].result = "ok" => x.result = "ok",
           \A k \in Key : k # KeyOf(q) =>
               \/ entries'[k] = entries[k]
               \/ Expired(entries[k]) /\ entries'[k] = NoEntry,
           RequestInv(q)', KeyInv(KeyOf(q))'
    PROVE  IInv'
<1>1. requests \in [Request -> RequestState] /\ entries \in [Key -> Entry]
  BY DEF IInv, TypeOK
<1>2. /\ requests'[q] = x
      /\ \A r \in Request : r # q => requests'[r] = requests[r]
  BY <1>1
<1>3. \A r \in Request : KeyOf(r)' = KeyOf(r) /\ KeyOf(r) \in Key
  BY <1>1, <1>2 DEF KeyOf, RequestState
<1>4. \A k \in Key : Handled(k) => Handled(k)'
  BY <1>2, <1>3 DEF Handled
<1>5. ASSUME NEW r \in Request, r # q PROVE RequestInv(r)'
  <2>1. /\ RequestInv(r) /\ requests'[r] = requests[r]
        /\ (Owns(r)' <=> Owns(r)) /\ (Committed(r)' <=> Committed(r))
    BY <1>2, <1>5 DEF IInv, Owns, Committed
  <2>2. Progress(r)'
    BY <2>1 DEF RequestInv, Progress
  <2>3. requests'[r].response = "success" => Handled(KeyOf(r))'
    BY <1>3, <1>4, <2>1 DEF RequestInv
  <2>4. CASE KeyOf(r) = KeyOf(q)
    <3>1. ~Owns(r) /\ (Committed(r) => requests[r].expiresAt <= now)
      BY <1>5, <2>4, Alone
    <3> QED
      BY <1>3, <2>1, <2>2, <2>3, <3>1 DEF RequestInv, Remembered
  <2>5. CASE KeyOf(r) # KeyOf(q)
    <3>1. \/ entries'[KeyOf(r)] = entries[KeyOf(r)]
          \/ Expired(entries[KeyOf(r)])
      BY <1>3, <2>5
    <3>2. (Owns(r) => entries'[KeyOf(r)] = Active(r)) /\ Remembered(r)'
      BY <1>3, <2>1, <3>1 DEF RequestInv, Remembered, Expired, Active
    <3> QED
      BY <1>3, <2>1, <2>2, <2>3, <3>2 DEF RequestInv, Active
  <2> QED
    BY <2>4, <2>5
<1>6. ASSUME NEW k \in Key, k # KeyOf(q) PROVE KeyInv(k)'
  <2>1. KeyInv(k) /\ (entries'[k] = entries[k] \/ entries'[k].status = "none")
    BY <1>6 DEF IInv, NoEntry
  <2>2. ASSUME entries'[k].status = "active"
        PROVE  \E r \in Request : Owns(r)' /\ KeyOf(r)' = k
    <3>1. PICK r \in Request : Owns(r) /\ KeyOf(r) = k
      BY <2>1, <2>2 DEF KeyInv
    <3> QED
      BY <1>2, <1>3, <1>6, <3>1 DEF Owns
  <2> QED
    BY <1>4, <2>1, <2>2 DEF KeyInv
<1>7. ASSUME NEW k \in Key, k = KeyOf(q) PROVE KeyInv(k)'
  BY <1>3, <1>7 DEF KeyInv, Handled
<1> QED
  BY <1>5, <1>6, <1>7 DEF IInv

\* Claim drops expired entries and no others.
LEMMA PurgeDrops ==
    ASSUME entries \in [Key -> Entry], NEW k \in Key
    PROVE  LET table == Purge(WithoutExpired(k)) IN
           /\ table \in [Key -> Entry]
           /\ \A j \in Key : \/ table[j] = entries[j]
                             \/ Expired(entries[j]) /\ table[j] = NoEntry
<1> DEFINE first == WithoutExpired(k)
<1>1. NoEntry \in Entry /\ ~Expired(NoEntry)
  BY DEF NoEntry, Entry, Expired
<1>2. /\ first \in [Key -> Entry]
      /\ \A j \in Key : \/ first[j] = entries[j]
                        \/ Expired(entries[j]) /\ first[j] = NoEntry
  BY <1>1 DEF WithoutExpired
<1> HIDE DEF first
<1>3. /\ Purge(first) \in [Key -> Entry]
      /\ \A j \in Key : \/ Purge(first)[j] = first[j]
                        \/ Expired(first[j]) /\ Purge(first)[j] = NoEntry
  BY <1>1, <1>2 DEF Purge
<1>4. \A j \in Key : \/ Purge(first)[j] = entries[j]
                     \/ Expired(entries[j]) /\ Purge(first)[j] = NoEntry
  BY <1>1, <1>2, <1>3
<1> QED
  BY <1>3, <1>4 DEF first

\* A refused claim leaves nothing behind.
LEMMA ClaimRefusedInv ==
    ASSUME IInv, NEW q \in Request, ClaimRefused(q)
    PROVE  IInv'
<1> DEFINE x == [requests[q] EXCEPT !.pc = "done", !.response = "error"]
<1>1. /\ requests \in [Request -> RequestState] /\ requests[q] \in RequestState
      /\ entries \in [Key -> Entry] /\ KeyOf(q) \in Key /\ RequestInv(q)
      /\ KeyInv(KeyOf(q))
  BY DEF IInv, TypeOK, KeyOf, RequestState
<1>2. requests' = [requests EXCEPT ![q] = x]
  BY <1>1 DEF ClaimRefused, Respond
<1>3. x \in RequestState
  BY <1>1 DEF RequestState
<1>4. /\ x.pc = "done" /\ x.key = requests[q].key /\ x.result = requests[q].result
      /\ x.response = "error"
  BY <1>1 DEF RequestState
<1> HIDE DEF x
<1>5. requests'[q] = x /\ requests' \in [Request -> RequestState]
  BY <1>1, <1>2, <1>3
<1>6. /\ entries' \in [Key -> Entry] /\ now' = now
      /\ \A j \in Key : \/ entries'[j] = entries[j]
                        \/ Expired(entries[j]) /\ entries'[j] = NoEntry
  BY <1>1, PurgeDrops DEF ClaimRefused
<1>7. TypeOK'
  BY <1>5, <1>6 DEF IInv, TypeOK, NoEntry
<1>8. Free(q)
  BY DEF ClaimRefused
<1>9. RequestInv(q)'
  BY <1>1, <1>4, <1>5, <1>8
  DEF RequestInv, Progress, Remembered, Committed, Owns, Free
<1>10. KeyInv(KeyOf(q))'
  <2>1. KeyOf(q)' = KeyOf(q)
    BY <1>4, <1>5 DEF KeyOf
  <2>2. entries'[KeyOf(q)].status # "active"
    BY <1>1, <1>6, <1>8 DEF Free, NoEntry
  <2>3. entries'[KeyOf(q)].status = "accepted" => Handled(KeyOf(q))
    BY <1>1, <1>6 DEF KeyInv, NoEntry
  <2>4. Handled(KeyOf(q)) => Handled(KeyOf(q))'
    <3>1. \A r \in Request : /\ requests'[r].key = requests[r].key
                             /\ requests'[r].result = requests[r].result
      BY <1>1, <1>2, <1>4
    <3> QED
      BY <3>1 DEF Handled, KeyOf
  <2> QED
    BY <2>1, <2>2, <2>3, <2>4 DEF KeyInv
<1> QED
  BY <1>2, <1>3, <1>4, <1>6, <1>7, <1>8, <1>9, <1>10, GuardStepInv

\* A claim makes its request the owner of a free entry.
LEMMA ClaimNewInv ==
    ASSUME IInv, NEW q \in Request, ClaimNew(q)
    PROVE  IInv'
<1> DEFINE x == [requests[q] EXCEPT !.pc = "handling"]
           table == Purge(WithoutExpired(KeyOf(q)))
<1>1. /\ requests \in [Request -> RequestState] /\ requests[q] \in RequestState
      /\ entries \in [Key -> Entry] /\ KeyOf(q) \in Key /\ RequestInv(q)
  BY DEF IInv, TypeOK, KeyOf, RequestState
<1>2. requests' = [requests EXCEPT ![q] = x]
  BY <1>1 DEF ClaimNew, Goto
<1>3. x \in RequestState
  BY <1>1 DEF RequestState
<1>4. /\ x.pc = "handling" /\ x.key = requests[q].key /\ x.result = requests[q].result
      /\ x.response = requests[q].response
  BY <1>1 DEF RequestState
<1> HIDE DEF x
<1>5. requests'[q] = x /\ requests' \in [Request -> RequestState]
  BY <1>1, <1>2, <1>3
<1>6. /\ table \in [Key -> Entry]
      /\ \A j \in Key : \/ table[j] = entries[j]
                        \/ Expired(entries[j]) /\ table[j] = NoEntry
  BY <1>1, PurgeDrops
<1>7. entries' = [table EXCEPT ![KeyOf(q)] = Active(q)] /\ now' = now /\ Free(q)
  BY DEF ClaimNew
<1> HIDE DEF table
<1>8. Active(q) \in Entry
  BY DEF Active, Entry
<1>9. /\ entries' \in [Key -> Entry] /\ entries'[KeyOf(q)] = Active(q)
      /\ \A j \in Key : j # KeyOf(q) =>
             \/ entries'[j] = entries[j]
             \/ Expired(entries[j]) /\ entries'[j] = NoEntry
  BY <1>1, <1>6, <1>7, <1>8
<1>10. TypeOK'
  BY <1>5, <1>7, <1>9 DEF IInv, TypeOK, NoEntry, Active
<1>11. KeyOf(q)' = KeyOf(q) /\ Owns(q)'
  BY <1>4, <1>5 DEF KeyOf, Owns
<1>12. RequestInv(q)'
  BY <1>1, <1>4, <1>5, <1>7, <1>9, <1>11
  DEF RequestInv, Progress, Remembered, Committed, Free, Active
<1>13. KeyInv(KeyOf(q))'
  BY <1>9, <1>11 DEF KeyInv, Active
<1> QED
  BY <1>2, <1>3, <1>4, <1>7, <1>9, <1>10, <1>12, <1>13, GuardStepInv

\* A release takes back the claim of its own request.
LEMMA ReleaseInv ==
    ASSUME IInv, NEW q \in Request, ReleaseFailed(q) \/ ReleasePanicked(q)
    PROVE  IInv'
<1> DEFINE x(a) == [requests[q] EXCEPT !.pc = "done", !.response = a]
<1>1. /\ requests \in [Request -> RequestState] /\ requests[q] \in RequestState
      /\ entries \in [Key -> Entry] /\ KeyOf(q) \in Key /\ RequestInv(q)
  BY DEF IInv, TypeOK, KeyOf, RequestState
<1>2. PICK a \in {"error", "aborted"} : requests' = [requests EXCEPT ![q] = x(a)]
  BY <1>1 DEF ReleaseFailed, ReleasePanicked, Respond
<1>3. x(a) \in RequestState
  BY <1>1 DEF RequestState
<1>4. /\ x(a).pc = "done" /\ x(a).key = requests[q].key
      /\ x(a).result = requests[q].result /\ x(a).response = a
  BY <1>1 DEF RequestState
<1> HIDE DEF x
<1>5. requests'[q] = x(a) /\ requests' \in [Request -> RequestState]
  BY <1>1, <1>2, <1>3
<1>6. Owns(q) /\ entries[KeyOf(q)] = Active(q)
  BY <1>1 DEF ReleaseFailed, ReleasePanicked, Owns, RequestInv
<1>7. entries' = [entries EXCEPT ![KeyOf(q)] = NoEntry] /\ now' = now
  BY <1>6 DEF ReleaseFailed, ReleasePanicked, Released, Active
<1>8. NoEntry \in Entry
  BY DEF NoEntry, Entry
<1>9. /\ entries' \in [Key -> Entry] /\ entries'[KeyOf(q)] = NoEntry
      /\ \A j \in Key : j # KeyOf(q) => entries'[j] = entries[j]
  BY <1>1, <1>7, <1>8
<1>10. TypeOK'
  BY <1>5, <1>7, <1>9 DEF IInv, TypeOK, NoEntry
<1>11. KeyOf(q)' = KeyOf(q) /\ ~Owns(q)'
  BY <1>4, <1>5 DEF KeyOf, Owns
<1>12. RequestInv(q)'
  BY <1>2, <1>4, <1>5, <1>11 DEF RequestInv, Progress, Remembered, Committed
<1>13. KeyInv(KeyOf(q))'
  BY <1>9, <1>11 DEF KeyInv, NoEntry
<1> QED
  BY <1>2, <1>3, <1>4, <1>6, <1>7, <1>9, <1>10, <1>12, <1>13, GuardStepInv

\* A commit finds its own claim, which makes it an accepted entry.
LEMMA CommitInv ==
    ASSUME IInv, NEW q \in Request, Commit(q)
    PROVE  IInv'
<1> DEFINE x == [requests[q] EXCEPT !.pc = "done", !.response = "success"]
<1>1. /\ requests \in [Request -> RequestState] /\ requests[q] \in RequestState
      /\ entries \in [Key -> Entry] /\ KeyOf(q) \in Key /\ RequestInv(q)
  BY DEF IInv, TypeOK, KeyOf, RequestState
<1>2. /\ Owns(q) /\ entries[KeyOf(q)] = Active(q)
      /\ requests[q].result = "ok" /\ requests[q].expiresAt \in Nat
  BY <1>1 DEF Commit, Owns, RequestInv, Progress
<1>3. requests' = [requests EXCEPT ![q] = x]
  <2>1. entries[KeyOf(q)].status = "active"
    BY <1>2 DEF Active
  <2>2. Respond(q, "success")
    BY <2>1 DEF Commit
  <2> QED
    BY <1>1, <2>2 DEF Respond
<1>4. x \in RequestState
  BY <1>1 DEF RequestState
<1>5. /\ x.pc = "done" /\ x.key = requests[q].key /\ x.result = requests[q].result
      /\ x.response = "success" /\ x.expiresAt = requests[q].expiresAt
  BY <1>1 DEF RequestState
<1> HIDE DEF x
<1>6. requests'[q] = x /\ requests' \in [Request -> RequestState]
  BY <1>1, <1>3, <1>4
<1>7. entries' = [entries EXCEPT ![KeyOf(q)] = Accepted(q)] /\ now' = now
  BY <1>2 DEF Commit, Active
<1>8. /\ Accepted(q) \in Entry /\ Accepted(q).status = "accepted"
      /\ Accepted(q).expiresAt = requests[q].expiresAt
  BY <1>2 DEF Accepted, Active, Entry
<1>9. /\ entries' \in [Key -> Entry] /\ entries'[KeyOf(q)] = Accepted(q)
      /\ \A j \in Key : j # KeyOf(q) => entries'[j] = entries[j]
  BY <1>1, <1>7, <1>8
<1>10. TypeOK'
  <2>1. \A k \in Key : entries'[k].expiresAt # NoTime <=> entries'[k].status = "accepted"
    BY <1>2, <1>8, <1>9 DEF IInv, TypeOK, NoTime
  <2> QED
    BY <1>6, <1>7, <1>9, <2>1 DEF IInv, TypeOK
<1>11. KeyOf(q)' = KeyOf(q) /\ ~Owns(q)' /\ Handled(KeyOf(q))'
  BY <1>2, <1>5, <1>6 DEF KeyOf, Owns, Handled
<1>12. RequestInv(q)'
  BY <1>5, <1>6, <1>8, <1>9, <1>11 DEF RequestInv, Progress, Remembered, Committed
<1>13. KeyInv(KeyOf(q))'
  BY <1>8, <1>9, <1>11 DEF KeyInv
<1> QED
  BY <1>2, <1>3, <1>4, <1>5, <1>7, <1>9, <1>10, <1>12, <1>13, GuardStepInv

\* The clock only brings expiries nearer.
LEMMA TickInv ==
    ASSUME IInv, Tick
    PROVE  IInv'
<1>1. now \in Nat /\ now' = now + 1 /\ UNCHANGED << entries, requests >>
  BY DEF IInv, TypeOK, Tick
<1>2. TypeOK'
  BY <1>1 DEF IInv, TypeOK
<1>3. \A k \in Key : KeyInv(k)'
  BY <1>1 DEF IInv, KeyInv, Handled, Owns, KeyOf
<1>4. ASSUME NEW q \in Request PROVE RequestInv(q)'
  <2>1. RequestInv(q) /\ requests[q].expiresAt \in Int
    BY DEF IInv, TypeOK, RequestState, NoTime
  <2>2. Remembered(q)'
    BY <1>1, <2>1 DEF RequestInv, Remembered, Committed, KeyOf
  <2> QED
    BY <1>1, <2>1, <2>2 DEF RequestInv, Progress, Owns, Handled, KeyOf, Active
<1> QED
  BY <1>2, <1>3, <1>4 DEF IInv

-----------------------------------------------------------------------------
(* The guard's bound. *)

UsedKeys(table) == { k \in Key : table[k].status # "none" }

\* With the bound, that the entries are finitely many: Key need not be.
Bounded == IsFiniteSet(UsedKeys(entries)) /\ CapacityRespected

\* A step that leaves fewer keys in use keeps the bound.
LEMMA FewerKeys ==
    ASSUME Bounded, UsedKeys(entries') \subseteq UsedKeys(entries)
    PROVE  Bounded'
<1>1. /\ IsFiniteSet(UsedKeys(entries'))
      /\ Cardinality(UsedKeys(entries')) <= Cardinality(UsedKeys(entries))
  BY FS_Subset DEF Bounded
<1>2. /\ Cardinality(UsedKeys(entries)) \in Nat
      /\ Cardinality(UsedKeys(entries')) \in Nat
  BY <1>1, FS_CardinalityType DEF Bounded
<1>3. /\ Cardinality(UsedKeys(entries)) <= MaxEntries
      /\ Used(entries)' = Cardinality(UsedKeys(entries'))
  BY DEF Bounded, CapacityRespected, Used, UsedKeys
<1>4. CapacityRespected'
  BY <1>1, <1>2, <1>3, ReceiverAssumption DEF CapacityRespected
<1> QED
  BY <1>1, <1>4 DEF Bounded

\* A claim adds one key, to a table that is not full.
LEMMA ClaimNewBounded ==
    ASSUME IInv, Bounded, NEW q \in Request, ClaimNew(q)
    PROVE  Bounded'
<1> DEFINE table == Purge(WithoutExpired(KeyOf(q)))
           S == UsedKeys(table)
           T == S \cup {KeyOf(q)}
<1>1. entries \in [Key -> Entry] /\ KeyOf(q) \in Key
  BY DEF IInv, TypeOK, KeyOf, RequestState
<1>2. /\ table \in [Key -> Entry]
      /\ \A j \in Key : table[j] = entries[j] \/ table[j] = NoEntry
  BY <1>1, PurgeDrops
<1>3. entries' = [table EXCEPT ![KeyOf(q)] = Active(q)] /\ ~Full(table)
  BY DEF ClaimNew
<1> HIDE DEF table
<1>4. S \subseteq UsedKeys(entries)
  BY <1>2 DEF UsedKeys, NoEntry
<1>5. UsedKeys(entries') \subseteq T
  BY <1>1, <1>2, <1>3 DEF UsedKeys
<1>6. ~(Cardinality(S) >= MaxEntries)
  BY <1>3 DEF Full, Used, UsedKeys
<1> HIDE DEF S
<1>7. IsFiniteSet(S) /\ Cardinality(S) \in Nat
  BY <1>4, FS_Subset, FS_CardinalityType DEF Bounded
<1>8. IsFiniteSet(T) /\ Cardinality(T) <= Cardinality(S) + 1 /\ Cardinality(T) \in Nat
  BY <1>7, FS_AddElement, FS_CardinalityType
<1> HIDE DEF T
<1>9. /\ IsFiniteSet(UsedKeys(entries'))
      /\ Cardinality(UsedKeys(entries')) <= Cardinality(T)
      /\ Cardinality(UsedKeys(entries')) \in Nat
  BY <1>5, <1>8, FS_Subset, FS_CardinalityType
<1>10. Cardinality(UsedKeys(entries')) <= MaxEntries
  BY <1>6, <1>7, <1>8, <1>9, ReceiverAssumption
<1>11. CapacityRespected'
  BY <1>10 DEF CapacityRespected, Used, UsedKeys
<1> QED
  BY <1>9, <1>11 DEF Bounded

\* No other step adds a key.
LEMMA StepBounded ==
    ASSUME IInv, Bounded, [Next]_vars
    PROVE  Bounded'
<1>1. entries \in [Key -> Entry] /\ \A q \in Request : KeyOf(q) \in Key /\ RequestInv(q)
  BY DEF IInv, TypeOK, KeyOf, RequestState
<1>2. CASE UNCHANGED entries
  BY <1>2 DEF Bounded, CapacityRespected, Used, UsedKeys
<1>3. ASSUME NEW q \in Request, ClaimNew(q) PROVE Bounded'
  BY <1>3, ClaimNewBounded
<1>4. ASSUME NEW q \in Request, ClaimRefused(q) PROVE Bounded'
  <2>1. \A j \in Key : entries'[j] = entries[j] \/ entries'[j] = NoEntry
    BY <1>1, <1>4, PurgeDrops DEF ClaimRefused
  <2>2. UsedKeys(entries') \subseteq UsedKeys(entries)
    BY <2>1 DEF UsedKeys, NoEntry
  <2> QED
    BY <2>2, FewerKeys
<1>5. ASSUME NEW q \in Request, ReleaseFailed(q) \/ ReleasePanicked(q) PROVE Bounded'
  <2>1. \A j \in Key : entries'[j] = entries[j] \/ entries'[j] = NoEntry
    BY <1>1, <1>5 DEF ReleaseFailed, ReleasePanicked, Released
  <2>2. UsedKeys(entries') \subseteq UsedKeys(entries)
    BY <2>1 DEF UsedKeys, NoEntry
  <2> QED
    BY <2>2, FewerKeys
<1>6. ASSUME NEW q \in Request, Commit(q) PROVE Bounded'
  <2>1. entries[KeyOf(q)] = Active(q)
    BY <1>1, <1>6 DEF Commit, RequestInv, Owns
  <2>2. \A j \in Key : entries'[j] = entries[j] \/ j = KeyOf(q)
    BY <1>1, <1>6 DEF Commit
  <2>3. UsedKeys(entries') \subseteq UsedKeys(entries)
    BY <2>1, <2>2 DEF UsedKeys, Active
  <2> QED
    BY <2>3, FewerKeys
<1>7. ASSUME NEW q \in Request,
             \/ Reject(q) \/ Verify(q) \/ Cancel(q) \/ ClaimDuplicate(q)
             \/ ClaimWait(q) \/ Wake(q) \/ HandlerEnds(q) \/ CommitBegin(q)
      PROVE  Bounded'
  <2>1. UNCHANGED entries
    BY <1>7 DEF Reject, Verify, Cancel, ClaimDuplicate, ClaimWait, Wake, HandlerEnds,
                CommitBegin
  <2> QED
    BY <1>2, <2>1
<1>8. CASE Tick \/ UNCHANGED vars
  BY <1>2, <1>8 DEF Tick, vars
<1> QED
  BY <1>3, <1>4, <1>5, <1>6, <1>7, <1>8 DEF Next, Step

-----------------------------------------------------------------------------
(* The theorems. *)

\* At the start the guard is empty and every request is new.
LEMMA InitInv == Init => IInv /\ Bounded
<1> SUFFICES ASSUME Init PROVE IInv /\ Bounded
  OBVIOUS
<1>1. PICK keyOf \in [Request -> Key] :
        requests = [q \in Request |-> NewRequest(keyOf[q])]
  BY DEF Init
<1>2. \A q \in Request : NewRequest(keyOf[q]) \in RequestState
  BY DEF NewRequest, RequestState
<1>3. requests \in [Request -> RequestState]
  BY <1>1, <1>2
<1>4. NoEntry \in Entry
  BY DEF NoEntry, Entry
<1>5. TypeOK
  BY <1>3, <1>4 DEF Init, TypeOK, NoEntry
<1>6. ASSUME NEW q \in Request PROVE RequestInv(q)
  <2>1. /\ requests[q].pc = "new"
        /\ requests[q].result = "none" /\ requests[q].response = "none"
    BY <1>1 DEF NewRequest
  <2> QED
    BY <2>1 DEF RequestInv, Progress, Owns, Remembered, Committed
<1>7. ASSUME NEW k \in Key PROVE KeyInv(k)
  BY DEF Init, KeyInv, NoEntry
<1>8. UsedKeys(entries) = {}
  BY DEF Init, UsedKeys, NoEntry
<1>9. Bounded
  BY <1>8, FS_EmptySet, ReceiverAssumption DEF Bounded, CapacityRespected, Used, UsedKeys
<1> QED
  BY <1>5, <1>6, <1>7, <1>9 DEF IInv

\* Every step of the requests and the clock keeps the invariant.
LEMMA Invariance == IInv /\ [Next]_vars => IInv'
<1> SUFFICES ASSUME IInv, [Next]_vars PROVE IInv'
  OBVIOUS
<1>1. CASE Tick
  BY <1>1, TickInv
<1>2. ASSUME NEW q \in Request, Reject(q) \/ Verify(q) \/ Cancel(q) PROVE IInv'
  BY <1>2, RejectInv, VerifyInv, CancelInv
<1>3. ASSUME NEW q \in Request, Step(q) PROVE IInv'
  BY <1>3, ClaimDuplicateInv, ClaimWaitInv, ClaimRefusedInv, ClaimNewInv, WakeInv,
     HandlerEndsInv, ReleaseInv, CommitBeginInv, CommitInv
  DEF Step
<1>4. CASE UNCHANGED vars
  BY <1>4 DEF vars, IInv, TypeOK, RequestInv, KeyInv, Progress, Owns, Handled, Remembered,
              Committed, KeyOf, Active
<1> QED
  BY <1>1, <1>2, <1>3, <1>4 DEF Next

\* The invariant and the bound hold in every state.
LEMMA AlwaysInv == Spec => [](IInv /\ Bounded)
<1>1. (IInv /\ Bounded) /\ [Next]_vars => (IInv /\ Bounded)'
  BY Invariance, StepBounded
<1> QED
  BY <1>1, InitInv, PTL DEF Spec

\* Requests and guard entries keep their types; an entry has an expiry exactly
\* when it is accepted.
THEOREM TypeCorrect == Spec => []TypeOK
<1>1. IInv => TypeOK
  BY DEF IInv
<1> QED
  BY <1>1, AlwaysInv, PTL

\* An entry is active exactly while its request is between Claim and Commit or
\* Release (MemoryReplayGuard, Receiver.ServeHTTP).
THEOREM ClaimsAreOwned == Spec => []ClaimOwnership
<1>1. IInv => ClaimOwnership
  BY DEF IInv, RequestInv, KeyInv, ClaimOwnership
<1> QED
  BY <1>1, AlwaysInv, PTL

\* ServeHTTP answers 2xx only after a handler succeeded for the message.
THEOREM SuccessIsHandled == Spec => []SuccessMeansHandled
<1>1. IInv => SuccessMeansHandled
  BY DEF IInv, RequestInv, Handled, SuccessMeansHandled
<1> QED
  BY <1>1, AlwaysInv, PTL

\* The guard never holds more than MaxEntries entries.
THEOREM CapacityKept == Spec => []CapacityRespected
<1>1. Bounded => CapacityRespected
  BY DEF Bounded
<1> QED
  BY <1>1, AlwaysInv, PTL

\* Only ClaimNew starts a handler.
LEMMA StartsByClaim ==
    ASSUME IInv, [Next]_vars, NEW q \in Request,
           requests[q].pc # "handling", requests'[q].pc = "handling"
    PROVE  ClaimNew(q)
<1>1. requests \in [Request -> RequestState]
  BY DEF IInv, TypeOK
<1>2. ASSUME NEW r \in Request, Reject(r) \/ Verify(r) \/ Cancel(r) PROVE ClaimNew(q)
  BY <1>1, <1>2 DEF Reject, Verify, Cancel, Goto, Respond, RequestState
<1>3. ASSUME NEW r \in Request,
             ClaimDuplicate(r) \/ ClaimRefused(r) \/ ClaimWait(r) \/ Wake(r)
      PROVE  ClaimNew(q)
  BY <1>1, <1>3 DEF ClaimDuplicate, ClaimRefused, ClaimWait, Wake, Goto, Respond,
                    RequestState
<1>4. ASSUME NEW r \in Request, HandlerEnds(r) \/ CommitBegin(r) PROVE ClaimNew(q)
  BY <1>1, <1>4 DEF HandlerEnds, CommitBegin, RequestState
<1>5. ASSUME NEW r \in Request, ReleaseFailed(r) \/ ReleasePanicked(r) \/ Commit(r)
      PROVE  ClaimNew(q)
  BY <1>1, <1>5 DEF ReleaseFailed, ReleasePanicked, Commit, Respond, RequestState
<1>6. ASSUME NEW r \in Request, ClaimNew(r) PROVE ClaimNew(q)
  BY <1>1, <1>6 DEF ClaimNew, Goto, RequestState
<1>7. ~(Tick \/ UNCHANGED vars)
  BY DEF Tick, vars
<1> QED
  BY <1>2, <1>3, <1>4, <1>5, <1>6, <1>7 DEF Next, Step

\* No handler starts for a message within the TTL of a committed success of it
\* (MemoryReplayGuard.Claim and Commit).
THEOREM NoReplay == Spec => NoReplayWithinTTL
<1> DEFINE Fresh ==
      \A q, r \in Request :
        /\ requests[q].pc # "handling" /\ requests'[q].pc = "handling"
        /\ KeyOf(r) = KeyOf(q)
        /\ requests[r].result = "ok" /\ requests[r].response = "success"
        => requests[r].expiresAt <= now
<1>1. IInv /\ [Next]_vars => Fresh
  <2> SUFFICES ASSUME IInv, [Next]_vars, NEW q \in Request, NEW r \in Request,
                      requests[q].pc # "handling", requests'[q].pc = "handling",
                      KeyOf(r) = KeyOf(q), Committed(r)
               PROVE  requests[r].expiresAt <= now
    BY DEF Committed
  <2>1. ClaimNew(q)
    BY StartsByClaim
  <2>2. Free(q) /\ requests[q].pc = "claiming"
    BY <2>1 DEF ClaimNew, Free
  <2>3. r # q
    BY <2>2 DEF IInv, RequestInv, Progress, Committed
  <2> QED
    BY <2>2, <2>3, Alone
<1>2. Spec => [][Fresh]_vars
  BY <1>1, AlwaysInv, PTL DEF Spec
<1> QED
  BY <1>2 DEF NoReplayWithinTTL
=============================================================================
