----------------------------- MODULE InboxProofs ------------------------------
(***************************************************************************)
(* Safety of Inbox for every number of messages and sessions, every retry  *)
(* policy, lease, retention and bound: types, that what Handle             *)
(* acknowledged is kept, that a claim which lost its lease writes nothing, *)
(* and that the inbox implements LeasedQueue.                              *)
(***************************************************************************)
EXTENDS Inbox, TLAPS

-----------------------------------------------------------------------------
(* The inductive invariant. *)

RowOK(row) ==
    /\ row \in ReceiptRow
    /\ row.lease_expires_at # NoTime <=> row.state = "processing"
    /\ row.processed_at # NoTime <=> row.state \in Done
    /\ row.state # "absent" => row.gen # 0
    /\ row.state \in {"pending", "retry"} => row.next_attempt_at \in Nat

\* What a session carries from its earlier statements.
SessionOK(t, clock) ==
    /\ t \in Transaction
    /\ t.op # "idle" => t.now \in 0 .. clock
    /\ t.op \in {"inserting", "reading"} => t.message \in Message /\ t.content \in Content
    /\ t.op \in {"row_locked", "renewing", "completing"} => t.message \in Message
    /\ t.op = "row_locked" => t.gen # 0 /\ t.attempt # 0
    /\ t.op = "cleaning" => ReceiptRetention > 0
    /\ t.op = "completing" =>
         t.state \in {"retry"} \cup Done /\ (t.state = "retry" => t.next \in Nat)

\* A row under FOR UPDATE is as its claimer read it, and still due.
RowDue(row, t) ==
    \/ row.state \in {"pending", "retry"} /\ row.next_attempt_at <= t
    \/ row.state = "processing" /\ row.lease_expires_at <= t

LockOK(t, row) ==
    t.op = "row_locked" =>
        /\ t.gen = row.gen
        /\ t.attempt = row.attempt_count + 1
        /\ RowDue(row, t.now)

\* FOR UPDATE ... SKIP LOCKED gives a row to one session.
Exclusive ==
    \A s, q \in Session :
        /\ tx[s].op = "row_locked" /\ tx[q].op = "row_locked"
        /\ tx[s].message = tx[q].message
        => s = q

\* No handle is ahead of the row it was given for.
HandleOK(h, row) ==
    /\ h[2] <= row.gen
    /\ h[2] = row.gen /\ row.state # "absent" => h[3] <= row.attempt_count

Typed ==
    /\ now \in Nat
    /\ receipts \in [Message -> ReceiptRow]
    /\ claims \subseteq Message \X (1 .. MaxGen) \X (1 .. MaxClaims)
    /\ tx \in [Session -> Transaction]
    /\ acked \subseteq Message \X (1 .. MaxGen) \X Content
    /\ finished \subseteq Message \X (1 .. MaxGen)

RowsOK == \A m \in Message : RowOK(receipts[m])

SessionsOK ==
    \A s \in Session : SessionOK(tx[s], now) /\ LockOK(tx[s], receipts[tx[s].message])

HandlesOK == \A h \in claims : HandleOK(h, receipts[h[1]])

\* A receipt that is done has been recorded as such.
DoneIsFinished ==
    \A m \in Message : receipts[m].state \in Done => << m, receipts[m].gen >> \in finished

IInv ==
    /\ Typed
    /\ RowsOK
    /\ SessionsOK
    /\ Exclusive
    /\ HandlesOK
    /\ DoneIsFinished
    /\ AckedIsKept

-----------------------------------------------------------------------------
(* Lemmas about the records. *)

Ops == {"idle", "inserting", "reading", "claiming", "row_locked", "renewing",
        "completing", "cleaning"}

LEMMA OpenType ==
    ASSUME NEW op \in Ops, NEW m \in Message \cup {NoMessage}, NEW t \in Times
    PROVE  /\ Open(op, m, t) \in Transaction
           /\ Open(op, m, t).op = op
           /\ Open(op, m, t).message = m
           /\ Open(op, m, t).now = t
<1>1. 0 \in 0 .. MaxGen /\ 0 \in 0 .. MaxClaims /\ NoTime \in Times
  BY InboxAssumption DEF Times
<1> QED
  BY <1>1 DEF Open, Transaction, Ops

LEMMA IdleType == Idle \in Transaction /\ Idle.op = "idle"
<1>1. NoTime \in Times /\ "idle" \in Ops
  BY DEF Times, Ops
<1> QED
  BY <1>1, OpenType DEF Idle

LEMMA IdleOK == \A n, row : SessionOK(Idle, n) /\ LockOK(Idle, row)
  BY IdleType DEF SessionOK, LockOK

LEMMA AbsentType ==
    ASSUME NEW gen \in 0 .. MaxGen
    PROVE  /\ RowOK(Absent(gen))
           /\ Absent(gen).state = "absent"
           /\ Absent(gen).gen = gen
           /\ Absent(gen).attempt_count = 0
<1>1. 0 \in 0 .. MaxClaims /\ NoTime \in Times
  BY InboxAssumption DEF Times
<1>2. Absent(gen) \in ReceiptRow
  BY <1>1 DEF Absent, ReceiptRow
<1> QED
  BY <1>2 DEF RowOK, Absent, Done

LEMMA NatIsTime == \A t \in Nat : t \in Times /\ t # NoTime
  BY DEF Times, NoTime

\* The row an INSERT writes.
LEMMA ReceivedType ==
    ASSUME NEW gen \in 1 .. MaxGen, NEW c \in Content, NEW t \in Nat
    PROVE  /\ RowOK(Received(gen, c, t))
           /\ Received(gen, c, t).state = "pending"
           /\ Received(gen, c, t).gen = gen
           /\ Received(gen, c, t).content = c
           /\ Received(gen, c, t).attempt_count = 0
           /\ Received(gen, c, t).next_attempt_at = t
<1> DEFINE a == Absent(gen)
           r == [a EXCEPT !.state = "pending", !.content = c, !.next_attempt_at = t,
                          !.received_at = t, !.updated_at = t]
<1>1. a \in ReceiptRow /\ a.gen = gen /\ a.attempt_count = 0
  <2>1. gen \in 0 .. MaxGen
    BY InboxAssumption
  <2> QED
    BY <2>1, AbsentType DEF RowOK
<1>2. a.lease_expires_at = NoTime /\ a.processed_at = NoTime
  BY DEF Absent
<1>3. t \in Times
  BY NatIsTime
<1>4. Received(gen, c, t) = r
  BY DEF Received
<1> HIDE DEF a
<1>5. /\ r \in ReceiptRow /\ r.state = "pending" /\ r.gen = gen /\ r.content = c
      /\ r.attempt_count = 0 /\ r.next_attempt_at = t /\ r.lease_expires_at = NoTime
      /\ r.processed_at = NoTime
  BY <1>1, <1>2, <1>3 DEF ReceiptRow
<1> HIDE DEF r
<1>6. RowOK(r)
  BY <1>5 DEF RowOK, Done
<1> QED
  BY <1>4, <1>5, <1>6

\* The rows that a claim and a renewal write.
Leased(row, n, t) ==
    [row EXCEPT !.state = "processing", !.attempt_count = n,
                !.lease_expires_at = t + Lease, !.updated_at = t]

Extended(row, t) == [row EXCEPT !.lease_expires_at = t + Lease, !.updated_at = t]

LEMMA ClaimedType ==
    ASSUME NEW row, RowOK(row), row.state # "absent", NEW n \in 1 .. MaxClaims,
           NEW t \in Nat, NEW new,
           row.state \notin Done, new = Leased(row, n, t)
    PROVE  /\ RowOK(new)
           /\ new.state = "processing" /\ new.gen = row.gen /\ new.content = row.content
           /\ new.attempt_count = n /\ new.lease_expires_at = t + Lease
<1>1. row \in ReceiptRow /\ row.gen # 0 /\ row.processed_at = NoTime
  BY DEF RowOK
<1> DEFINE until == t + Lease
<1>2. until \in Nat
  BY InboxAssumption
<1>3. until \in Times /\ until # NoTime /\ t \in Times
  BY <1>2, NatIsTime
<1> HIDE DEF until
<1>4. new = [row EXCEPT !.state = "processing", !.attempt_count = n,
                        !.lease_expires_at = until, !.updated_at = t]
  BY DEF until, Leased
<1>5. n \in 0 .. MaxClaims
  BY InboxAssumption
<1>6. /\ new \in ReceiptRow
      /\ new.state = "processing" /\ new.gen = row.gen /\ new.content = row.content
      /\ new.attempt_count = n /\ new.lease_expires_at = until
      /\ new.processed_at = row.processed_at
  BY <1>1, <1>3, <1>4, <1>5 DEF ReceiptRow
<1>7. RowOK(new)
  BY <1>1, <1>3, <1>6 DEF RowOK, Done
<1> QED
  BY <1>6, <1>7 DEF until

LEMMA RenewedType ==
    ASSUME NEW row, RowOK(row), row.state = "processing", NEW t \in Nat, NEW new,
           new = Extended(row, t)
    PROVE  /\ RowOK(new)
           /\ new.state = "processing" /\ new.gen = row.gen /\ new.content = row.content
           /\ new.attempt_count = row.attempt_count /\ new.lease_expires_at = t + Lease
<1>1. row \in ReceiptRow /\ row.gen # 0 /\ row.processed_at = NoTime
  BY DEF RowOK, Done
<1> DEFINE until == t + Lease
<1>2. until \in Nat
  BY InboxAssumption
<1>3. until \in Times /\ until # NoTime /\ t \in Times
  BY <1>2, NatIsTime
<1> HIDE DEF until
<1>4. new = [row EXCEPT !.lease_expires_at = until, !.updated_at = t]
  BY DEF until, Extended
<1>5. /\ new \in ReceiptRow
      /\ new.state = "processing" /\ new.gen = row.gen /\ new.content = row.content
      /\ new.attempt_count = row.attempt_count /\ new.lease_expires_at = until
      /\ new.processed_at = row.processed_at
  BY <1>1, <1>3, <1>4 DEF ReceiptRow
<1>6. RowOK(new)
  BY <1>1, <1>3, <1>5 DEF RowOK, Done
<1> QED
  BY <1>5, <1>6 DEF until

\* The row a completion writes.
LEMMA CompletedType ==
    ASSUME NEW row, RowOK(row), row.state = "processing", NEW t, SessionOK(t, now),
           t.op = "completing", NEW new, new = Completed(row, t), now \in Nat
    PROVE  /\ RowOK(new)
           /\ new.state = t.state /\ new.gen = row.gen /\ new.content = row.content
           /\ new.attempt_count = row.attempt_count
           /\ t.state = "retry" => new.next_attempt_at = t.next
           /\ t.state \in Done => new.processed_at = t.now
<1>1. /\ row \in ReceiptRow /\ row.gen # 0
      /\ t.state \in {"retry"} \cup Done /\ (t.state = "retry" => t.next \in Nat)
      /\ t \in Transaction /\ t.now \in Nat
  BY DEF RowOK, SessionOK
<1> DEFINE next == IF t.next # NoTime THEN t.next ELSE row.next_attempt_at
           at == IF t.state \in Done THEN t.now ELSE NoTime
<1>2. next \in Times /\ at \in Times /\ NoTime \in Times /\ t.now \in Times
  BY <1>1 DEF Transaction, ReceiptRow, Times
<1>3. /\ t.state = "retry" => next = t.next /\ next \in Nat
      /\ t.state \in Done => at = t.now
      /\ at # NoTime <=> t.state \in Done
  BY <1>1, NatIsTime
<1>4. new = [row EXCEPT !.state = t.state, !.next_attempt_at = next,
                        !.lease_expires_at = NoTime, !.processed_at = at,
                        !.updated_at = t.now]
  BY <1>1 DEF Completed, ReceiptRow
<1> HIDE DEF next, at
<1>5. /\ new \in ReceiptRow
      /\ new.state = t.state /\ new.gen = row.gen /\ new.content = row.content
      /\ new.attempt_count = row.attempt_count /\ new.lease_expires_at = NoTime
      /\ new.next_attempt_at = next /\ new.processed_at = at
  BY <1>1, <1>2, <1>4 DEF ReceiptRow
<1>6. RowOK(new)
  BY <1>1, <1>3, <1>5 DEF RowOK, Done
<1> QED
  BY <1>1, <1>3, <1>5, <1>6

-----------------------------------------------------------------------------
(* One session, or one session and one row, change. *)

\* Only session s changes, to x, and Handle may have acknowledged.
LEMMA SessionStep ==
    ASSUME IInv, NEW s \in Session, NEW x, SessionOK(x, now),
           LockOK(x, receipts[x.message]),
           x.op = "row_locked" => \A q \in Session :
               q # s => ~(tx[q].op = "row_locked" /\ tx[q].message = x.message),
           tx' = [tx EXCEPT ![s] = x],
           UNCHANGED << now, receipts, claims, finished >>,
           acked' \subseteq Message \X (1 .. MaxGen) \X Content,
           AckedIsKept'
    PROVE  IInv'
<1>1. x \in Transaction /\ tx \in [Session -> Transaction]
  BY DEF SessionOK, IInv, Typed
<1>2. /\ tx' \in [Session -> Transaction] /\ tx'[s] = x
      /\ \A q \in Session : q # s => tx'[q] = tx[q]
  BY <1>1
<1>3. Typed'
  BY <1>2 DEF IInv, Typed
<1>4. SessionsOK'
  <2>1. ASSUME NEW q \in Session
        PROVE  SessionOK(tx'[q], now') /\ LockOK(tx'[q], receipts'[tx'[q].message])
    BY <1>2 DEF IInv, SessionsOK
  <2> QED
    BY <2>1 DEF SessionsOK
<1>5. Exclusive'
  BY <1>2 DEF IInv, Exclusive
<1>6. RowsOK' /\ HandlesOK' /\ DoneIsFinished'
  BY DEF IInv, RowsOK, HandlesOK, DoneIsFinished
<1> QED
  BY <1>3, <1>4, <1>5, <1>6 DEF IInv

\* Session s ends with the commit of one row.
LEMMA RowStep ==
    ASSUME IInv, NEW s \in Session, NEW m \in Message, NEW row, RowOK(row),
           receipts' = [receipts EXCEPT ![m] = row], End(s), now' = now,
           \A q \in Session : q # s => ~(tx[q].op = "row_locked" /\ tx[q].message = m),
           claims' \subseteq Message \X (1 .. MaxGen) \X (1 .. MaxClaims),
           \A h \in claims' : IF h[1] = m THEN HandleOK(h, row) ELSE h \in claims,
           finished \subseteq finished', finished' \subseteq Message \X (1 .. MaxGen),
           row.state \in Done => << m, row.gen >> \in finished',
           acked' \subseteq Message \X (1 .. MaxGen) \X Content,
           AckedIsKept'
    PROVE  IInv'
<1>1. /\ row \in ReceiptRow /\ receipts \in [Message -> ReceiptRow]
      /\ tx \in [Session -> Transaction] /\ Idle \in Transaction /\ Idle.op = "idle"
  BY IdleType DEF RowOK, IInv, Typed
<1>2. /\ receipts' \in [Message -> ReceiptRow] /\ receipts'[m] = row
      /\ \A o \in Message : o # m => receipts'[o] = receipts[o]
  BY <1>1
<1>3. /\ tx' \in [Session -> Transaction] /\ tx'[s] = Idle
      /\ \A q \in Session : q # s => tx'[q] = tx[q]
  BY <1>1 DEF End
<1>4. Typed'
  BY <1>2, <1>3 DEF IInv, Typed
<1>5. RowsOK'
  BY <1>2 DEF IInv, RowsOK, RowOK
<1>6. SessionsOK'
  <2>1. ASSUME NEW q \in Session
        PROVE  SessionOK(tx'[q], now')
    BY <1>3, IdleOK DEF IInv, SessionsOK
  <2>2. ASSUME NEW q \in Session
        PROVE  LockOK(tx'[q], receipts'[tx'[q].message])
    <3>1. CASE q = s
      BY <3>1, <1>3, IdleOK
    <3>2. CASE q # s /\ tx[q].op = "row_locked"
      <4>1. tx'[q] = tx[q] /\ tx[q].message # m /\ tx[q].message \in Message
        BY <3>2, <1>3 DEF IInv, SessionsOK, SessionOK
      <4>2. receipts'[tx[q].message] = receipts[tx[q].message]
        BY <4>1, <1>2
      <4> QED
        BY <4>1, <4>2 DEF IInv, SessionsOK
    <3>3. CASE q # s /\ tx[q].op # "row_locked"
      BY <3>3, <1>3 DEF LockOK
    <3> QED
      BY <3>1, <3>2, <3>3
  <2> QED
    BY <2>1, <2>2 DEF SessionsOK
<1>7. Exclusive'
  BY <1>1, <1>3 DEF IInv, Exclusive
<1>8. HandlesOK'
  <2>1. ASSUME NEW h \in claims'
        PROVE  HandleOK(h, receipts'[h[1]])
    <3>1. h[1] \in Message
      OBVIOUS
    <3>2. CASE h[1] = m
      BY <3>2, <1>2
    <3>3. CASE h[1] # m
      BY <3>1, <3>3, <1>2 DEF IInv, HandlesOK
    <3> QED
      BY <3>2, <3>3
  <2> QED
    BY <2>1 DEF HandlesOK, HandleOK
<1>9. DoneIsFinished'
  BY <1>2 DEF IInv, DoneIsFinished
<1> QED
  BY <1>4, <1>5, <1>6, <1>7, <1>8, <1>9 DEF IInv

\* Writing the row of a receipt that stays, with its content, loses nothing.
LEMMA AckedStays ==
    ASSUME IInv, NEW m \in Message, NEW row,
           receipts' = [receipts EXCEPT ![m] = row],
           row.state # "absent", row.gen = receipts[m].gen,
           row.content = receipts[m].content,
           acked' = acked, finished \subseteq finished'
    PROVE  AckedIsKept'
<1>1. receipts'[m] = row /\ \A o \in Message : o # m => receipts'[o] = receipts[o]
  BY DEF IInv, Typed
<1> QED
  BY <1>1 DEF IInv, AckedIsKept

LEMMA AckedSame ==
    ASSUME IInv, UNCHANGED << receipts, acked, finished >>
    PROVE  AckedIsKept' /\ acked' \subseteq Message \X (1 .. MaxGen) \X Content
  BY DEF IInv, AckedIsKept, Typed

-----------------------------------------------------------------------------
(* One lemma per action. *)

\* What a session's record says of it.
LEMMA SessionIs ==
    ASSUME IInv, NEW s \in Session
    PROVE  /\ SessionOK(tx[s], now) /\ LockOK(tx[s], receipts[tx[s].message])
           /\ tx[s] \in Transaction
           /\ now \in Nat
           /\ tx[s].op # "idle" => tx[s].now \in Nat /\ tx[s].now <= now
           /\ tx \in [Session -> Transaction]
  BY DEF IInv, Typed, SessionsOK, SessionOK

\* The session ends without a commit.
LEMMA EndInv ==
    ASSUME IInv, NEW s \in Session, End(s), UNCHANGED << now, receipts, claims, acked, finished >>
    PROVE  IInv'
  BY IdleOK, IdleType, AckedSame, SessionStep DEF End

LEMMA HandleBeginInv ==
    ASSUME IInv, NEW s \in Session, NEW m \in Message, NEW c \in Content,
           HandleBegin(s, m, c)
    PROVE  IInv'
<1> DEFINE o == Open("inserting", m, now)
           x == [o EXCEPT !.content = c]
<1>1. now \in Nat
  BY SessionIs
<1>2. o \in Transaction /\ o.op = "inserting" /\ o.message = m /\ o.now = now
  BY <1>1, OpenType, NatIsTime DEF Ops
<1>3. tx' = [tx EXCEPT ![s] = x] /\ UNCHANGED << now, receipts, claims, acked, finished >>
  BY DEF HandleBegin
<1> HIDE DEF o
<1>4. /\ x \in Transaction /\ x.op = "inserting" /\ x.message = m /\ x.now = now
      /\ x.content = c
  BY <1>2 DEF Transaction
<1> HIDE DEF x
<1>5. SessionOK(x, now) /\ LockOK(x, receipts[x.message])
  BY <1>1, <1>4 DEF SessionOK, LockOK
<1> QED
  BY <1>3, <1>4, <1>5, AckedSame, SessionStep

LEMMA HandleInsertInv ==
    ASSUME IInv, NEW s \in Session, HandleInsert(s)
    PROVE  IInv'
<1> DEFINE m == tx[s].message
           gen == receipts[m].gen + 1
           c == tx[s].content
           row == Received(gen, c, tx[s].now)
<1>1. /\ tx[s].op = "inserting" /\ receipts[m].state = "absent" /\ gen <= MaxGen
      /\ receipts' = [receipts EXCEPT ![m] = row]
      /\ acked' = acked \cup {<< m, gen, c >>}
      /\ End(s) /\ UNCHANGED << now, claims, finished >>
  BY DEF HandleInsert
<1>2. m \in Message /\ c \in Content /\ tx[s].now \in Nat
  BY <1>1, SessionIs DEF SessionOK
<1>3. receipts[m] \in ReceiptRow
  BY <1>2 DEF IInv, Typed
<1>4. gen \in 1 .. MaxGen /\ receipts[m].gen \in Nat
  BY <1>1, <1>3, InboxAssumption DEF ReceiptRow
<1>5. /\ RowOK(row) /\ row.state = "pending" /\ row.gen = gen /\ row.content = c
  BY <1>2, <1>4, ReceivedType
<1> HIDE DEF row
<1>6. \A q \in Session : ~(tx[q].op = "row_locked" /\ tx[q].message = m)
  BY <1>1 DEF IInv, SessionsOK, LockOK, RowDue
<1>7. claims' \subseteq Message \X (1 .. MaxGen) \X (1 .. MaxClaims)
  BY <1>1 DEF IInv, Typed
<1>8. ASSUME NEW h \in claims'
      PROVE  IF h[1] = m THEN HandleOK(h, row) ELSE h \in claims
  <2>1. h \in claims /\ HandleOK(h, receipts[h[1]])
    BY <1>1 DEF IInv, HandlesOK
  <2>2. h[2] \in Nat
    BY <1>7
  <2>3. CASE h[1] = m
    <3>1. h[2] <= receipts[m].gen
      BY <2>1, <2>3 DEF HandleOK
    <3>2. h[2] < gen
      BY <3>1, <2>2, <1>4
    <3> QED
      BY <3>2, <2>2, <2>3, <1>4, <1>5 DEF HandleOK
  <2> QED
    BY <2>1, <2>3
<1>9. /\ finished \subseteq finished' /\ finished' \subseteq Message \X (1 .. MaxGen)
      /\ row.state \notin Done
  BY <1>1, <1>5 DEF IInv, Typed, Done
<1>10. acked' \subseteq Message \X (1 .. MaxGen) \X Content
  BY <1>1, <1>2, <1>4 DEF IInv, Typed
<1>11. AckedIsKept'
  <2>1. receipts'[m] = row /\ \A o \in Message : o # m => receipts'[o] = receipts[o]
    BY <1>1, <1>2 DEF IInv, Typed
  <2>2. ASSUME NEW o \in Message, NEW g \in 1 .. MaxGen, NEW d \in Content,
               << o, g, d >> \in acked'
        PROVE  \/ << o, g >> \in finished'
               \/ /\ receipts'[o].state # "absent"
                  /\ receipts'[o].gen = g
                  /\ receipts'[o].content = d
    <3>1. CASE << o, g, d >> \in acked
      BY <3>1, <2>1, <1>1 DEF IInv, AckedIsKept
    <3>2. CASE << o, g, d >> = << m, gen, c >>
      BY <3>2, <2>1, <1>5
    <3> QED
      BY <3>1, <3>2, <2>2, <1>1
  <2> QED
    BY <2>2 DEF AckedIsKept
<1>12. now' = now
  BY <1>1
<1> HIDE DEF m, gen, c
<1> QED
  BY <1>1, <1>2, <1>5, <1>6, <1>7, <1>8, <1>9, <1>10, <1>11, <1>12, RowStep

LEMMA HandleConflictInv ==
    ASSUME IInv, NEW s \in Session, HandleConflict(s)
    PROVE  IInv'
<1> DEFINE t == tx[s]
           x == [t EXCEPT !.op = "reading"]
<1>1. t.op = "inserting" /\ UNCHANGED << now, receipts, claims, acked, finished >>
  BY DEF HandleConflict
<1>2. t \in Transaction /\ SessionOK(t, now) /\ tx \in [Session -> Transaction]
  BY SessionIs
<1>3. tx' = [tx EXCEPT ![s] = x]
  BY <1>2 DEF HandleConflict
<1>4. /\ x \in Transaction /\ x.op = "reading" /\ x.message = t.message
      /\ x.content = t.content /\ x.now = t.now
  BY <1>2 DEF Transaction
<1> HIDE DEF x
<1>5. SessionOK(x, now) /\ LockOK(x, receipts[x.message])
  BY <1>1, <1>2, <1>4 DEF SessionOK, LockOK
<1> QED
  BY <1>1, <1>3, <1>4, <1>5, AckedSame, SessionStep

LEMMA HandleReadInv ==
    ASSUME IInv, NEW s \in Session, HandleRead(s)
    PROVE  IInv'
<1> DEFINE m == tx[s].message
           row == receipts[m]
           c == tx[s].content
<1>1. /\ tx[s].op = "reading" /\ End(s) /\ UNCHANGED << now, receipts, claims, finished >>
      /\ acked' = IF SameContent(row, c) THEN acked \cup {<< m, row.gen, c >>} ELSE acked
  BY DEF HandleRead
<1>2. m \in Message /\ c \in Content
  BY <1>1, SessionIs DEF SessionOK
<1>3. row \in ReceiptRow /\ RowOK(row)
  BY <1>2 DEF IInv, Typed, RowsOK
<1>4. CASE ~SameContent(row, c)
  BY <1>1, <1>4, EndInv
<1>5. CASE SameContent(row, c)
  <2>1. row.state # "absent" /\ row.content = c /\ row.gen \in 1 .. MaxGen
    BY <1>3, <1>5, InboxAssumption DEF SameContent, RowOK, ReceiptRow
  <2>2. acked' = acked \cup {<< m, row.gen, c >>}
    BY <1>1, <1>5
  <2>3. acked' \subseteq Message \X (1 .. MaxGen) \X Content
    BY <1>2, <2>1, <2>2 DEF IInv, Typed
  <2>4. AckedIsKept'
    <3>1. ASSUME NEW o \in Message, NEW g \in 1 .. MaxGen, NEW d \in Content,
                 << o, g, d >> \in acked'
          PROVE  \/ << o, g >> \in finished'
                 \/ /\ receipts'[o].state # "absent"
                    /\ receipts'[o].gen = g
                    /\ receipts'[o].content = d
      <4>1. CASE << o, g, d >> \in acked
        BY <4>1, <1>1 DEF IInv, AckedIsKept
      <4>2. CASE << o, g, d >> = << m, row.gen, c >>
        BY <4>2, <2>1, <1>1
      <4> QED
        BY <4>1, <4>2, <3>1, <2>2
    <3> QED
      BY <3>1 DEF AckedIsKept
  <2>5. tx' = [tx EXCEPT ![s] = Idle]
    BY <1>1 DEF End
  <2> QED
    BY <1>1, <2>3, <2>4, <2>5, IdleOK, IdleType, SessionStep
<1> QED
  BY <1>4, <1>5

LEMMA BeginInv ==
    ASSUME IInv, NEW s \in Session, ClaimBegin(s) \/ CleanupBegin(s)
    PROVE  IInv'
<1>1. now \in Nat
  BY SessionIs
<1>2. PICK op \in {"claiming", "cleaning"} :
        /\ tx' = [tx EXCEPT ![s] = Open(op, NoMessage, now)]
        /\ op = "cleaning" => ReceiptRetention > 0
  BY DEF ClaimBegin, CleanupBegin
<1> DEFINE x == Open(op, NoMessage, now)
<1>3. x \in Transaction /\ x.op = op /\ x.now = now
  <2>1. op \in Ops /\ now \in Times
    BY <1>1, NatIsTime DEF Ops
  <2> QED
    BY <2>1, OpenType
<1> HIDE DEF x
<1>4. SessionOK(x, now) /\ LockOK(x, receipts[x.message]) /\ x.op # "row_locked"
  BY <1>1, <1>2, <1>3 DEF SessionOK, LockOK
<1>5. UNCHANGED << now, receipts, claims, acked, finished >>
  BY DEF ClaimBegin, CleanupBegin
<1> QED
  BY <1>2, <1>4, <1>5, AckedSame, SessionStep DEF x

LEMMA ClaimSelectInv ==
    ASSUME IInv, NEW s \in Session, ClaimSelect(s)
    PROVE  IInv'
<1>1. PICK m \in Candidates(tx[s].now) :
        tx' = [tx EXCEPT ![s].op = "row_locked", ![s].message = m,
                         ![s].gen = receipts[m].gen,
                         ![s].attempt = receipts[m].attempt_count + 1]
  BY DEF ClaimSelect
<1> DEFINE t == tx[s]
           g == receipts[m].gen
           n == receipts[m].attempt_count + 1
           x == [t EXCEPT !.op = "row_locked", !.message = m, !.gen = g, !.attempt = n]
<1>2. /\ t \in Transaction /\ t.now \in Nat /\ t.now <= now /\ t.now \in 0 .. now
      /\ tx \in [Session -> Transaction]
  BY SessionIs DEF ClaimSelect
<1>3. /\ m \in Message /\ Due(m, t.now) /\ ~RowLocked(m)
      /\ receipts[m].attempt_count < MaxClaims
  BY DEF Candidates
<1>4. receipts[m] \in ReceiptRow /\ RowOK(receipts[m])
  BY <1>3 DEF IInv, Typed, RowsOK
<1>5. RowDue(receipts[m], t.now) /\ receipts[m].state # "absent"
  BY <1>3 DEF Due, RowDue
<1>6. g \in 0 .. MaxGen /\ g # 0 /\ n \in 0 .. MaxClaims /\ n # 0
  BY <1>3, <1>4, <1>5, InboxAssumption DEF RowOK, ReceiptRow
<1>7. tx' = [tx EXCEPT ![s] = x]
  BY <1>1, <1>2
<1> HIDE DEF g, n
<1>8. /\ x \in Transaction /\ x.op = "row_locked" /\ x.message = m /\ x.gen = g
      /\ x.attempt = n /\ x.now = t.now
  BY <1>2, <1>3, <1>6 DEF Transaction
<1> HIDE DEF x
<1>9. SessionOK(x, now)
  BY <1>2, <1>3, <1>6, <1>8 DEF SessionOK
<1>10. LockOK(x, receipts[x.message])
  BY <1>5, <1>8 DEF LockOK, g, n
<1>11. \A q \in Session : ~(tx[q].op = "row_locked" /\ tx[q].message = x.message)
  BY <1>3, <1>8 DEF RowLocked
<1>12. UNCHANGED << now, receipts, claims, acked, finished >>
  BY DEF ClaimSelect
<1> QED
  BY <1>7, <1>9, <1>10, <1>11, <1>12, AckedSame, SessionStep

\* What holds when ClaimReceipt commits: the row is as it was read.
LEMMA ClaimHolds ==
    ASSUME IInv, NEW s \in Session, ClaimCommit(s), NEW m, m = tx[s].message
    PROVE  /\ m \in Message /\ RowOK(receipts[m]) /\ RowDue(receipts[m], tx[s].now)
           /\ receipts[m].state \notin Done /\ receipts[m].state # "absent"
           /\ tx[s].gen = receipts[m].gen /\ tx[s].gen \in 1 .. MaxGen
           /\ tx[s].attempt = receipts[m].attempt_count + 1
           /\ tx[s].attempt \in 1 .. MaxClaims
           /\ tx[s].now \in Nat /\ tx[s].now <= now /\ now \in Nat
           /\ receipts' = [receipts EXCEPT ![m] =
                Leased(receipts[m], tx[s].attempt, tx[s].now)]
<1>1. tx[s].op = "row_locked"
  BY DEF ClaimCommit
<1>2. /\ m \in Message /\ tx[s].gen \in 1 .. MaxGen /\ tx[s].attempt \in 1 .. MaxClaims
      /\ tx[s].now \in Nat /\ tx[s].now <= now /\ now \in Nat
  <2>1. /\ m \in Message /\ tx[s].gen # 0 /\ tx[s].attempt # 0 /\ tx[s] \in Transaction
        /\ tx[s].now \in Nat /\ tx[s].now <= now /\ now \in Nat
    BY <1>1, SessionIs DEF SessionOK
  <2> QED
    BY <2>1, InboxAssumption DEF Transaction
<1>3. RowOK(receipts[m]) /\ receipts \in [Message -> ReceiptRow]
  BY <1>2 DEF IInv, RowsOK, Typed
<1>4. /\ RowDue(receipts[m], tx[s].now) /\ tx[s].gen = receipts[m].gen
      /\ tx[s].attempt = receipts[m].attempt_count + 1
  BY <1>1, SessionIs DEF LockOK
<1>5. receipts[m].state \notin Done /\ receipts[m].state # "absent"
  BY <1>4 DEF RowDue, Done
<1>6. receipts' = [receipts EXCEPT ![m] =
                Leased(receipts[m], tx[s].attempt, tx[s].now)]
  BY <1>2, <1>3 DEF ClaimCommit, Leased
<1> QED
  BY <1>2, <1>3, <1>4, <1>5, <1>6

LEMMA ClaimCommitInv ==
    ASSUME IInv, NEW s \in Session, ClaimCommit(s)
    PROVE  IInv'
<1> DEFINE m == tx[s].message
           old == receipts[m]
           n == tx[s].attempt
           t == tx[s].now
           row == Leased(old, n, t)
<1>1. /\ m \in Message /\ RowOK(old) /\ old.state \notin Done /\ old.state # "absent"
      /\ tx[s].gen = old.gen /\ tx[s].gen \in 1 .. MaxGen
      /\ n = old.attempt_count + 1 /\ n \in 1 .. MaxClaims /\ t \in Nat
      /\ receipts' = [receipts EXCEPT ![m] = row]
  BY ClaimHolds
<1>2. /\ claims' = claims \cup {<< m, tx[s].gen, n >>} /\ End(s)
      /\ UNCHANGED << now, acked, finished >> /\ tx[s].op = "row_locked"
  BY DEF ClaimCommit
<1>3. /\ RowOK(row) /\ row.state = "processing" /\ row.gen = old.gen
      /\ row.content = old.content /\ row.attempt_count = n
  BY <1>1, ClaimedType
<1>4. old \in ReceiptRow /\ old.gen \in Nat /\ old.attempt_count \in Nat
  BY <1>1 DEF RowOK, ReceiptRow
<1> HIDE DEF row
<1>5. \A q \in Session : q # s => ~(tx[q].op = "row_locked" /\ tx[q].message = m)
  BY <1>2 DEF IInv, Exclusive
<1>6. claims' \subseteq Message \X (1 .. MaxGen) \X (1 .. MaxClaims)
  BY <1>1, <1>2 DEF IInv, Typed
<1>7. ASSUME NEW h \in claims'
      PROVE  IF h[1] = m THEN HandleOK(h, row) ELSE h \in claims
  <2>1. h[2] \in Nat /\ h[3] \in Nat
    BY <1>6
  <2>2. CASE h = << m, tx[s].gen, n >>
    BY <2>2, <1>1, <1>3, <1>4 DEF HandleOK
  <2>3. CASE h \in claims /\ h[1] = m
    <3>1. HandleOK(h, old)
      BY <2>3 DEF IInv, HandlesOK
    <3> QED
      BY <3>1, <2>1, <2>3, <1>1, <1>3, <1>4 DEF HandleOK
  <2> QED
    BY <2>2, <2>3, <1>2
<1>8. /\ finished \subseteq finished' /\ finished' \subseteq Message \X (1 .. MaxGen)
      /\ row.state \notin Done /\ acked' \subseteq Message \X (1 .. MaxGen) \X Content
  BY <1>2, <1>3 DEF IInv, Typed, Done
<1>9. AckedIsKept'
  <2>1. row.state # "absent" /\ acked' = acked
    BY <1>2, <1>3
  <2> QED
    BY <1>1, <1>3, <1>8, <2>1, AckedStays
<1>10. now' = now
  BY <1>2
<1> HIDE DEF m
<1> QED
  BY <1>1, <1>2, <1>3, <1>5, <1>6, <1>7, <1>8, <1>9, <1>10, RowStep

\* A worker's call starts from a handle it was given.
LEMMA UsingType ==
    ASSUME IInv, NEW op \in {"renewing", "completing"}, NEW h \in claims
    PROVE  /\ Using(op, h) \in Transaction
           /\ Using(op, h).op = op /\ Using(op, h).message = h[1]
           /\ Using(op, h).now = now /\ h[1] \in Message /\ now \in Nat
<1> DEFINE o == Open(op, h[1], now)
<1>1. /\ h[1] \in Message /\ h[2] \in 0 .. MaxGen /\ h[3] \in 0 .. MaxClaims
      /\ now \in Nat
  BY InboxAssumption DEF IInv, Typed
<1>2. o \in Transaction /\ o.op = op /\ o.message = h[1] /\ o.now = now
  <2>1. op \in Ops /\ now \in Times
    BY <1>1, NatIsTime DEF Ops
  <2> QED
    BY <1>1, <2>1, OpenType
<1> DEFINE x == [o EXCEPT !.gen = h[2], !.attempt = h[3]]
<1>3. Using(op, h) = x
  BY DEF Using
<1> HIDE DEF o
<1>4. x \in Transaction /\ x.op = op /\ x.message = h[1] /\ x.now = now
  BY <1>1, <1>2 DEF Transaction
<1> QED
  BY <1>1, <1>3, <1>4

LEMMA RenewBeginInv ==
    ASSUME IInv, NEW s \in Session, NEW h \in claims, RenewBegin(s, h)
    PROVE  IInv'
<1> DEFINE x == Using("renewing", h)
<1>1. x \in Transaction /\ x.op = "renewing" /\ x.message \in Message /\ x.now = now
      /\ now \in Nat
  BY UsingType
<1>2. tx' = [tx EXCEPT ![s] = x] /\ UNCHANGED << now, receipts, claims, acked, finished >>
  BY DEF RenewBegin
<1> HIDE DEF x
<1>3. SessionOK(x, now) /\ LockOK(x, receipts[x.message])
  BY <1>1 DEF SessionOK, LockOK
<1> QED
  BY <1>1, <1>2, <1>3, AckedSame, SessionStep

\* A statement that may write a row waits until the row is not locked.
LEMMA RenewExecInv ==
    ASSUME IInv, NEW s \in Session, RenewExec(s)
    PROVE  IInv'
<1> DEFINE m == tx[s].message
           old == receipts[m]
           t == tx[s].now
           row == Extended(old, t)
<1>1. /\ tx[s].op = "renewing" /\ ~RowLocked(m) /\ receipts' = Renewed(s) /\ End(s)
      /\ UNCHANGED << now, claims, acked, finished >>
  BY DEF RenewExec
<1>2. m \in Message /\ t \in Nat
  BY <1>1, SessionIs DEF SessionOK
<1>3. RowOK(old) /\ receipts \in [Message -> ReceiptRow] /\ old \in ReceiptRow
  BY <1>2 DEF IInv, RowsOK, Typed
<1>4. CASE Current(s) /\ old.lease_expires_at > t
  <2>1. receipts' = [receipts EXCEPT ![m] = row]
    BY <1>1, <1>2, <1>3, <1>4 DEF Renewed, Extended
  <2>2. old.state = "processing"
    BY <1>4 DEF Current
  <2>3. /\ RowOK(row) /\ row.state = "processing" /\ row.gen = old.gen
        /\ row.content = old.content /\ row.attempt_count = old.attempt_count
    BY <1>2, <1>3, <2>2, RenewedType
  <2> HIDE DEF row
  <2>4. \A q \in Session : ~(tx[q].op = "row_locked" /\ tx[q].message = m)
    BY <1>1 DEF RowLocked
  <2>5. claims' \subseteq Message \X (1 .. MaxGen) \X (1 .. MaxClaims)
    BY <1>1 DEF IInv, Typed
  <2>6. ASSUME NEW h \in claims'
        PROVE  IF h[1] = m THEN HandleOK(h, row) ELSE h \in claims
    <3>1. h \in claims /\ HandleOK(h, receipts[h[1]])
      BY <1>1 DEF IInv, HandlesOK
    <3> QED
      BY <3>1, <2>2, <2>3 DEF HandleOK
  <2>7. /\ finished \subseteq finished' /\ finished' \subseteq Message \X (1 .. MaxGen)
        /\ row.state \notin Done /\ acked' \subseteq Message \X (1 .. MaxGen) \X Content
    BY <1>1, <2>3 DEF IInv, Typed, Done
  <2>8. AckedIsKept'
    <3>1. row.state # "absent" /\ acked' = acked
      BY <1>1, <2>3
    <3> QED
      BY <1>2, <2>1, <2>3, <2>7, <3>1, AckedStays
  <2>9. now' = now
    BY <1>1
  <2> HIDE DEF m
  <2> QED
    BY <1>1, <1>2, <2>1, <2>3, <2>4, <2>5, <2>6, <2>7, <2>8, <2>9, RowStep
<1>5. CASE ~(Current(s) /\ old.lease_expires_at > t)
  <2>1. receipts' = receipts
    BY <1>1, <1>5 DEF Renewed
  <2> QED
    BY <1>1, <2>1, EndInv
<1> QED
  BY <1>4, <1>5

LEMMA NextTimesNat ==
    ASSUME NEW t \in Nat, NEW n, RetryAllowed(n), NEW next \in NextTimes(t, n)
    PROVE  next \in Nat
<1>1. Delay(n) \in Nat
  BY RetryAssumption DEF RetryAllowed
<1>2. (Delay(n) \div 5) \in Nat
  BY <1>1
<1>3. PICK jitter \in 0 .. (Delay(n) \div 5) : next = t + Delay(n) + jitter
  BY DEF NextTimes
<1> QED
  BY <1>1, <1>2, <1>3

\* receiptTransition returns a terminal state, or retry with a time.
LEMMA TransitionType ==
    ASSUME NEW t \in Nat, NEW n, NEW code, NEW tr \in ReceiptTransitions(t, n, code)
    PROVE  /\ tr.state \in {"retry"} \cup Done
           /\ tr.next \in Times
           /\ tr.state = "retry" => tr.next \in Nat
<1>1. \/ tr = [state |-> "processed", next |-> NoTime]
      \/ tr = [state |-> "failed", next |-> NoTime]
      \/ tr = [state |-> "exhausted", next |-> NoTime]
      \/ RetryAllowed(n) /\ \E next \in NextTimes(t, n) : tr = [state |-> "retry", next |-> next]
  BY Zenon DEF ReceiptTransitions
<1>2. ASSUME RetryAllowed(n), NEW next \in NextTimes(t, n),
             tr = [state |-> "retry", next |-> next]
      PROVE  tr.state = "retry" /\ tr.next \in Nat /\ tr.next \in Times
  BY <1>2, NextTimesNat, NatIsTime
<1>3. ASSUME NEW state \in Done, tr = [state |-> state, next |-> NoTime]
      PROVE  tr.state \in Done /\ tr.state # "retry" /\ tr.next \in Times
  BY <1>3 DEF Done, Times
<1>4. "processed" \in Done /\ "failed" \in Done /\ "exhausted" \in Done
  BY DEF Done
<1> QED
  BY <1>1, <1>2, <1>3, <1>4

LEMMA CompleteBeginInv ==
    ASSUME IInv, NEW s \in Session, NEW h \in claims, CompleteBegin(s, h)
    PROVE  IInv'
<1>1. PICK code \in HandlerErrors \cup {"nil"} :
        \E tr \in ReceiptTransitions(now, h[3], code) :
          tx' = [tx EXCEPT ![s] = [Using("completing", h) EXCEPT
                                     !.state = tr.state, !.next = tr.next]]
  BY DEF CompleteBegin
<1>2. PICK tr \in ReceiptTransitions(now, h[3], code) :
        tx' = [tx EXCEPT ![s] = [Using("completing", h) EXCEPT
                                   !.state = tr.state, !.next = tr.next]]
  BY <1>1
<1> DEFINE u == Using("completing", h)
           state == tr.state
           next == tr.next
           x == [u EXCEPT !.state = state, !.next = next]
<1>3. /\ u \in Transaction /\ u.op = "completing" /\ u.message \in Message
      /\ u.now = now /\ now \in Nat
  BY UsingType
<1>4. /\ state \in {"retry"} \cup Done /\ next \in Times
      /\ state = "retry" => next \in Nat
  BY <1>3, TransitionType
<1>5. tx' = [tx EXCEPT ![s] = x] /\ UNCHANGED << now, receipts, claims, acked, finished >>
  BY <1>2 DEF CompleteBegin
<1> HIDE DEF u, state, next
<1>6. /\ x \in Transaction /\ x.op = "completing" /\ x.message = u.message
      /\ x.now = now /\ x.state = state /\ x.next = next
  BY <1>3, <1>4 DEF Transaction, Done
<1> HIDE DEF x
<1>7. SessionOK(x, now) /\ LockOK(x, receipts[x.message])
  BY <1>3, <1>4, <1>6 DEF SessionOK, LockOK
<1> QED
  BY <1>5, <1>6, <1>7, AckedSame, SessionStep

LEMMA CompleteExecInv ==
    ASSUME IInv, NEW s \in Session, CompleteExec(s)
    PROVE  IInv'
<1> DEFINE m == tx[s].message
           old == receipts[m]
           row == Completed(old, tx[s])
<1>1. /\ tx[s].op = "completing" /\ ~RowLocked(m) /\ End(s)
      /\ UNCHANGED << now, claims, acked >>
  BY DEF CompleteExec
<1>2. m \in Message /\ SessionOK(tx[s], now) /\ now \in Nat
  BY <1>1, SessionIs DEF SessionOK
<1>3. RowOK(old) /\ receipts \in [Message -> ReceiptRow] /\ old \in ReceiptRow
  BY <1>2 DEF IInv, RowsOK, Typed
<1>4. CASE Current(s)
  <2>1. /\ receipts' = [receipts EXCEPT ![m] = row]
        /\ finished' = IF tx[s].state \in Done THEN finished \cup {<< m, old.gen >>}
                       ELSE finished
    BY <1>3, <1>4 DEF CompleteExec
  <2>2. old.state = "processing" /\ old.gen \in 1 .. MaxGen
    BY <1>3, <1>4, InboxAssumption DEF Current, RowOK, ReceiptRow
  <2>3. /\ RowOK(row) /\ row.state = tx[s].state /\ row.gen = old.gen
        /\ row.content = old.content /\ row.attempt_count = old.attempt_count
    BY <1>1, <1>2, <1>3, <2>2, CompletedType
  <2> HIDE DEF row
  <2>4. row.state # "absent"
    BY <1>1, <1>2, <2>3 DEF SessionOK, Done
  <2>5. \A q \in Session : ~(tx[q].op = "row_locked" /\ tx[q].message = m)
    BY <1>1 DEF RowLocked
  <2>6. claims' \subseteq Message \X (1 .. MaxGen) \X (1 .. MaxClaims)
    BY <1>1 DEF IInv, Typed
  <2>7. ASSUME NEW h \in claims'
        PROVE  IF h[1] = m THEN HandleOK(h, row) ELSE h \in claims
    <3>1. h \in claims /\ HandleOK(h, receipts[h[1]])
      BY <1>1 DEF IInv, HandlesOK
    <3> QED
      BY <3>1, <2>2, <2>3 DEF HandleOK
  <2>8. /\ finished \subseteq finished' /\ finished' \subseteq Message \X (1 .. MaxGen)
        /\ row.state \in Done => << m, row.gen >> \in finished'
        /\ acked' \subseteq Message \X (1 .. MaxGen) \X Content
    BY <1>1, <1>2, <2>1, <2>2, <2>3 DEF IInv, Typed
  <2>9. AckedIsKept' /\ now' = now
    <3>1. acked' = acked /\ now' = now
      BY <1>1
    <3> QED
      BY <1>2, <2>1, <2>3, <2>4, <2>8, <3>1, AckedStays
  <2> HIDE DEF m
  <2> QED
    BY <1>1, <1>2, <2>1, <2>3, <2>5, <2>6, <2>7, <2>8, <2>9, RowStep
<1>5. CASE ~Current(s)
  <2>1. UNCHANGED << receipts, finished >>
    BY <1>5 DEF CompleteExec
  <2> QED
    BY <1>1, <2>1, EndInv
<1> QED
  BY <1>4, <1>5

\* What Cleanup removes: receipts that are done.
LEMMA CleanupHolds ==
    ASSUME IInv, NEW s \in Session, CleanupCommit(s)
    PROVE  \E removed \in SUBSET Message :
             /\ \A m \in removed : /\ receipts[m].state \in Done
                                   /\ receipts[m].processed_at < tx[s].now - ReceiptRetention
             /\ receipts' = [m \in Message |->
                  IF m \in removed THEN Absent(receipts[m].gen) ELSE receipts[m]]
  BY DEF CleanupCommit, Batches, ExpiredReceipts

LEMMA CleanupCommitInv ==
    ASSUME IInv, NEW s \in Session, CleanupCommit(s)
    PROVE  IInv'
<1>1. PICK removed \in SUBSET Message :
             /\ \A m \in removed : receipts[m].state \in Done
             /\ receipts' = [m \in Message |->
                  IF m \in removed THEN Absent(receipts[m].gen) ELSE receipts[m]]
  BY CleanupHolds
<1>2. End(s) /\ UNCHANGED << now, claims, acked, finished >>
  BY DEF CleanupCommit
<1>3. receipts \in [Message -> ReceiptRow] /\ tx \in [Session -> Transaction]
  BY DEF IInv, Typed
<1>4. ASSUME NEW m \in removed
      PROVE  /\ RowOK(receipts'[m]) /\ receipts'[m].state = "absent"
             /\ receipts'[m].gen = receipts[m].gen
  <2>1. receipts[m].gen \in 0 .. MaxGen
    BY <1>3 DEF ReceiptRow
  <2>2. receipts'[m] = Absent(receipts[m].gen)
    BY <1>1
  <2> QED
    BY <2>1, <2>2, AbsentType
<1>5. \A m \in Message : m \notin removed => receipts'[m] = receipts[m]
  BY <1>1
<1>6. \A m \in Message : RowOK(receipts'[m])
  BY <1>4, <1>5 DEF IInv, RowsOK
<1>7. receipts' \in [Message -> ReceiptRow]
  <2>1. \A m \in Message : receipts'[m] \in ReceiptRow
    BY <1>6 DEF RowOK
  <2>2. receipts' = [m \in Message |-> receipts'[m]]
    BY <1>1
  <2> QED
    BY <2>1, <2>2
<1>8. /\ tx' \in [Session -> Transaction] /\ tx'[s] = Idle
      /\ \A q \in Session : q # s => tx'[q] = tx[q]
  BY <1>2, <1>3, IdleType DEF End
<1>9. Typed'
  BY <1>2, <1>7, <1>8 DEF IInv, Typed
<1>10. RowsOK'
  BY <1>6 DEF RowsOK, RowOK
<1>11. SessionsOK'
  <2>1. ASSUME NEW q \in Session
        PROVE  SessionOK(tx'[q], now') /\ LockOK(tx'[q], receipts'[tx'[q].message])
    <3>1. CASE q = s
      BY <3>1, <1>8, IdleOK
    <3>2. CASE q # s
      <4>1. SessionOK(tx[q], now) /\ LockOK(tx[q], receipts[tx[q].message]) /\ tx'[q] = tx[q]
        BY <3>2, <1>8, SessionIs
      <4>2. CASE tx[q].op = "row_locked"
        <5>1. tx[q].message \in Message /\ tx[q].message \notin removed
          BY <4>1, <4>2, <1>1 DEF SessionOK, LockOK, RowDue, Done
        <5> QED
          BY <5>1, <4>1, <1>2, <1>5
      <4>3. CASE tx[q].op # "row_locked"
        BY <4>1, <4>3, <1>2 DEF LockOK
      <4> QED
        BY <4>2, <4>3
    <3> QED
      BY <3>1, <3>2
  <2> QED
    BY <2>1 DEF SessionsOK
<1>12. Exclusive'
  BY <1>8, IdleType DEF IInv, Exclusive
<1>13. HandlesOK'
  <2>1. ASSUME NEW h \in claims
        PROVE  HandleOK(h, receipts'[h[1]])
    <3>1. HandleOK(h, receipts[h[1]]) /\ h[1] \in Message
      BY DEF IInv, HandlesOK, Typed
    <3> QED
      BY <3>1, <1>4, <1>5 DEF HandleOK
  <2> QED
    BY <2>1, <1>2 DEF HandlesOK, HandleOK
<1>14. DoneIsFinished'
  <2>1. "absent" \notin Done
    BY DEF Done
  <2> QED
    BY <2>1, <1>2, <1>4, <1>5 DEF IInv, DoneIsFinished
<1>15. AckedIsKept'
  <2>1. ASSUME NEW m \in Message, NEW g \in 1 .. MaxGen, NEW c \in Content,
               << m, g, c >> \in acked
        PROVE  \/ << m, g >> \in finished
               \/ /\ receipts'[m].state # "absent"
                  /\ receipts'[m].gen = g
                  /\ receipts'[m].content = c
    BY <2>1, <1>1, <1>5 DEF IInv, AckedIsKept, DoneIsFinished
  <2> QED
    BY <2>1, <1>2 DEF AckedIsKept
<1> QED
  BY <1>9, <1>10, <1>11, <1>12, <1>13, <1>14, <1>15 DEF IInv

LEMMA TickInv == IInv /\ Tick => IInv'
<1> SUFFICES ASSUME IInv, Tick
             PROVE  IInv'
  OBVIOUS
<1>1. now \in Nat /\ now' = now + 1 /\ UNCHANGED << receipts, claims, tx, acked, finished >>
  BY DEF IInv, Typed, Tick
<1>2. SessionsOK'
  <2>1. ASSUME NEW s \in Session
        PROVE  SessionOK(tx[s], now')
    <3>1. SessionOK(tx[s], now)
      BY DEF IInv, SessionsOK
    <3>2. \A t \in 0 .. now : t \in 0 .. now'
      BY <1>1
    <3> QED
      BY <3>1, <3>2 DEF SessionOK
  <2> QED
    BY <2>1, <1>1 DEF IInv, SessionsOK
<1> QED
  BY <1>1, <1>2 DEF IInv, Typed, RowsOK, RowOK, Exclusive, HandlesOK, DoneIsFinished,
                    AckedIsKept

LEMMA InitInv == Init => IInv
<1> SUFFICES ASSUME Init
             PROVE  IInv
  OBVIOUS
<1> DEFINE row == Absent(0)
<1>1. RowOK(row) /\ row.state = "absent"
  <2>1. 0 \in 0 .. MaxGen
    BY InboxAssumption
  <2> QED
    BY <2>1, AbsentType
<1>2. receipts = [m \in Message |-> row]
  BY DEF Init
<1> HIDE DEF row
<1>3. Typed
  BY <1>1, <1>2, IdleType DEF Init, Typed, RowOK
<1>4. RowsOK /\ HandlesOK /\ DoneIsFinished /\ AckedIsKept
  BY <1>1, <1>2 DEF Init, RowsOK, HandlesOK, DoneIsFinished, Done, AckedIsKept
<1>5. SessionsOK /\ Exclusive
  BY IdleOK, IdleType DEF Init, SessionsOK, Exclusive
<1> QED
  BY <1>3, <1>4, <1>5 DEF IInv

LEMMA NextInv == IInv /\ [Next]_vars => IInv'
<1> SUFFICES ASSUME IInv, [Next]_vars
             PROVE  IInv'
  OBVIOUS
<1>1. CASE UNCHANGED vars
  BY <1>1 DEF vars, IInv, Typed, RowsOK, SessionsOK, Exclusive, HandlesOK,
              DoneIsFinished, AckedIsKept
<1>2. CASE Tick
  BY <1>2, TickInv
<1>3. ASSUME NEW s \in Session, NEW m \in Message, NEW c \in Content, HandleBegin(s, m, c)
      PROVE  IInv'
  BY <1>3, HandleBeginInv
<1>4. ASSUME NEW s \in Session, NEW h \in claims, RenewBegin(s, h) \/ CompleteBegin(s, h)
      PROVE  IInv'
  BY <1>4, RenewBeginInv, CompleteBeginInv
<1>5. ASSUME NEW s \in Session, HandleInsert(s) \/ HandleConflict(s) \/ HandleRead(s)
      PROVE  IInv'
  BY <1>5, HandleInsertInv, HandleConflictInv, HandleReadInv
<1>6. ASSUME NEW s \in Session, ClaimBegin(s) \/ ClaimSelect(s) \/ ClaimCommit(s)
      PROVE  IInv'
  BY <1>6, BeginInv, ClaimSelectInv, ClaimCommitInv
<1>7. ASSUME NEW s \in Session, RenewExec(s) \/ CompleteExec(s)
      PROVE  IInv'
  BY <1>7, RenewExecInv, CompleteExecInv
<1>8. ASSUME NEW s \in Session, CleanupBegin(s) \/ CleanupCommit(s)
      PROVE  IInv'
  BY <1>8, BeginInv, CleanupCommitInv
<1>9. ASSUME NEW s \in Session, ClaimNothing(s) \/ Abort(s)
      PROVE  IInv'
  BY <1>9, EndInv DEF ClaimNothing, Abort
<1> QED
  BY <1>1, <1>2, <1>3, <1>4, <1>5, <1>6, <1>7, <1>8, <1>9 DEF Next

\* The inductive invariant of the receipts, the sessions and the handles.
THEOREM Invariance == Spec => []IInv
<1>1. Init => IInv
  BY InitInv
<1>2. IInv /\ [Next]_vars => IInv'
  BY NextInv
<1> QED
  BY <1>1, <1>2, PTL DEF Spec

\* A receipt has a lease exactly while it is processing and a processing time
\* exactly when it is done.
THEOREM TypeCorrect == Spec => []TypeOK
<1>1. IInv => TypeOK
  BY DEF IInv, Typed, RowsOK, RowOK, TypeOK
<1> QED
  BY <1>1, Invariance, PTL

\* What Handle acknowledged is kept with its content until it is done.
THEOREM AckedKept == Spec => []AckedIsKept
<1>1. IInv => AckedIsKept
  BY DEF IInv
<1> QED
  BY <1>1, Invariance, PTL

-----------------------------------------------------------------------------
(* A claim that is not the latest writes nothing. *)

\* Only its own statement both ends a renewal or completion and writes a row.
LEMMA OwnStatement ==
    ASSUME IInv, [Next]_vars, NEW s \in Session,
           tx[s].op \in {"renewing", "completing"}, tx'[s].op = "idle",
           receipts' # receipts
    PROVE  RenewExec(s) \/ CompleteExec(s)
<1>1. ASSUME NEW q \in Session, End(q), q # s
      PROVE  FALSE
  <2>1. tx'[s] = tx[s]
    BY <1>1, SessionIs, IdleType DEF End
  <2> QED
    BY <2>1
<1>2. \E q \in Session : \/ HandleInsert(q) \/ ClaimCommit(q) \/ RenewExec(q)
                         \/ CompleteExec(q) \/ CleanupCommit(q)
  BY DEF Next, vars, Tick, HandleBegin, HandleConflict, HandleRead, ClaimBegin,
         ClaimSelect, ClaimNothing, RenewBegin, CompleteBegin, CleanupBegin, Abort
<1>3. PICK q \in Session : \/ HandleInsert(q) \/ ClaimCommit(q) \/ RenewExec(q)
                           \/ CompleteExec(q) \/ CleanupCommit(q)
  BY <1>2
<1>4. End(q)
  BY <1>3 DEF HandleInsert, ClaimCommit, RenewExec, CompleteExec, CleanupCommit
<1>5. q = s
  BY <1>1, <1>4
<1> QED
  BY <1>3, <1>5 DEF HandleInsert, ClaimCommit, CleanupCommit

LEMMA StaleStep ==
    ASSUME IInv, [Next]_vars, NEW s \in Session,
           tx[s].op \in {"renewing", "completing"}, tx'[s].op = "idle",
           receipts' # receipts, receipts[tx[s].message].gen = tx[s].gen,
           NEW h \in claims, h[1] = tx[s].message, h[2] = tx[s].gen
    PROVE  h[3] <= tx[s].attempt
<1>1. RenewExec(s) \/ CompleteExec(s)
  BY OwnStatement
<1>2. Current(s)
  BY <1>1 DEF RenewExec, Renewed, CompleteExec
<1>3. HandleOK(h, receipts[h[1]])
  BY DEF IInv, HandlesOK
<1> QED
  BY <1>2, <1>3 DEF Current, HandleOK

\* RenewReceiptLease and CompleteReceipt write to the receipt they claimed
\* only while theirs is the latest claim of it.
THEOREM StaleRefused == Spec => StaleClaimIsRefused
<1>1. IInv /\ [Next]_vars =>
        [\A s \in Session :
           /\ tx[s].op \in {"renewing", "completing"}
           /\ tx'[s].op = "idle"
           /\ receipts' # receipts
           /\ receipts[tx[s].message].gen = tx[s].gen
           => \A h \in claims :
                h[1] = tx[s].message /\ h[2] = tx[s].gen => h[3] <= tx[s].attempt]_vars
  BY StaleStep
<1> QED
  BY <1>1, Invariance, PTL DEF Spec, StaleClaimIsRefused

-----------------------------------------------------------------------------
(* The inbox implements LeasedQueue. *)

\* The item a row stands for, by the row's state.
LEMMA ItemOfRow ==
    ASSUME NEW row \in ReceiptRow
    PROVE  /\ row.state = "absent" => QueueItem(row) =
                [status |-> "absent", claim |-> row.attempt_count, until |-> 0]
           /\ row.state \in {"pending", "retry"} => QueueItem(row) =
                [status |-> "waiting", claim |-> row.attempt_count,
                 until |-> row.next_attempt_at]
           /\ row.state = "processing" => QueueItem(row) =
                [status |-> "leased", claim |-> row.attempt_count,
                 until |-> row.lease_expires_at]
           /\ row.state \in Done => QueueItem(row) =
                IF ReceiptRetention = 0
                THEN [status |-> "archived", claim |-> row.attempt_count, until |-> 0]
                ELSE [status |-> "done", claim |-> row.attempt_count,
                      until |-> row.processed_at + ReceiptRetention]
  BY DEF QueueItem, Done

\* A step that writes one row, without a clock step, changes one item.
LEMMA OneItem ==
    ASSUME IInv, NEW m \in Message, NEW row,
           receipts' = [receipts EXCEPT ![m] = row], now' = now,
           NEW status, NEW claim, NEW until,
           QueueItem(row) = [status |-> status, claim |-> claim, until |-> until]
    PROVE  Queue!Becomes(m, status, claim, until)
<1>1. receipts'[m] = row /\ \A o \in Message : o # m => receipts'[o] = receipts[o]
  BY DEF IInv, Typed
<1> DEFINE item == [status |-> status, claim |-> claim, until |-> until]
           Q == [o \in Message |-> QueueItem(receipts[o])]
           R == [o \in Message |-> QueueItem(receipts'[o])]
<1>2. R = [Q EXCEPT ![m] = item]
  <2>1. \A o \in Message : Q[o] = QueueItem(receipts[o])
    OBVIOUS
  <2>2. \A o \in Message : R[o] = IF o = m THEN item ELSE Q[o]
    BY <1>1, <2>1
  <2>3. R = [o \in Message |-> R[o]] /\ Q = [o \in Message |-> Q[o]]
    OBVIOUS
  <2> HIDE DEF Q, R, item
  <2> QED
    BY <2>2, <2>3
<1> QED
  BY <1>2 DEF Queue!Becomes

LEMMA ItemAt ==
    ASSUME NEW m \in Message
    PROVE  /\ [o \in Message |-> QueueItem(receipts[o])][m] = QueueItem(receipts[m])
           /\ [o \in Message |-> QueueItem(receipts'[o])][m] = QueueItem(receipts'[m])
  OBVIOUS

LEMMA AbsentItem ==
    ASSUME NEW gen \in 0 .. MaxGen
    PROVE  QueueItem(Absent(gen)) = Queue!Absent
<1>1. /\ Absent(gen) \in ReceiptRow /\ Absent(gen).state = "absent"
      /\ Absent(gen).attempt_count = 0
  BY AbsentType DEF RowOK
<1> DEFINE row == Absent(gen)
<1> HIDE DEF row
<1>2. row \in ReceiptRow /\ row.state = "absent" /\ row.attempt_count = 0
  BY <1>1 DEF row
<1>3. QueueItem(row) = Queue!Absent
  BY <1>2, ItemOfRow DEF Queue!Absent
<1> QED
  BY <1>3 DEF row

\* The empty table is the empty queue.
LEMMA InitRefines == Init => Queue!Init
<1> SUFFICES ASSUME Init PROVE Queue!Init
  OBVIOUS
<1> DEFINE row == Absent(0)
<1>1. QueueItem(row) = Queue!Absent
  <2>1. 0 \in 0 .. MaxGen
    BY InboxAssumption
  <2> QED
    BY <2>1, AbsentItem
<1>2. \A m \in Message : receipts[m] = row
  BY DEF Init
<1> HIDE DEF row
<1>3. [m \in Message |-> QueueItem(receipts[m])] = [m \in Message |-> Queue!Absent]
  BY <1>1, <1>2
<1> QED
  BY <1>3 DEF Init, Queue!Init

\* Handle's INSERT adds an item that is due at once.
LEMMA InsertRefines ==
    ASSUME IInv, NEW s \in Session, HandleInsert(s)
    PROVE  \E m \in Message : Queue!Add(m)
<1> DEFINE m == tx[s].message
           gen == receipts[m].gen + 1
           t == tx[s].now
           row == Received(gen, tx[s].content, t)
<1>1. /\ tx[s].op = "inserting" /\ receipts[m].state = "absent" /\ gen <= MaxGen
      /\ receipts' = [receipts EXCEPT ![m] = row] /\ now' = now
  BY DEF HandleInsert
<1>2. /\ m \in Message /\ tx[s].content \in Content /\ t \in Nat /\ t <= now
      /\ now \in Nat
  BY <1>1, SessionIs DEF SessionOK
<1>3. receipts[m] \in ReceiptRow
  BY <1>2 DEF IInv, Typed
<1>4. gen \in 1 .. MaxGen
  BY <1>1, <1>3, InboxAssumption DEF ReceiptRow
<1>5. /\ row \in ReceiptRow /\ row.state = "pending" /\ row.attempt_count = 0
      /\ row.next_attempt_at = t
  BY <1>2, <1>4, ReceivedType DEF RowOK
<1> HIDE DEF row
<1>6. QueueItem(row) = [status |-> "waiting", claim |-> 0, until |-> t]
  BY <1>5, ItemOfRow
<1>7. Queue!Becomes(m, "waiting", 0, t)
  BY <1>1, <1>2, <1>6, OneItem
<1>8. QueueItem(receipts[m]).status = "absent"
  BY <1>1, <1>3, ItemOfRow
<1>9. t \in 0 .. now
  BY <1>2
<1> QED
  BY <1>2, <1>7, <1>8, <1>9, ItemAt DEF Queue!Add

\* ClaimReceipt commits a claim on an item that was due when it read the
\* clock, whatever has happened since.
LEMMA ClaimRefines ==
    ASSUME IInv, NEW s \in Session, ClaimCommit(s)
    PROVE  \E m \in Message : Queue!Claim(m)
<1> DEFINE m == tx[s].message
           t == tx[s].now
           row == receipts[m]
           n == tx[s].attempt
           new == Leased(row, n, t)
<1>1. /\ m \in Message /\ RowOK(row) /\ RowDue(row, t)
      /\ row.state \notin Done /\ row.state # "absent"
      /\ n = row.attempt_count + 1 /\ n \in 1 .. MaxClaims
      /\ t \in Nat /\ t <= now /\ now \in Nat
      /\ receipts' = [receipts EXCEPT ![m] = new]
  BY ClaimHolds
<1>2. /\ RowOK(new) /\ new.state = "processing" /\ new.attempt_count = n
      /\ new.lease_expires_at = t + Lease
  BY <1>1, ClaimedType
<1>3. row \in ReceiptRow /\ new \in ReceiptRow /\ now' = now
  BY <1>1, <1>2 DEF RowOK, ClaimCommit
<1> HIDE DEF new
<1>4. QueueItem(new) = [status |-> "leased", claim |-> row.attempt_count + 1,
                        until |-> t + Lease]
  BY <1>1, <1>2, <1>3, ItemOfRow
<1>5. Queue!Becomes(m, "leased", row.attempt_count + 1, t + Lease)
  BY <1>1, <1>3, <1>4, OneItem
<1>6. /\ QueueItem(row).status \in {"waiting", "leased"}
      /\ QueueItem(row).claim = row.attempt_count
      /\ QueueItem(row).until <= t /\ QueueItem(row).until \in Int
  <2>1. row.next_attempt_at \in Int /\ row.lease_expires_at \in Int
    BY <1>3 DEF ReceiptRow, Times, NoTime
  <2>2. CASE row.state \in {"pending", "retry"}
    <3>1. row.next_attempt_at <= t
      BY <1>1, <2>2 DEF RowDue
    <3> QED
      BY <1>3, <2>1, <2>2, <3>1, ItemOfRow
  <2>3. CASE row.state = "processing"
    <3>1. row.lease_expires_at <= t
      BY <1>1, <2>3 DEF RowDue
    <3> QED
      BY <1>3, <2>1, <2>3, <3>1, ItemOfRow
  <2> QED
    BY <1>1, <2>2, <2>3 DEF RowDue
<1>7. t \in QueueItem(row).until .. now
  BY <1>1, <1>6
<1> QED
  BY <1>1, <1>5, <1>6, <1>7, ItemAt DEF Queue!Claim

\* RenewReceiptLease renews a live claim or changes nothing.
LEMMA RenewRefines ==
    ASSUME IInv, NEW s \in Session, RenewExec(s)
    PROVE  \/ \E m \in Message : Queue!Renew(m)
           \/ UNCHANGED << now, receipts >>
<1> DEFINE m == tx[s].message
           t == tx[s].now
           row == receipts[m]
           new == Extended(row, t)
<1>1. /\ tx[s].op = "renewing" /\ receipts' = Renewed(s) /\ now' = now
  BY DEF RenewExec
<1>2. m \in Message /\ t \in Nat /\ t <= now /\ now \in Nat
  BY <1>1, SessionIs DEF SessionOK
<1>3. RowOK(row) /\ row \in ReceiptRow /\ receipts \in [Message -> ReceiptRow]
  BY <1>2 DEF IInv, RowsOK, Typed
<1>4. CASE Current(s) /\ row.lease_expires_at > t
  <2>1. receipts' = [receipts EXCEPT ![m] = new]
    BY <1>1, <1>2, <1>3, <1>4 DEF Renewed, Extended
  <2>2. row.state = "processing"
    BY <1>4 DEF Current
  <2>3. /\ RowOK(new) /\ new.state = "processing"
        /\ new.attempt_count = row.attempt_count /\ new.lease_expires_at = t + Lease
    BY <1>2, <1>3, <2>2, RenewedType
  <2> HIDE DEF new
  <2>4. QueueItem(new) = [status |-> "leased", claim |-> row.attempt_count,
                          until |-> t + Lease]
    BY <2>3, ItemOfRow DEF RowOK
  <2>5. Queue!Becomes(m, "leased", row.attempt_count, t + Lease)
    BY <1>1, <1>2, <2>1, <2>4, OneItem
  <2>6. /\ QueueItem(row).status = "leased"
        /\ QueueItem(row).claim = row.attempt_count
        /\ QueueItem(row).until = row.lease_expires_at
    BY <1>3, <2>2, ItemOfRow
  <2>7. t < QueueItem(row).until
    <3>1. row.lease_expires_at \in Int
      BY <1>3 DEF ReceiptRow, Times, NoTime
    <3> QED
      BY <3>1, <2>6, <1>2, <1>4
  <2>8. t \in 0 .. now
    BY <1>2
  <2> QED
    BY <1>2, <2>5, <2>6, <2>7, <2>8, ItemAt DEF Queue!Renew
<1>5. CASE ~(Current(s) /\ row.lease_expires_at > t)
  BY <1>1, <1>5 DEF Renewed
<1> QED
  BY <1>4, <1>5

\* CompleteReceipt ends the claim that is still the last one, or does nothing.
LEMMA CompleteRefines ==
    ASSUME IInv, NEW s \in Session, CompleteExec(s)
    PROVE  \/ \E m \in Message : Queue!End(m)
           \/ UNCHANGED << now, receipts >>
<1> DEFINE m == tx[s].message
           row == receipts[m]
           new == Completed(row, tx[s])
<1>1. tx[s].op = "completing" /\ now' = now
  BY DEF CompleteExec
<1>2. m \in Message /\ SessionOK(tx[s], now) /\ now \in Nat /\ tx[s].now \in Nat
  BY <1>1, SessionIs DEF SessionOK
<1>3. RowOK(row) /\ row \in ReceiptRow /\ receipts \in [Message -> ReceiptRow]
  BY <1>2 DEF IInv, RowsOK, Typed
<1>4. CASE Current(s)
  <2>1. receipts' = [receipts EXCEPT ![m] = new]
    BY <1>3, <1>4 DEF CompleteExec
  <2>2. row.state = "processing"
    BY <1>4 DEF Current
  <2>3. /\ RowOK(new) /\ new.state = tx[s].state
        /\ new.attempt_count = row.attempt_count
        /\ tx[s].state = "retry" => new.next_attempt_at = tx[s].next
        /\ tx[s].state \in Done => new.processed_at = tx[s].now
    BY <1>1, <1>2, <1>3, <2>2, CompletedType
  <2>4. /\ tx[s].state \in {"retry"} \cup Done
        /\ tx[s].state = "retry" => tx[s].next \in Nat
    BY <1>1, <1>2 DEF SessionOK
  <2>5. new \in ReceiptRow
    BY <2>3 DEF RowOK
  <2> HIDE DEF new
  <2>6. ASSUME NEW status \in {"waiting", "done", "archived"}, NEW until \in Int,
               until >= 0,
               QueueItem(new) = [status |-> status, claim |-> row.attempt_count,
                                 until |-> until]
        PROVE  Queue!End(m)
    <3>1. Queue!Becomes(m, status, row.attempt_count, until)
      BY <1>1, <1>2, <2>1, <2>6, OneItem
    <3>2. receipts'[m] = new
      BY <1>2, <1>3, <2>1
    <3>3. QueueItem(receipts'[m]).until = until
      BY <2>6, <3>2
    <3>4. QueueItem(row).status = "leased" /\ QueueItem(row).claim = row.attempt_count
      BY <1>3, <2>2, ItemOfRow
    <3> QED
      BY <1>2, <2>6, <3>1, <3>3, <3>4, ItemAt DEF Queue!End
  <2>7. CASE tx[s].state = "retry"
    <3>1. new.next_attempt_at \in Nat /\ new.state = "retry"
      BY <2>3, <2>4, <2>7
    <3>2. QueueItem(new) = [status |-> "waiting", claim |-> row.attempt_count,
                            until |-> new.next_attempt_at]
      BY <2>3, <2>5, <3>1, ItemOfRow
    <3> QED
      BY <1>2, <2>6, <3>1, <3>2
  <2>8. CASE tx[s].state \in Done
    <3>1. new.processed_at \in Nat /\ new.state \in Done /\ ReceiptRetention \in Nat
      BY <1>2, <2>3, <2>8, InboxAssumption
    <3>2. CASE ReceiptRetention = 0
      <4>1. QueueItem(new) = [status |-> "archived", claim |-> row.attempt_count,
                              until |-> 0]
        BY <2>3, <2>5, <3>1, <3>2, ItemOfRow
      <4> QED
        BY <1>2, <2>6, <4>1
    <3>3. CASE ReceiptRetention # 0
      <4>1. QueueItem(new) = [status |-> "done", claim |-> row.attempt_count,
                              until |-> new.processed_at + ReceiptRetention]
        BY <2>3, <2>5, <3>1, <3>3, ItemOfRow
      <4>2. /\ new.processed_at + ReceiptRetention \in Int
            /\ new.processed_at + ReceiptRetention >= 0
        BY <3>1
      <4> QED
        BY <1>2, <2>6, <4>1, <4>2
    <3> QED
      BY <3>2, <3>3
  <2> QED
    BY <1>2, <2>4, <2>7, <2>8
<1>5. CASE ~Current(s)
  BY <1>1, <1>5 DEF CompleteExec
<1> QED
  BY <1>4, <1>5

\* Cleanup removes items that are done and have been kept long enough.
LEMMA CleanupRefines ==
    ASSUME IInv, NEW s \in Session, CleanupCommit(s)
    PROVE  \E items \in SUBSET Message : Queue!Remove(items)
<1>1. PICK removed \in SUBSET Message :
             /\ \A m \in removed : /\ receipts[m].state \in Done
                                   /\ receipts[m].processed_at < tx[s].now - ReceiptRetention
             /\ receipts' = [m \in Message |->
                  IF m \in removed THEN Absent(receipts[m].gen) ELSE receipts[m]]
  BY CleanupHolds
<1>2. /\ tx[s].now \in Nat /\ tx[s].now <= now /\ now \in Nat /\ ReceiptRetention > 0
      /\ ReceiptRetention \in Nat /\ now' = now
  BY SessionIs, InboxAssumption DEF CleanupCommit, SessionOK
<1>3. ASSUME NEW m \in removed
      PROVE  QueueItem(receipts[m]).status = "done" /\ QueueItem(receipts[m]).until < now
  <2>1. receipts[m] \in ReceiptRow /\ RowOK(receipts[m])
    BY <1>3 DEF IInv, Typed, RowsOK
  <2>2. receipts[m].processed_at \in Int
    BY <2>1 DEF ReceiptRow, Times, NoTime
  <2>3. QueueItem(receipts[m]) =
          [status |-> "done", claim |-> receipts[m].attempt_count,
           until |-> receipts[m].processed_at + ReceiptRetention]
    BY <1>1, <1>2, <1>3, <2>1, ItemOfRow
  <2>4. receipts[m].processed_at + ReceiptRetention < now
    BY <1>1, <1>2, <1>3, <2>2
  <2> QED
    BY <2>3, <2>4
<1>4. ASSUME NEW m \in Message
      PROVE  QueueItem(receipts'[m]) =
               IF m \in removed THEN Queue!Absent ELSE QueueItem(receipts[m])
  <2>1. receipts[m].gen \in 0 .. MaxGen
    BY DEF IInv, Typed, ReceiptRow
  <2>2. receipts'[m] = IF m \in removed THEN Absent(receipts[m].gen) ELSE receipts[m]
    BY <1>1
  <2> QED
    BY <2>1, <2>2, AbsentItem
<1> QED
  BY <1>2, <1>3, <1>4, ItemAt DEF Queue!Remove

\* Every other step leaves the table alone, or only moves the clock.
LEMMA StepRefines ==
    ASSUME IInv, [Next]_vars
    PROVE  [Queue!Next]_(Queue!vars)
<1>1. CASE UNCHANGED << now, receipts >>
  BY <1>1 DEF Queue!vars
<1>2. CASE Tick
  BY <1>2 DEF Tick, Queue!Tick, Queue!Next
<1>3. CASE \E s \in Session : HandleInsert(s)
  BY <1>3, InsertRefines DEF Queue!Next
<1>4. CASE \E s \in Session : ClaimCommit(s)
  BY <1>4, ClaimRefines DEF Queue!Next
<1>5. CASE \E s \in Session : RenewExec(s)
  BY <1>1, <1>5, RenewRefines DEF Queue!Next
<1>6. CASE \E s \in Session : CompleteExec(s)
  BY <1>1, <1>6, CompleteRefines DEF Queue!Next
<1>7. CASE \E s \in Session : CleanupCommit(s)
  BY <1>7, CleanupRefines DEF Queue!Next
<1>8. \/ UNCHANGED << now, receipts >>
      \/ Tick
      \/ \E s \in Session : \/ HandleInsert(s) \/ ClaimCommit(s) \/ RenewExec(s)
                            \/ CompleteExec(s) \/ CleanupCommit(s)
  BY DEF Next, vars, HandleBegin, HandleConflict, HandleRead, ClaimBegin,
         ClaimSelect, ClaimNothing, RenewBegin, CompleteBegin, CleanupBegin, Abort
<1> QED
  BY <1>1, <1>2, <1>3, <1>4, <1>5, <1>6, <1>7, <1>8

\* The inbox, whatever the interleaving of its statements and their failures,
\* implements the queue of atomic operations a worker relies on.
THEOREM RefinesQueue == Spec => ImplementsQueue
<1>1. Init => Queue!Init
  BY InitRefines
<1>2. IInv /\ [Next]_vars => [Queue!Next]_(Queue!vars)
  BY StepRefines
<1> QED
  BY <1>1, <1>2, Invariance, PTL DEF Spec, ImplementsQueue, Queue!Spec
=============================================================================
