---------------------------- MODULE ExchangeProofs ----------------------------
(***************************************************************************)
(* Theorems about Exchange: for any messages, requests, clock offsets,     *)
(* tolerance and bounds.  What Receiver guarantees holds here too, and the *)
(* properties of the whole follow from it, from what a signature covers    *)
(* and from the order of the steps of a key rotation.                      *)
(***************************************************************************)
EXTENDS Exchange, ReceiverProofs

-----------------------------------------------------------------------------
(* The parts of the inductive invariant. *)

IsPacket(p) ==
    p \in [id : Key, body : Key, ts : Int, of : Key, signatures : {p.signatures}]

\* The steps of a rotation happen in their order: the sender signs with the new
\* key alone only when it is trusted, and the old one is dropped only when the
\* new one has been in use for longer than the tolerance.
RotationInv ==
    /\ signing \in {{OldKey}, {OldKey, NewKey}, {NewKey}}
    /\ trusted \in {{OldKey}, {OldKey, NewKey}, {NewKey}}
    /\ switched \in Nat \cup {NoTime} /\ retired \in Nat \cup {NoTime}
    /\ switched = NoTime <=> signing = {OldKey}
    /\ NewKey \notin trusted => OldKey \in signing
    /\ OldKey \notin trusted =>
         switched # NoTime /\ retired > switched + offset + Tolerance
    /\ scheme = "github" => signing = {OldKey} /\ trusted = {OldKey}

\* A sent packet has a signature of each key that was active, over what it
\* carries.
Signed(s, key) == << key, Covered(s.id, s.ts, s.body) >> \in s.signatures

SentOK(s) ==
    /\ IsPacket(s) /\ s.id = s.of /\ s.body = s.of
    /\ s.ts <= now + offset
    /\ \A signature \in s.signatures : signature[2] = Covered(s.id, s.ts, s.body)
    /\ Cardinality(s.signatures) \in 1 .. 2
    /\ Signed(s, OldKey) \/ Signed(s, NewKey)
    /\ Signed(s, OldKey) \/ NewKey \in trusted
    /\ Signed(s, NewKey) \/ switched = NoTime \/ s.ts <= switched + offset

\* Whatever else was changed on the way, the signatures are the sender's.
ArrivalOK(q) ==
    LET a == arrivals[q] IN
    a # NotArrived =>
        /\ IsPacket(a.packet)
        /\ a.receivedAt \in Nat /\ a.receivedAt <= now
        /\ ClaimedID(a.packet) = KeyOf(q)
        /\ \E s \in sent : a.packet.signatures = s.signatures /\ a.packet.of = s.of

\* An accepted packet was sent, as far as its scheme reaches, and not too early.
AcceptedOK(a) ==
    a.verdict = "accepted" =>
        /\ AsSent(a.packet)
        /\ a.packet.body = a.packet.of
        /\ scheme = "standard" => a.packet.id = a.packet.of
        /\ scheme # "github" /\ Tolerance > 0 =>
             a.packet.ts - Tolerance <= a.receivedAt

\* What a signature covers arrived as it was signed.
Genuine(p) ==
    /\ p.id = p.of /\ p.body = p.of
    /\ \A signature \in p.signatures : signature[2] = Covered(p.id, p.ts, p.body)

InWindow(a) ==
    a.packet.ts \in (a.receivedAt - Tolerance) .. (a.receivedAt + Tolerance)

\* A packet refused with a 4xx was changed, has no valid event type, or its
\* time was over.
RefusedOK(a) ==
    /\ Tolerance > 0
    /\ a.verdict = "refused"
    /\ Genuine(a.packet)
    /\ ValidType(a.packet)
    /\ retired < a.receivedAt
    => scheme # "github" /\ ~InWindow(a)

\* The receiver serves what was accepted, and commits it no earlier than it
\* was received.
ServedOK(q) ==
    /\ requests[q].pc \notin {"new", "done"} \/ requests[q].result # "none" =>
         arrivals[q].verdict = "accepted"
    /\ requests[q].pc = "committing" \/ Committed(q) =>
         requests[q].expiresAt >= arrivals[q].receivedAt + ReplayTTL

\* The inductive invariant.
EInv ==
    /\ IInv
    /\ scheme \in {"standard", "stripe", "github"} /\ offset \in Int
    /\ arrivals = [q \in Request |-> arrivals[q]]
    /\ RotationInv
    /\ \A s \in sent : SentOK(s)
    /\ \A q \in Request :
         ArrivalOK(q) /\ AcceptedOK(arrivals[q]) /\ RefusedOK(arrivals[q]) /\ ServedOK(q)

-----------------------------------------------------------------------------
(* What a step leaves alone. *)

\* What a step after the verification does to a request: a result comes only
\* after the claim, and the expiry is reckoned from the clock after the handler.
LEMMA ServeEffect ==
    ASSUME IInv, NEW q \in Request, Step(q) \/ Cancel(q), NEW r \in Request
    PROVE  /\ KeyOf(r)' = KeyOf(r)
           /\ requests'[r].pc \notin {"new", "done"} \/ requests'[r].result # "none" =>
                requests[r].pc \notin {"new", "done"} \/ requests[r].result # "none"
           /\ requests'[r].pc = "committing" \/ Committed(r)' =>
                \/ /\ requests[r].pc = "committing" \/ Committed(r)
                   /\ requests'[r].expiresAt = requests[r].expiresAt
                \/ /\ requests[r].pc = "handled"
                   /\ requests'[r].expiresAt = now + ReplayTTL
<1>1. /\ requests \in [Request -> RequestState] /\ requests[q] \in RequestState
      /\ Progress(q)
  BY DEF IInv, TypeOK, RequestInv
<1>2. CASE ClaimDuplicate(q)
  BY <1>1, <1>2 DEF ClaimDuplicate, Respond, KeyOf, Committed, RequestState, Progress
<1>3. CASE ClaimWait(q)
  BY <1>1, <1>3 DEF ClaimWait, KeyOf, Committed, RequestState, Progress
<1>4. CASE ClaimRefused(q)
  BY <1>1, <1>4 DEF ClaimRefused, Respond, KeyOf, Committed, RequestState, Progress
<1>5. CASE ClaimNew(q)
  BY <1>1, <1>5 DEF ClaimNew, Free, Goto, KeyOf, Committed, RequestState, Progress
<1>6. CASE Wake(q)
  BY <1>1, <1>6 DEF Wake, Goto, KeyOf, Committed, RequestState, Progress
<1>7. CASE HandlerEnds(q)
  BY <1>1, <1>7 DEF HandlerEnds, KeyOf, Committed, RequestState, Progress
<1>8. CASE ReleaseFailed(q)
  BY <1>1, <1>8 DEF ReleaseFailed, Respond, KeyOf, Committed, RequestState, Progress
<1>9. CASE ReleasePanicked(q)
  BY <1>1, <1>9 DEF ReleasePanicked, Respond, KeyOf, Committed, RequestState, Progress
<1>10. CASE CommitBegin(q)
  BY <1>1, <1>10 DEF CommitBegin, KeyOf, Committed, RequestState, Progress
<1>11. CASE Commit(q)
  BY <1>1, <1>11 DEF Commit, Respond, KeyOf, Committed, RequestState, Progress
<1>12. CASE Cancel(q)
  BY <1>1, <1>12 DEF Cancel, Respond, KeyOf, Committed, RequestState, Progress
<1> QED
  BY <1>2, <1>3, <1>4, <1>5, <1>6, <1>7, <1>8, <1>9, <1>10, <1>11, <1>12 DEF Step

\* The identity of a request is never rewritten.
LEMMA KeysStay ==
    ASSUME IInv, [Next]_vars
    PROVE  \A q \in Request : KeyOf(q)' = KeyOf(q)
<1>1. requests \in [Request -> RequestState]
  BY DEF IInv, TypeOK
<1>2. ASSUME NEW q \in Request, Step(q) \/ Cancel(q) PROVE \A r \in Request : KeyOf(r)' = KeyOf(r)
  BY <1>2, ServeEffect
<1>3. ASSUME NEW q \in Request, Reject(q) \/ Verify(q) PROVE \A r \in Request : KeyOf(r)' = KeyOf(r)
  BY <1>1, <1>3 DEF Reject, Verify, Goto, Respond, KeyOf, RequestState
<1>4. CASE Tick \/ UNCHANGED vars
  BY <1>4 DEF Tick, vars, KeyOf
<1> QED
  BY <1>2, <1>3, <1>4 DEF Next

\* Every step of the exchange is a step of the receiver or none.
LEMMA IsReceiverStep == [ExchangeNext]_exchangeVars => [Next]_vars
<1> SUFFICES ASSUME [ExchangeNext]_exchangeVars PROVE [Next]_vars
  OBVIOUS
<1>1. CASE Clock
  BY <1>1 DEF Clock, Next
<1>2. ASSUME NEW k \in Key, Send(k) PROVE UNCHANGED vars
  BY <1>2 DEF Send
<1>3. ASSUME NEW q \in Request, Arrive(q) PROVE UNCHANGED vars
  BY <1>3 DEF Arrive
<1>4. ASSUME NEW q \in Request, Judge(q) PROVE Next
  BY <1>4 DEF Judge, Next
<1>5. ASSUME NEW q \in Request, Serve(q) PROVE Next
  BY <1>5 DEF Serve, Next
<1>6. CASE TrustBoth \/ SignBoth \/ SignNew \/ TrustNew
  BY <1>6 DEF TrustBoth, SignBoth, SignNew, TrustNew
<1>7. CASE UNCHANGED exchangeVars
  BY <1>7 DEF exchangeVars
<1> QED
  BY <1>1, <1>2, <1>3, <1>4, <1>5, <1>6, <1>7 DEF ExchangeNext

\* The scheme, the clocks' offset and the identities of requests stay; packets
\* stay on the network; the clock does not go back.
LEMMA Frame ==
    ASSUME EInv, [ExchangeNext]_exchangeVars
    PROVE  /\ IInv' /\ scheme' = scheme /\ offset' = offset /\ eventType' = eventType
           /\ sent \subseteq sent'
           /\ now \in Nat /\ now' \in Nat /\ now <= now'
           /\ \A q \in Request : KeyOf(q)' = KeyOf(q)
           /\ \A id, ts, body : Covered(id, ts, body)' = Covered(id, ts, body)
           /\ \A p : ClaimedID(p)' = ClaimedID(p)
           /\ \A p : AsSent(p) => AsSent(p)'
<1>1. scheme' = scheme /\ offset' = offset /\ eventType' = eventType /\ sent \subseteq sent'
  <2>1. CASE Clock
    BY <2>1 DEF Clock, pair
  <2>2. ASSUME NEW k \in Key, Send(k)
        PROVE  /\ scheme' = scheme /\ offset' = offset /\ eventType' = eventType
               /\ sent \subseteq sent'
    BY <2>2 DEF Send, pair
  <2>3. ASSUME NEW q \in Request, Arrive(q) \/ Judge(q) \/ Serve(q)
        PROVE  /\ scheme' = scheme /\ offset' = offset /\ eventType' = eventType
               /\ sent' = sent
    BY <2>3 DEF Arrive, Judge, Serve, pair
  <2>4. CASE TrustBoth \/ SignBoth \/ SignNew \/ TrustNew
    BY <2>4 DEF TrustBoth, SignBoth, SignNew, TrustNew, pair
  <2>5. CASE UNCHANGED exchangeVars
    BY <2>5 DEF exchangeVars, pair
  <2> QED
    BY <2>1, <2>2, <2>3, <2>4, <2>5 DEF ExchangeNext
<1>2. IInv /\ IInv' /\ [Next]_vars
  BY IsReceiverStep, Invariance DEF EInv
<1>3. now \in Nat /\ now' \in Nat /\ requests \in [Request -> RequestState]
  BY <1>2 DEF IInv, TypeOK
<1>4. now <= now'
  <2>1. ASSUME NEW q \in Request, Step(q) PROVE now' = now
    BY <2>1, Zenon DEF Step, ClaimDuplicate, ClaimWait, ClaimRefused, ClaimNew, Wake,
           HandlerEnds, ReleaseFailed, ReleasePanicked, CommitBegin, Commit
  <2>2. ASSUME NEW q \in Request, Reject(q) \/ Verify(q) \/ Cancel(q) PROVE now' = now
    BY <2>2 DEF Reject, Verify, Cancel
  <2>3. CASE Tick \/ UNCHANGED vars
    BY <1>3, <2>3 DEF Tick, vars
  <2> QED
    BY <1>2, <1>3, <2>1, <2>2, <2>3 DEF Next
<1>5. \A q \in Request : KeyOf(q)' = KeyOf(q)
  BY <1>2, <1>3, KeysStay
<1>6. \A id, ts, body : Covered(id, ts, body)' = Covered(id, ts, body)
  BY <1>1, Zenon DEF Covered
<1>7. \A p : ClaimedID(p)' = ClaimedID(p)
  BY <1>1 DEF ClaimedID
<1>8. \A p : AsSent(p) => AsSent(p)'
  BY <1>1 DEF AsSent
<1> QED
  BY <1>1, <1>2, <1>3, <1>4, <1>5, <1>6, <1>7, <1>8

-----------------------------------------------------------------------------
(* The rotation, and what is sent. *)

LEMMA RotationStep ==
    ASSUME EInv, [ExchangeNext]_exchangeVars
    PROVE  RotationInv'
<1>1. /\ RotationInv /\ offset \in Int /\ Tolerance \in Nat
      /\ scheme' = scheme /\ offset' = offset /\ now \in Nat /\ now' \in Nat
  BY Frame, ExchangeAssumption DEF EInv
<1>2. ASSUME UNCHANGED << signing, trusted, switched, retired >> PROVE RotationInv'
  BY <1>1, <1>2 DEF RotationInv
<1>3. CASE TrustBoth
  BY <1>1, <1>3, ExchangeAssumption DEF TrustBoth, RotationInv, NoTime
<1>4. CASE SignBoth
  BY <1>1, <1>4, ExchangeAssumption DEF SignBoth, RotationInv, NoTime
<1>5. CASE SignNew
  BY <1>1, <1>5, ExchangeAssumption DEF SignNew, RotationInv, NoTime
<1>6. CASE TrustNew
  BY <1>1, <1>6, ExchangeAssumption DEF TrustNew, RotationInv, NoTime
<1> QED
  BY <1>2, <1>3, <1>4, <1>5, <1>6
  DEF ExchangeNext, exchangeVars, keys, Clock, Send, Arrive, Judge, Serve

\* A timestamp is a whole second, not after the clock it is read from.
LEMMA StampBelow ==
    ASSUME now \in Nat, offset \in Int
    PROVE  Timestamp \in Int /\ Timestamp <= now + offset
<1> DEFINE t == now + offset
           d == t \div Second
<1>1. t \in Int /\ Second \in Nat /\ Second > 0
  BY ExchangeAssumption
<1>2. d \in Int /\ Second * d <= t
  BY <1>1
<1> QED
  BY <1>1, <1>2 DEF Timestamp

LEMMA SentOKPrime ==
    ASSUME EInv, [ExchangeNext]_exchangeVars, NEW s, SentOK(s),
           NewKey \in trusted => NewKey \in trusted',
           switched # NoTime => switched' = switched,
           switched = NoTime => switched' \in {NoTime, now}
    PROVE  SentOK(s)'
<1>1. /\ now \in Nat /\ now' \in Nat /\ now <= now' /\ offset \in Int /\ offset' = offset
      /\ Covered(s.id, s.ts, s.body)' = Covered(s.id, s.ts, s.body)
  BY Frame DEF EInv
<1>2. IsPacket(s) /\ s.ts \in Int
  BY DEF SentOK, IsPacket
<1>3. \A key : Signed(s, key)' <=> Signed(s, key)
  BY <1>1 DEF Signed
<1>4. Signed(s, NewKey) \/ switched' = NoTime \/ s.ts <= switched' + offset
  BY <1>1, <1>2 DEF SentOK
<1>5. s.ts <= now' + offset
  BY <1>1, <1>2 DEF SentOK
<1> QED
  BY <1>1, <1>2, <1>3, <1>4, <1>5 DEF SentOK, IsPacket

\* Once trusted, the new key stays so; the switch to it is noted once.
LEMMA KeysAdvance ==
    ASSUME EInv, [ExchangeNext]_exchangeVars
    PROVE  /\ NewKey \in trusted => NewKey \in trusted'
           /\ switched # NoTime => switched' = switched
           /\ switched = NoTime => switched' \in {NoTime, now}
           /\ retired' = retired \/ (retired' = now /\ now' = now)
<1>1. RotationInv
  BY DEF EInv
<1>2. ASSUME UNCHANGED << signing, trusted, switched, retired >>
      PROVE  /\ NewKey \in trusted => NewKey \in trusted'
             /\ switched # NoTime => switched' = switched
             /\ switched = NoTime => switched' \in {NoTime, now}
             /\ retired' = retired
  BY <1>2
<1>3. CASE TrustBoth
  BY <1>1, <1>3 DEF TrustBoth, RotationInv, NoTime
<1>4. CASE SignBoth
  BY <1>1, <1>4 DEF SignBoth, RotationInv, NoTime
<1>5. CASE SignNew
  BY <1>1, <1>5 DEF SignNew, RotationInv, NoTime
<1>6. CASE TrustNew
  BY <1>1, <1>6 DEF TrustNew, RotationInv, NoTime, vars
<1> QED
  BY <1>2, <1>3, <1>4, <1>5, <1>6
  DEF ExchangeNext, exchangeVars, keys, Clock, Send, Arrive, Judge, Serve

\* A message is signed with one or two keys.
LEMMA SignaturesOf ==
    ASSUME RotationInv, NEW content
    PROVE  /\ Cardinality(Sign(content)) \in 1 .. 2
           /\ \A signature \in Sign(content) : signature[2] = content
           /\ OldKey \in signing => << OldKey, content >> \in Sign(content)
           /\ NewKey \in signing => << NewKey, content >> \in Sign(content)
<1> DEFINE a == << OldKey, content >>
           b == << NewKey, content >>
<1>1. Sign(content) \in {{a}, {a} \cup {b}, {b}}
  BY DEF RotationInv, Sign
<1>2. /\ \A signature \in Sign(content) : signature[2] = content
      /\ OldKey \in signing => << OldKey, content >> \in Sign(content)
      /\ NewKey \in signing => << NewKey, content >> \in Sign(content)
  BY DEF Sign
<1> HIDE DEF a, b
<1>3. /\ IsFiniteSet({a}) /\ Cardinality({a}) = 1
      /\ IsFiniteSet({b}) /\ Cardinality({b}) = 1
  BY FS_Singleton
<1>4. Cardinality({a} \cup {b}) \in 1 .. 2
  BY <1>3, FS_AddElement
<1> QED
  BY <1>1, <1>2, <1>3, <1>4

LEMMA SentStep ==
    ASSUME EInv, [ExchangeNext]_exchangeVars
    PROVE  \A s \in sent' : SentOK(s)'
<1>1. ASSUME NEW s \in sent PROVE SentOK(s)'
  BY KeysAdvance, SentOKPrime DEF EInv
<1>2. ASSUME NEW k \in Key, Send(k) PROVE \A s \in sent' : SentOK(s)'
  <2>1. PICK content, p :
          /\ content = Covered(k, Timestamp, k)
          /\ p = [id |-> k, body |-> k, ts |-> Timestamp, of |-> k,
                  signatures |-> Sign(content)]
    OBVIOUS
  <2>2. sent' = sent \cup {p} /\ UNCHANGED << signing, trusted, switched, retired >>
    BY <1>2, <2>1 DEF Send, keys
  <2>3. RotationInv /\ Timestamp \in Int /\ Timestamp <= now + offset
    BY Frame, StampBelow DEF EInv
  <2>4. /\ p.id = k /\ p.ts = Timestamp /\ p.body = k /\ p.of = k
        /\ p.signatures = Sign(content)
        /\ IsPacket(p)
    BY <2>1, <2>3 DEF IsPacket
  <2>5. Covered(p.id, p.ts, p.body) = content
    BY <2>1, <2>4
  <2>6. /\ Cardinality(p.signatures) \in 1 .. 2
        /\ \A signature \in p.signatures : signature[2] = content
        /\ OldKey \in signing => Signed(p, OldKey)
        /\ NewKey \in signing => Signed(p, NewKey)
    BY <2>3, <2>4, <2>5, SignaturesOf DEF Signed
  <2>7. SentOK(p)
    BY <2>3, <2>4, <2>5, <2>6 DEF SentOK, RotationInv
  <2>8. SentOK(p)'
    BY <2>7, KeysAdvance, SentOKPrime
  <2> QED
    BY <1>1, <2>2, <2>8
<1>3. ASSUME sent' = sent PROVE \A s \in sent' : SentOK(s)'
  BY <1>1, <1>3
<1> QED
  BY <1>2, <1>3 DEF ExchangeNext, exchangeVars, Clock, Arrive, Judge, Serve,
                    TrustBoth, SignBoth, SignNew, TrustNew

-----------------------------------------------------------------------------
(* The verifiers. *)

LEMMA CoveredIs ==
    ASSUME NEW id, NEW ts, NEW body
    PROVE  /\ scheme = "standard" => Covered(id, ts, body) = << id, ts, body >>
           /\ scheme = "stripe" => Covered(id, ts, body) = << ts, body >>
           /\ scheme = "github" => Covered(id, ts, body) = << body >>
  BY Zenon DEF Covered, SignedContent

\* The saturating difference of two times decides the tolerance as the exact
\* one would.
LEMMA ToleranceIs ==
    ASSUME NEW t \in Int, NEW ts \in Int
    PROVE  OutsideTolerance(t, ts) <=> ts \notin (t - Tolerance) .. (t + Tolerance)
<1>1. ASSUME NEW x \in Int, NEW y \in Int
      PROVE  Sub(x, y) > Tolerance <=> x - y > Tolerance
  BY ExchangeAssumption DEF Sub
<1> QED
  BY <1>1, ExchangeAssumption DEF OutsideTolerance

\* A packet that a verifier accepts has the content its signatures were made
\* for, and a timestamp within the tolerance.
LEMMA AcceptedIsSent ==
    ASSUME EInv, NEW p, IsPacket(p), NEW t \in Nat, NEW ring, Accepts(p, t, ring),
           NEW s \in sent, p.signatures = s.signatures, p.of = s.of
    PROVE  /\ AsSent(p)
           /\ p.body = p.of
           /\ scheme = "standard" => p.id = p.of
           /\ scheme # "github" /\ Tolerance > 0 => p.ts - Tolerance <= t
<1>1. /\ \A signature \in p.signatures : signature[2] = Covered(s.id, s.ts, s.body)
      /\ s.id = s.of /\ s.body = s.of
  BY DEF EInv, SentOK
<1>2. ASSUME NEW content, VerifyAny(ring, content, p.signatures)
      PROVE  content = Covered(s.id, s.ts, s.body)
  <2>1. PICK key \in ring : << key, content >> \in p.signatures
    BY <1>2 DEF VerifyAny
  <2> QED
    BY <1>1, <2>1
<1>3. p.ts \in Int
  BY DEF IsPacket
<1>4. Tolerance > 0 /\ ~OutsideTolerance(t, p.ts) => p.ts - Tolerance <= t
  BY <1>3, ToleranceIs, ExchangeAssumption
<1>5. CASE scheme = "standard"
  <2>1. << p.id, p.ts, p.body >> = << s.id, s.ts, s.body >>
    BY <1>2, <1>5, CoveredIs DEF Accepts, StandardAccepts, SignedContent
  <2>2. p.id = s.id /\ p.ts = s.ts /\ p.body = s.body
    BY <2>1
  <2> QED
    BY <1>1, <1>4, <1>5, <2>2 DEF AsSent, Accepts, StandardAccepts, WithinTolerance
<1>6. CASE scheme = "stripe"
  <2>1. << p.ts, p.body >> = << s.ts, s.body >>
    BY <1>2, <1>6, CoveredIs DEF Accepts, StripeAccepts
  <2>2. p.ts = s.ts /\ p.body = s.body
    BY <2>1
  <2> QED
    BY <1>1, <1>4, <1>6, <2>2 DEF AsSent, Accepts, StripeAccepts, WithinTolerance
<1>7. CASE scheme = "github"
  <2>1. << p.body >> = << s.body >>
    BY <1>2, <1>7, CoveredIs DEF Accepts, GitHubAccepts
  <2>2. p.body = s.body
    BY <2>1
  <2> QED
    BY <1>1, <1>7, <2>2 DEF AsSent
<1> QED
  BY <1>5, <1>6, <1>7 DEF EInv

\* The verifiers' keys are between one and sixteen, those of a failing provider
\* are not.
LEMMA TrustedIsValid ==
    ASSUME RotationInv PROVE ValidKeys(trusted) /\ ~ValidKeys({})
<1>1. /\ IsFiniteSet({OldKey}) /\ Cardinality({OldKey}) = 1
      /\ IsFiniteSet({NewKey}) /\ Cardinality({NewKey}) = 1
  BY FS_Singleton
<1>2. Cardinality({OldKey} \cup {NewKey}) \in 1 .. 2
  BY <1>1, FS_AddElement
<1>3. trusted \in {{OldKey}, {OldKey} \cup {NewKey}, {NewKey}}
  BY DEF RotationInv
<1> QED
  BY <1>1, <1>2, <1>3, FS_EmptySet DEF ValidKeys

\* An unchanged packet with a valid type is refused only for its time, provided
\* it was received after the old key was dropped, if it was: until then one of
\* its keys is trusted, and after that its timestamp is too old if the new one is
\* missing.  A provider that fails is asked, and so excuses the refusal, only
\* when the time is right.
LEMMA RefusedIsLate ==
    ASSUME EInv, NEW p, IsPacket(p), NEW t \in Nat, NEW ring \in {trusted, {}},
           Verdict(p, t, ring) = "refused", ValidType(p),
           NEW s \in sent, p.signatures = s.signatures, p.of = s.of,
           Genuine(p), Tolerance > 0, retired < t
    PROVE  scheme # "github" /\ p.ts \notin (t - Tolerance) .. (t + Tolerance)
<1> DEFINE content == Covered(p.id, p.ts, p.body)
<1>1. RotationInv /\ SentOK(s) /\ p.ts \in Int /\ offset \in Int /\ Tolerance \in Nat
  BY ExchangeAssumption DEF EInv, IsPacket
<1>2. content = Covered(s.id, s.ts, s.body)
  <2>1. PICK key : << key, Covered(s.id, s.ts, s.body) >> \in p.signatures
    BY <1>1 DEF SentOK, Signed
  <2> QED
    BY <2>1 DEF Genuine
<1>3. scheme # "github" => p.ts = s.ts
  <2>1. CASE scheme = "standard"
    BY <1>2, <2>1, CoveredIs
  <2>2. CASE scheme = "stripe"
    BY <1>2, <2>2, CoveredIs
  <2> QED
    BY <2>1, <2>2 DEF EInv
<1>4. /\ ~Accepts(p, t, ring)
      /\ ~Asks(p, t) \/ ValidKeys(ring)
  BY Zenon DEF Verdict, Validate
<1>5. ParseSignatures(p) /\ ParseHeader(p)
  BY <1>1 DEF SentOK, ParseSignatures, ParseHeader
<1>6. CASE ~Asks(p, t)
  <2>1. scheme # "github" /\ OutsideTolerance(t, p.ts)
    BY <1>5, <1>6 DEF Asks, WithinTolerance, EInv
  <2> QED
    BY <1>1, <2>1, ToleranceIs
<1>7. ASSUME Asks(p, t), NEW key \in trusted, Signed(s, key) PROVE FALSE
  <2>1. ring = trusted
    BY <1>1, <1>4, <1>7, TrustedIsValid
  <2>2. VerifyAny(ring, content, p.signatures)
    BY <1>1, <1>2, <1>7, <2>1, TrustedIsValid DEF VerifyAny, Signed
  <2>3. CASE scheme = "standard"
    BY <1>4, <1>7, <2>2, <2>3, CoveredIs
    DEF Accepts, Asks, StandardAccepts, SignedContent, ValidType, ExtractType
  <2>4. CASE scheme = "stripe"
    BY <1>4, <1>7, <2>2, <2>4, CoveredIs DEF Accepts, Asks, StripeAccepts
  <2>5. CASE scheme = "github"
    BY <1>4, <2>2, <2>5, CoveredIs DEF Accepts, GitHubAccepts
  <2> QED
    BY <2>3, <2>4, <2>5 DEF EInv
<1>8. CASE ~\E key \in trusted : Signed(s, key)
  <2>1. OldKey \notin trusted /\ ~Signed(s, NewKey)
    BY <1>1, <1>8 DEF RotationInv, SentOK
  <2>2. /\ scheme # "github" /\ switched \in Nat /\ retired \in Int
        /\ retired > switched + offset + Tolerance
        /\ s.ts <= switched + offset
    BY <1>1, <2>1 DEF RotationInv, SentOK, NoTime
  <2> QED
    BY <1>1, <1>3, <2>2
<1> QED
  BY <1>6, <1>7, <1>8

-----------------------------------------------------------------------------
(* Arrivals. *)

\* A changed packet keeps its signatures.
LEMMA ArrivingKeeps ==
    ASSUME now \in Nat, NEW p, IsPacket(p), NEW packet \in Arriving(p)
    PROVE  /\ IsPacket(packet)
           /\ packet.signatures = p.signatures /\ packet.of = p.of
<1>1. Second * (now \div Second) \in Int
  <2>1. Second \in Nat /\ Second > 0
    BY ExchangeAssumption
  <2>2. now \div Second \in Int
    BY <2>1
  <2> QED
    BY <2>1, <2>2
<1> QED
  BY <1>1 DEF IsPacket, Arriving

LEMMA NotArrivedIs == NotArrived.verdict = "none"
  BY DEF NotArrived, Arrival

\* An arrival that a step does not write keeps what the invariant says of it:
\* a key dropped now was dropped after the arrival.
LEMMA SettledOK ==
    ASSUME EInv, [ExchangeNext]_exchangeVars, NEW q \in Request,
           arrivals'[q] = arrivals[q]
    PROVE  /\ ArrivalOK(q)' /\ AcceptedOK(arrivals[q])' /\ RefusedOK(arrivals[q])'
<1>1. ArrivalOK(q) /\ AcceptedOK(arrivals[q]) /\ RefusedOK(arrivals[q])
  BY DEF EInv
<1>2. PICK a : a = arrivals[q]
  OBVIOUS
<1>3. NotArrived' = NotArrived
  BY DEF NotArrived, Arrival
<1>4. ArrivalOK(q)'
  <2>1. SUFFICES ASSUME a # NotArrived
                 PROVE  /\ a.receivedAt <= now'
                        /\ ClaimedID(a.packet)' = KeyOf(q)'
                        /\ \E s \in sent' : /\ a.packet.signatures = s.signatures
                                            /\ a.packet.of = s.of
    BY <1>1, <1>2, <1>3 DEF ArrivalOK, IsPacket
  <2>2. /\ a.receivedAt \in Nat /\ a.receivedAt <= now
        /\ ClaimedID(a.packet) = KeyOf(q)
        /\ \E s \in sent : /\ a.packet.signatures = s.signatures
                           /\ a.packet.of = s.of
    BY <1>1, <1>2, <2>1 DEF ArrivalOK
  <2> QED
    BY <2>2, Frame
<1>5. AcceptedOK(a)'
  BY <1>1, <1>2, Frame DEF AcceptedOK
<1>6. RefusedOK(a)'
  <2> SUFFICES ASSUME Tolerance > 0, a.verdict = "refused", Genuine(a.packet)',
                      ValidType(a.packet)', retired' < a.receivedAt
               PROVE  scheme' # "github" /\ ~InWindow(a)
    BY DEF RefusedOK, InWindow
  <2>1. Genuine(a.packet) /\ ValidType(a.packet)
    BY Frame DEF Genuine, ValidType
  <2>2. a # NotArrived
    BY NotArrivedIs
  <2>3. a.receivedAt \in Nat /\ a.receivedAt <= now /\ now \in Nat
    BY <1>1, <1>2, <2>2, Frame DEF ArrivalOK
  <2>4. retired' = retired
    BY <2>3, KeysAdvance
  <2> QED
    BY <1>1, <1>2, <2>1, <2>4, Frame DEF RefusedOK
<1> QED
  BY <1>2, <1>4, <1>5, <1>6 DEF AcceptedOK, RefusedOK, AsSent, Genuine, ValidType, InWindow

\* The same for the arrival that a step writes.
LEMMA WrittenOK ==
    ASSUME EInv, [ExchangeNext]_exchangeVars, NEW q \in Request,
           NEW packet, NEW t, NEW verdict,
           arrivals'[q] = Arrival(packet, t, verdict),
           sent' = sent, retired' = retired,
           IsPacket(packet), t \in Nat, t <= now, ClaimedID(packet) = KeyOf(q),
           NEW s \in sent, packet.signatures = s.signatures, packet.of = s.of,
           NEW ring \in {trusted, {}}, verdict \in {"none", Verdict(packet, t, ring)}
    PROVE  /\ ArrivalOK(q)' /\ AcceptedOK(arrivals[q])' /\ RefusedOK(arrivals[q])'
<1>1. PICK a : a = Arrival(packet, t, verdict)
  OBVIOUS
<1>2. a.packet = packet /\ a.receivedAt = t /\ a.verdict = verdict /\ arrivals'[q] = a
  BY <1>1 DEF Arrival
<1>3. AcceptedOK(a)
  <2>1. verdict = "accepted" => Accepts(packet, t, ring)
    BY Zenon DEF Verdict
  <2> QED
    BY <1>2, <2>1, AcceptedIsSent DEF AcceptedOK
<1>4. RefusedOK(a)
  BY <1>2, RefusedIsLate DEF RefusedOK, InWindow
<1>5. AcceptedOK(a)'
  BY <1>3, Frame DEF AcceptedOK
<1>6. RefusedOK(a)'
  <2>1. /\ Genuine(a.packet)' <=> Genuine(a.packet)
        /\ ValidType(a.packet)' <=> ValidType(a.packet)
    BY Frame DEF Genuine, ValidType
  <2> QED
    BY <1>4, <2>1, Frame DEF RefusedOK, InWindow
<1>7. ArrivalOK(q)'
  <2>1. t <= now' /\ ClaimedID(packet)' = KeyOf(q)'
    BY Frame
  <2> QED
    BY <1>2, <2>1 DEF ArrivalOK, IsPacket
<1> QED
  BY <1>2, <1>5, <1>6, <1>7 DEF AcceptedOK, RefusedOK, AsSent, Genuine, ValidType, InWindow

LEMMA ArrivalStep ==
    ASSUME EInv, [ExchangeNext]_exchangeVars
    PROVE  /\ arrivals' = [q \in Request |-> arrivals'[q]]
           /\ \A q \in Request :
                ArrivalOK(q)' /\ AcceptedOK(arrivals[q])' /\ RefusedOK(arrivals[q])'
<1> DEFINE Goal ==
      /\ arrivals' = [q \in Request |-> arrivals'[q]]
      /\ \A q \in Request :
           ArrivalOK(q)' /\ AcceptedOK(arrivals[q])' /\ RefusedOK(arrivals[q])'
<1>0. arrivals = [q \in Request |-> arrivals[q]]
  BY DEF EInv
<1>1. ASSUME arrivals' = arrivals PROVE Goal
  BY <1>0, <1>1, SettledOK
<1>2. ASSUME NEW q \in Request, NEW a, arrivals' = [arrivals EXCEPT ![q] = a],
             ArrivalOK(q)' /\ AcceptedOK(arrivals[q])' /\ RefusedOK(arrivals[q])'
      PROVE  Goal
  <2>1. /\ arrivals' = [r \in Request |-> arrivals'[r]]
        /\ \A r \in Request : r # q => arrivals'[r] = arrivals[r]
    BY <1>0, <1>2
  <2> QED
    BY <1>2, <2>1, SettledOK
<1> HIDE DEF Goal
<1>3. ASSUME NEW q \in Request, Arrive(q) PROVE Goal
  <2>1. PICK p \in sent : \E packet \in Arriving(p) :
          /\ ClaimedID(packet) = KeyOf(q)
          /\ arrivals' = [arrivals EXCEPT ![q] = Arrival(packet, now, "none")]
    BY <1>3 DEF Arrive
  <2>2. PICK packet \in Arriving(p) :
          /\ ClaimedID(packet) = KeyOf(q)
          /\ arrivals' = [arrivals EXCEPT ![q] = Arrival(packet, now, "none")]
    BY <2>1
  <2>3. now \in Nat /\ IsPacket(p)
    BY Frame DEF EInv, SentOK
  <2>4. IsPacket(packet) /\ packet.signatures = p.signatures /\ packet.of = p.of
    BY <2>3, ArrivingKeeps
  <2>5. PICK t : t = now
    OBVIOUS
  <2>6. sent' = sent /\ retired' = retired
    BY <1>3 DEF Arrive, keys
  <2>7. arrivals'[q] = Arrival(packet, t, "none")
    BY <1>0, <2>2, <2>5
  <2>8. t \in Nat /\ t <= now
    BY <2>3, <2>5
  <2>9. ArrivalOK(q)' /\ AcceptedOK(arrivals[q])' /\ RefusedOK(arrivals[q])'
    BY <2>2, <2>4, <2>6, <2>7, <2>8, WrittenOK
  <2> QED
    BY <1>2, <2>2, <2>5, <2>9
<1>4. ASSUME NEW q \in Request, Judge(q) PROVE Goal
  <2>0. PICK ring \in {trusted, {}} :
          \E packet, t, verdict :
            /\ packet = arrivals[q].packet /\ t = arrivals[q].receivedAt
            /\ verdict = Verdict(packet, t, ring)
            /\ arrivals[q] # NotArrived
            /\ arrivals' = [arrivals EXCEPT ![q] = Arrival(packet, t, verdict)]
            /\ sent' = sent /\ retired' = retired
    BY <1>4, Zenon DEF Judge, keys
  <2>1. PICK packet, t, verdict :
          /\ packet = arrivals[q].packet /\ t = arrivals[q].receivedAt
          /\ verdict = Verdict(packet, t, ring)
          /\ arrivals[q] # NotArrived
          /\ arrivals' = [arrivals EXCEPT ![q] = Arrival(packet, t, verdict)]
          /\ sent' = sent /\ retired' = retired
    BY <2>0
  <2>2. ArrivalOK(q)
    BY DEF EInv
  <2>3. PICK s \in sent : packet.signatures = s.signatures /\ packet.of = s.of
    BY <2>1, <2>2 DEF ArrivalOK
  <2>4. IsPacket(packet) /\ t \in Nat /\ t <= now /\ ClaimedID(packet) = KeyOf(q)
    BY <2>1, <2>2 DEF ArrivalOK
  <2>5. arrivals'[q] = Arrival(packet, t, verdict)
    BY <1>0, <2>1
  <2>6. ArrivalOK(q)' /\ AcceptedOK(arrivals[q])' /\ RefusedOK(arrivals[q])'
    BY <2>1, <2>3, <2>4, <2>5, WrittenOK
  <2> QED
    BY <1>2, <2>1, <2>6
<1>5. Goal
  BY <1>1, <1>3, <1>4 DEF ExchangeNext, exchangeVars, Clock, Send, Serve,
                          TrustBoth, SignBoth, SignNew, TrustNew
<1> QED
  BY <1>5 DEF Goal

-----------------------------------------------------------------------------
(* The receiver behind the verifiers. *)

LEMMA ServedStep ==
    ASSUME EInv, [ExchangeNext]_exchangeVars
    PROVE  \A r \in Request : ServedOK(r)'
<1>1. /\ IInv /\ requests \in [Request -> RequestState]
      /\ \A r \in Request : ServedOK(r) /\ ArrivalOK(r) /\ Progress(r)
      /\ arrivals = [r \in Request |-> arrivals[r]]
      /\ ReplayTTL \in Nat /\ now \in Nat
  BY ReceiverAssumption DEF EInv, IInv, TypeOK, RequestInv
<1>2. ASSUME UNCHANGED << requests, arrivals >> PROVE \A r \in Request : ServedOK(r)'
  BY <1>1, <1>2 DEF ServedOK, Committed
<1>3. ASSUME NEW q \in Request, Serve(q), NEW r \in Request PROVE ServedOK(r)'
  <2>1. Step(q) \/ Cancel(q)
    BY <1>3 DEF Serve
  <2>2. arrivals' = arrivals
    BY <1>3 DEF Serve
  <2>3. requests[r].pc = "handled" => arrivals[r].receivedAt \in Nat /\ arrivals[r].receivedAt <= now
    <3> SUFFICES ASSUME requests[r].pc = "handled"
                 PROVE  arrivals[r].receivedAt \in Nat /\ arrivals[r].receivedAt <= now
      OBVIOUS
    <3>1. arrivals[r].verdict = "accepted"
      BY <1>1 DEF ServedOK
    <3> QED
      BY <1>1, <3>1, NotArrivedIs DEF ArrivalOK
  <2>4. /\ requests'[r].pc \notin {"new", "done"} \/ requests'[r].result # "none" =>
             arrivals[r].verdict = "accepted"
        /\ requests'[r].pc = "committing" \/ Committed(r)' =>
             requests'[r].expiresAt >= arrivals[r].receivedAt + ReplayTTL
    BY <1>1, <2>1, <2>3, ServeEffect DEF ServedOK
  <2> QED
    BY <2>2, <2>4 DEF ServedOK, Committed
<1>4. ASSUME NEW q \in Request, Judge(q), NEW r \in Request PROVE ServedOK(r)'
  <2>1. PICK verdict, a :
          /\ a = Arrival(arrivals[q].packet, arrivals[q].receivedAt, verdict)
          /\ IF verdict = "accepted" THEN Verify(q) ELSE Reject(q)
          /\ arrivals' = [arrivals EXCEPT ![q] = a]
    BY <1>4, Zenon DEF Judge
  <2>2. a.verdict = verdict
    BY <2>1 DEF Arrival
  <2>3. arrivals'[q] = a /\ \A p \in Request : p # q => arrivals'[p] = arrivals[p]
    BY <1>1, <2>1
  <2>4. CASE r # q
    BY <1>1, <2>1, <2>3, <2>4 DEF Verify, Reject, Goto, Respond, ServedOK, Committed
  <2>5. CASE r = q
    <3>1. requests[q].pc = "new" /\ requests[q].result = "none" /\ requests[q] \in RequestState
      BY <1>1, <2>1 DEF Verify, Reject, Progress
    <3>2. CASE verdict = "accepted"
      <4>1. requests'[q].pc = "claiming" /\ requests'[q].result = "none"
        BY <1>1, <2>1, <3>1, <3>2 DEF Verify, Goto, RequestState
      <4> QED
        BY <2>2, <2>3, <2>5, <3>2, <4>1 DEF ServedOK, Committed
    <3>3. CASE verdict # "accepted"
      <4>1. requests'[q].pc = "done" /\ requests'[q].result = "none"
        BY <1>1, <2>1, <3>1, <3>3 DEF Reject, Respond, RequestState
      <4> QED
        BY <2>5, <4>1 DEF ServedOK, Committed
    <3> QED
      BY <3>2, <3>3
  <2> QED
    BY <2>4, <2>5
<1>5. ASSUME NEW q \in Request, Arrive(q), NEW r \in Request PROVE ServedOK(r)'
  <2>1. requests' = requests /\ requests[q].pc = "new"
    BY <1>5 DEF Arrive, vars
  <2>2. \A p \in Request : p # q => arrivals'[p] = arrivals[p]
    BY <1>1, <1>5 DEF Arrive
  <2>3. CASE r # q
    BY <1>1, <2>1, <2>2, <2>3 DEF ServedOK, Committed
  <2>4. CASE r = q
    BY <1>1, <2>1, <2>4 DEF ServedOK, Committed, Progress
  <2> QED
    BY <2>3, <2>4
<1>6. CASE TrustBoth \/ SignBoth \/ SignNew \/ TrustNew
  BY <1>2, <1>6 DEF TrustBoth, SignBoth, SignNew, TrustNew, vars
<1>7. CASE Clock
  BY <1>2, <1>7 DEF Clock, Tick
<1>8. ASSUME NEW k \in Key, Send(k) PROVE \A r \in Request : ServedOK(r)'
  BY <1>2, <1>8 DEF Send, vars
<1> QED
  BY <1>2, <1>3, <1>4, <1>5, <1>6, <1>7, <1>8 DEF ExchangeNext, exchangeVars, vars

LEMMA ExchangeInitInv == ExchangeInit => EInv
<1> SUFFICES ASSUME ExchangeInit PROVE EInv
  OBVIOUS
<1>1. IInv /\ scheme \in {"standard", "stripe", "github"} /\ offset \in Int
  BY InitInv, ExchangeAssumption DEF ExchangeInit
<1>2. RotationInv
  BY ExchangeAssumption DEF ExchangeInit, RotationInv, NoTime
<1>3. \A s \in sent : SentOK(s)
  BY DEF ExchangeInit
<1>4. \A q \in Request : arrivals[q] = NotArrived
  BY DEF ExchangeInit
<1>5. ASSUME NEW q \in Request PROVE ServedOK(q)
  <2>1. PICK keyOf \in [Request -> Key] :
          requests = [r \in Request |-> NewRequest(keyOf[r])]
    BY DEF ExchangeInit, Init
  <2>2. requests[q].pc = "new" /\ requests[q].result = "none"
    BY <2>1 DEF NewRequest
  <2> QED
    BY <2>2 DEF ServedOK, Committed
<1>6. ASSUME NEW q \in Request
      PROVE  ArrivalOK(q) /\ AcceptedOK(arrivals[q]) /\ RefusedOK(arrivals[q])
  BY <1>4, NotArrivedIs DEF ArrivalOK, AcceptedOK, RefusedOK
<1>7. arrivals = [q \in Request |-> arrivals[q]]
  BY DEF ExchangeInit
<1> QED
  BY <1>1, <1>2, <1>3, <1>5, <1>6, <1>7 DEF EInv

\* The inductive invariant: every step of the sender, the network, the verifiers,
\* the receiver and a key rotation preserves it.
THEOREM ExchangeInvariance == ExchangeSpec => []EInv
<1>1. ASSUME EInv, [ExchangeNext]_exchangeVars PROVE EInv'
  <2>1. IInv' /\ scheme' = scheme /\ offset' = offset
    BY <1>1, Frame
  <2>2. RotationInv' /\ \A s \in sent' : SentOK(s)'
    BY <1>1, RotationStep, SentStep
  <2>3. /\ arrivals' = [q \in Request |-> arrivals'[q]]
        /\ \A q \in Request :
             ArrivalOK(q)' /\ AcceptedOK(arrivals[q])' /\ RefusedOK(arrivals[q])'
    BY <1>1, ArrivalStep
  <2>4. \A q \in Request : ServedOK(q)'
    BY <1>1, ServedStep
  <2> QED
    BY <1>1, <2>1, <2>2, <2>3, <2>4 DEF EInv
<1> QED
  BY <1>1, ExchangeInitInv, PTL DEF ExchangeSpec

-----------------------------------------------------------------------------
(* What follows. *)

\* The exchange is a receiver in front of which requests are verified: all that
\* ReceiverProofs shows holds here too.
THEOREM ImplementsReceiver == ExchangeSpec => Spec
<1>1. ExchangeInit => Init
  BY DEF ExchangeInit
<1> QED
  BY <1>1, IsReceiverStep, PTL DEF ExchangeSpec, Spec

\* What a handler sees was sent, as far as the scheme signs it, whatever is
\* changed, copied and delayed on the way and however keys are rotated.
THEOREM HandledIsSent == ExchangeSpec => []HandledAsSent
<1>1. EInv => HandledAsSent
  BY DEF EInv, AcceptedOK, HandledAsSent
<1> QED
  BY <1>1, ExchangeInvariance, PTL

\* A request that arrives unchanged and in time, with a valid event type, is
\* never answered 4xx, at any moment of a rotation and whenever a provider fails,
\* if the tolerance is not disabled: the rotation waits for it, and without one
\* nothing tells when the last old request has expired.
THEOREM GenuineAccepted == Tolerance > 0 => (ExchangeSpec => []GenuineIsAccepted)
<1> SUFFICES ASSUME Tolerance > 0 PROVE ExchangeSpec => []GenuineIsAccepted
  OBVIOUS
<1>1. EInv => GenuineIsAccepted
  <2> SUFFICES ASSUME EInv, NEW q \in Request,
                      arrivals[q].verdict = "refused", arrivals[q].packet \in sent,
                      ValidType(arrivals[q].packet), retired < arrivals[q].receivedAt
               PROVE  scheme # "github" /\ ~InWindow(arrivals[q])
    BY DEF GenuineIsAccepted, InWindow
  <2>1. Genuine(arrivals[q].packet)
    BY DEF EInv, SentOK, Genuine
  <2> QED
    BY <2>1 DEF EInv, RefusedOK
<1> QED
  BY <1>1, ExchangeInvariance, PTL

\* The identity of an accepted request is that of the message it was sent for.
LEMMA IdentityIsSigned ==
    ASSUME EInv, scheme # "github", NEW q \in Request, arrivals[q].verdict = "accepted"
    PROVE  /\ arrivals[q].packet.of = KeyOf(q) /\ arrivals[q].packet.body = KeyOf(q)
           /\ arrivals[q].receivedAt \in Nat /\ arrivals[q].packet.ts \in Int
<1>1. ArrivalOK(q) /\ AcceptedOK(arrivals[q]) /\ arrivals[q] # NotArrived
  BY NotArrivedIs DEF EInv
<1>2. ClaimedID(arrivals[q].packet) = KeyOf(q)
  BY <1>1 DEF ArrivalOK
<1>3. arrivals[q].receivedAt \in Nat /\ arrivals[q].packet.ts \in Int
  BY <1>1 DEF ArrivalOK, IsPacket
<1> QED
  BY <1>1, <1>2, <1>3 DEF AcceptedOK, ClaimedID, EInv

\* A 2xx answer to any copy of an attempt means that a handler has succeeded
\* with the body of that message.
THEOREM AnsweredHandled == ExchangeSpec => []AnsweredIsHandled
<1>1. EInv => AnsweredIsHandled
  <2> SUFFICES ASSUME EInv, NEW q \in Request, scheme # "github",
                      arrivals[q].verdict = "accepted",
                      requests[q].response = "success"
               PROVE  \E r \in Request :
                        /\ requests[r].result = "ok"
                        /\ arrivals[r].verdict = "accepted"
                        /\ arrivals[r].packet.body = arrivals[q].packet.of
    BY DEF AnsweredIsHandled
  <2>1. Handled(KeyOf(q))
    BY DEF EInv, IInv, RequestInv
  <2>2. PICK r \in Request : KeyOf(r) = KeyOf(q) /\ requests[r].result = "ok"
    BY <2>1 DEF Handled
  <2>3. arrivals[r].verdict = "accepted"
    BY <2>2 DEF EInv, ServedOK
  <2> QED
    BY <2>2, <2>3, IdentityIsSigned
<1> QED
  BY <1>1, ExchangeInvariance, PTL

\* No copy of an attempt that a handler has accepted is handled again before
\* the end of the replay TTL, counted from the earliest moment at which its
\* timestamp is valid.
THEOREM OnceInWindow == ExchangeSpec => OncePerWindow
<1> DEFINE Once ==
      \A q, r \in Request :
        LET a == arrivals[q] IN
        /\ scheme # "github" /\ Tolerance > 0
        /\ requests[q].pc # "handling" /\ requests'[q].pc = "handling"
        /\ requests[r].result = "ok" /\ requests[r].response = "success"
        /\ arrivals[r].packet = a.packet
        => now >= a.packet.ts - Tolerance + ReplayTTL
<1>1. EInv /\ [ExchangeNext]_exchangeVars => Once
  <2> SUFFICES ASSUME EInv, [ExchangeNext]_exchangeVars,
                      NEW q \in Request, NEW r \in Request,
                      scheme # "github", Tolerance > 0,
                      requests[q].pc # "handling", requests'[q].pc = "handling",
                      Committed(r), arrivals[r].packet = arrivals[q].packet
               PROVE  now >= arrivals[q].packet.ts - Tolerance + ReplayTTL
    BY DEF Committed
  <2>1. IInv /\ [Next]_vars
    BY IsReceiverStep DEF EInv
  <2>2. ClaimNew(q)
    BY <2>1, StartsByClaim
  <2>3. Free(q) /\ requests[q].pc = "claiming"
    BY <2>2 DEF ClaimNew, Free
  <2>4. r # q
    BY <2>1, <2>3 DEF IInv, RequestInv, Progress, Committed
  <2>5. arrivals[q].verdict = "accepted" /\ arrivals[r].verdict = "accepted"
    BY <2>3 DEF EInv, ServedOK, Committed
  <2>6. KeyOf(r) = KeyOf(q)
    BY <2>5, IdentityIsSigned
  <2>7. requests[r].expiresAt <= now
    BY <2>1, <2>3, <2>4, <2>6, Alone
  <2>8. requests[r].expiresAt >= arrivals[r].receivedAt + ReplayTTL
    BY DEF EInv, ServedOK
  <2>9. arrivals[r].packet.ts - Tolerance <= arrivals[r].receivedAt
    BY <2>5 DEF EInv, AcceptedOK
  <2>10. /\ requests[r].expiresAt \in Int /\ arrivals[r].receivedAt \in Nat
         /\ arrivals[r].packet.ts \in Int /\ now \in Nat
         /\ Tolerance \in Nat /\ ReplayTTL \in Nat
    BY <2>1, <2>5, IdentityIsSigned, ReceiverAssumption, ExchangeAssumption
    DEF IInv, TypeOK, RequestState, NoTime
  <2> QED
    BY <2>7, <2>8, <2>9, <2>10
<1>2. ExchangeSpec => [][Once]_exchangeVars
  BY <1>1, ExchangeInvariance, PTL DEF ExchangeSpec
<1> QED
  BY <1>2 DEF OncePerWindow
=============================================================================
