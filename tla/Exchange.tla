------------------------------- MODULE Exchange -------------------------------
(***************************************************************************)
(* A sender, the network and a receiver together: Sender.Send and the      *)
(* signers (src/sender.go, src/standard/standard.go), the verifiers        *)
(* (src/standard, src/provider/stripe, src/provider/github) in front of    *)
(* the Receiver and its replay guard, while the signing keys are rotated.  *)
(* Every step is a step of Receiver or leaves its variables alone.         *)
(*                                                                         *)
(* Cryptography is symbolic: a signature is the pair of a key and the      *)
(* content it covers, and a changed content has no signature of its own.   *)
(* The network loses, delays, repeats and reorders what was sent (`sent'   *)
(* never shrinks, a request may carry any of it), and an intermediary may  *)
(* change a header or the body on the way.  Stripe and GitHub as senders   *)
(* are external, modelled from what their verifiers expect.                *)
(*                                                                         *)
(* Time is counted in ticks, `Second' of them per second; signed           *)
(* timestamps are whole seconds of the sender's clock.                     *)
(***************************************************************************)
EXTENDS Receiver

CONSTANTS
    OldKey, NewKey,   \* the signing key before and after the rotation
    Pairing,          \* the pairs of a sender and a verifier, as below
    Second,
    Tolerance,        \* the verifiers' timestamp tolerance; 0 disables it
    DurationLimit,    \* the largest time.Duration
    NoPacket,
    MaxSends          \* bound: attempts, of all messages together

ASSUME ExchangeAssumption ==
    /\ OldKey # NewKey
    /\ Pairing \subseteq [scheme    : {"standard", "stripe", "github"},
                           offset    : Int,
                           eventType : [Key -> {"valid", "invalid", "none"}]]
    /\ Second \in Nat \ {0}
    /\ Tolerance \in Nat
    /\ DurationLimit \in Nat /\ Tolerance < DurationLimit
    /\ MaxSends \in Nat

VARIABLES
    scheme,    \* the scheme this pair uses
    offset,    \* how far the sender's clock is ahead of the receiver's
    eventType, \* what is read of each message as its event type
    sent,      \* the requests the sender has put on the network
    arrivals,  \* what each request carries, when it was read, how it was judged
    signing,   \* the keys the sender's provider returns
    trusted,   \* the keys the verifier's provider returns
    switched,  \* when the sender began to sign with NewKey
    retired    \* when the verifier ceased to trust OldKey

pair == << scheme, offset, eventType >>
keys == << signing, trusted, switched, retired >>
exchangeVars == << vars, pair, sent, arrivals, keys >>

Arrival(packet, receivedAt, verdict) ==
    [packet |-> packet, receivedAt |-> receivedAt, verdict |-> verdict]

NotArrived == Arrival(NoPacket, NoTime, "none")

ExchangeInit ==
    /\ Init
    /\ \E p \in Pairing :
         scheme = p.scheme /\ offset = p.offset /\ eventType = p.eventType
    /\ sent = {}
    /\ arrivals = [q \in Request |-> NotArrived]
    /\ signing = {OldKey} /\ trusted = {OldKey}
    /\ switched = NoTime /\ retired = NoTime

-----------------------------------------------------------------------------
(* The sender. *)

\* Faulty: the message id is not signed.
UnboundContent(id, ts, body) == << ts, body >>

\* What Standard Webhooks signs: id, timestamp and body.
SignedContent(id, ts, body) == << id, ts, body >>

\* What a scheme's signatures cover.
Covered(id, ts, body) ==
    CASE scheme = "standard" -> SignedContent(id, ts, body)
      [] scheme = "stripe"   -> << ts, body >>
      [] scheme = "github"   -> << body >>

\* Signers and verifiers want between one and sixteen keys.
ValidKeys(ring) == Cardinality(ring) \in 1 .. 16

\* Faulty: one signature, whatever keys are active.
SignOne(content) == { << CHOOSE key \in signing : TRUE, content >> }

\* HMACSigner.Sign and Ed25519Signer.Sign: one signature per active key.
Sign(content) == { << key, content >> : key \in signing }

\* Timestamp.Unix() of the sender's clock.
Timestamp == Second * ((now + offset) \div Second)

\* One attempt: a new timestamp and new signatures for the same id and body.
\* A message is its own body here, `id' names the same message in a header.
Send(k) ==
    LET packet == [id |-> k, body |-> k, ts |-> Timestamp, of |-> k,
                   signatures |-> Sign(Covered(k, Timestamp, k))] IN
    /\ Cardinality(sent) < MaxSends
    /\ ValidKeys(signing)
    /\ sent' = sent \cup {packet}
    /\ UNCHANGED << vars, pair, arrivals, keys >>

-----------------------------------------------------------------------------
(* The network. *)

\* What may arrive of a packet: the packet, or one with its id, its body or
\* its timestamp changed.
Arriving(p) ==
    {p} \cup { [p EXCEPT !.id = k] : k \in Key }
        \cup { [p EXCEPT !.body = k] : k \in Key }
        \cup { [p EXCEPT !.ts = Second * (now \div Second)] }

\* The identity a request claims: Stripe has it in the body, not in a header.
ClaimedID(p) == IF scheme = "stripe" THEN p.body ELSE p.id

\* The head of ServeHTTP up to the clock reading.  A request refused for its
\* method, encoding or size, or whose body could not be read, is one that
\* never arrives.
Arrive(q) ==
    /\ requests[q].pc = "new" /\ arrivals[q] = NotArrived
    /\ \E p \in sent : \E packet \in Arriving(p) :
        /\ ClaimedID(packet) = KeyOf(q)
        /\ arrivals' = [arrivals EXCEPT ![q] = Arrival(packet, now, "none")]
    /\ UNCHANGED << vars, pair, sent, keys >>

-----------------------------------------------------------------------------
(* The verifiers. *)

\* time.Time.Sub saturates.
Sub(t, u) ==
    IF t - u > DurationLimit THEN DurationLimit
    ELSE IF t - u < -DurationLimit - 1 THEN -DurationLimit - 1
    ELSE t - u

\* Faulty, v0.1.0: the absolute value of the smallest duration is negative.
OutsideByNegation(receivedAt, ts) ==
    LET d   == Sub(receivedAt, ts)
        abs == IF d = -DurationLimit - 1 THEN d ELSE IF d < 0 THEN -d ELSE d IN
    abs > Tolerance

OutsideTolerance(receivedAt, ts) ==
    IF ts > receivedAt THEN Sub(ts, receivedAt) > Tolerance
    ELSE Sub(receivedAt, ts) > Tolerance

\* How many signatures parseSignatures and, for Stripe, parseHeader let pass.
ParseSignatures(p) == Cardinality(p.signatures) \in 1 .. 32

ParseHeader(p) == Cardinality(p.signatures) \in 1 .. 16

\* ValidateEventType.
ValidType(p) == eventType[p.body] = "valid"

\* The timestamp and the signatures are looked at before keys are asked for.
WithinTolerance(p, receivedAt) == ~(Tolerance > 0 /\ OutsideTolerance(receivedAt, p.ts))

\* Any key the providers returned may match any of the signatures.
VerifyAny(ring, content, signatures) ==
    /\ ValidKeys(ring)
    /\ \E key \in ring : << key, content >> \in signatures

\* config.ExtractType gives a type or an error ("none"): JSONTypeField never an
\* invalid type, an application's extractor may; without an extractor
\* (AllowNoType) every type is "unknown", which is valid.
ExtractType(p) == eventType[p.body] # "none"

\* standard.Verifier.Verify.
StandardAccepts(p, receivedAt, ring) ==
    /\ WithinTolerance(p, receivedAt)
    /\ ParseSignatures(p)
    /\ VerifyAny(ring, SignedContent(p.id, p.ts, p.body), p.signatures)
    /\ ExtractType(p)

\* stripe.Verifier.Verify has one secret; the header may have several v1.  The
\* id and the type are read from the body.
StripeAccepts(p, receivedAt, ring) ==
    /\ ParseHeader(p)
    /\ WithinTolerance(p, receivedAt)
    /\ VerifyAny(ring, << p.ts, p.body >>, p.signatures)
    /\ ValidType(p)

\* github.Verifier.Verify: no timestamp, and the id header is not covered.  The
\* event header is taken to come with its body.
GitHubAccepts(p, ring) ==
    /\ VerifyAny(ring, << p.body >>, p.signatures)
    /\ ValidType(p)

Accepts(p, receivedAt, ring) ==
    \/ scheme = "standard" /\ StandardAccepts(p, receivedAt, ring)
    \/ scheme = "stripe" /\ StripeAccepts(p, receivedAt, ring)
    \/ scheme = "github" /\ GitHubAccepts(p, ring)

\* The request passes what is checked before the providers are asked.
Asks(p, receivedAt) ==
    \/ scheme = "standard" /\ WithinTolerance(p, receivedAt) /\ ParseSignatures(p)
    \/ scheme = "stripe" /\ WithinTolerance(p, receivedAt) /\ ParseHeader(p)
    \/ scheme = "github"

\* VerifiedMessage.Validate, on what the verifier returned.  Ids and the name of
\* the source are valid here.
Validate(p) == ValidType(p)

\* The receiver's answer to a verifier's error: a 500 when the keys could not be
\* had, otherwise the 4xx of an invalid webhook.
Verdict(p, receivedAt, ring) ==
    IF Accepts(p, receivedAt, ring) /\ Validate(p) THEN "accepted"
    ELSE IF Asks(p, receivedAt) /\ ~ValidKeys(ring) THEN "unavailable"
    ELSE "refused"

\* Verify asks for the keys at some time after receivedAt was taken.  A provider
\* returns those in use, or fails and returns none.
Judge(q) ==
    \E ring \in {trusted, {}} :
        LET packet     == arrivals[q].packet
            receivedAt == arrivals[q].receivedAt
            verdict    == Verdict(packet, receivedAt, ring) IN
        /\ arrivals[q] # NotArrived
        /\ IF verdict = "accepted" THEN Verify(q) ELSE Reject(q)
        /\ arrivals' = [arrivals EXCEPT ![q] = Arrival(packet, receivedAt, verdict)]
        /\ UNCHANGED << pair, sent, keys >>

\* What Receiver does after the verification.
Serve(q) ==
    /\ Step(q) \/ Cancel(q)
    /\ UNCHANGED << pair, sent, arrivals, keys >>

Clock ==
    /\ Tick
    /\ UNCHANGED << pair, sent, arrivals, keys >>

-----------------------------------------------------------------------------
(* A key rotation, as an operator would do it with providers that return   *)
(* more than one key.  GitHub sends one signature and has none.            *)

\* The verifier trusts both keys.  Stripe's has a single secret.
TrustBoth ==
    /\ scheme = "standard"
    /\ trusted = {OldKey}
    /\ trusted' = {OldKey, NewKey}
    /\ UNCHANGED << vars, pair, sent, arrivals, signing, switched, retired >>

\* The sender signs with both keys.
SignBoth ==
    /\ scheme # "github"
    /\ signing = {OldKey}
    /\ signing' = {OldKey, NewKey}
    /\ switched' = now
    /\ UNCHANGED << vars, pair, sent, arrivals, trusted, retired >>

\* The sender signs with the new key only, once it is trusted.
SignNew ==
    /\ NewKey \in trusted
    /\ signing # {NewKey}
    /\ signing' = {NewKey}
    /\ switched' = IF switched = NoTime THEN now ELSE switched
    /\ UNCHANGED << vars, pair, sent, arrivals, trusted, retired >>

\* The verifier drops the old key when every request without a signature of
\* the new one has left the tolerance.
TrustNew ==
    /\ NewKey \in signing
    /\ now > switched + offset + Tolerance
    /\ trusted # {NewKey}
    /\ trusted' = {NewKey}
    /\ retired' = now
    /\ UNCHANGED << vars, pair, sent, arrivals, signing, switched >>

-----------------------------------------------------------------------------
ExchangeNext ==
    \/ Clock
    \/ \E k \in Key : Send(k)
    \/ \E q \in Request : Arrive(q) \/ Judge(q) \/ Serve(q)
    \/ TrustBoth \/ SignBoth \/ SignNew \/ TrustNew

ExchangeSpec == ExchangeInit /\ [][ExchangeNext]_exchangeVars

-----------------------------------------------------------------------------
(* Properties. *)

\* What a request carried is what the sender sent, as far as the scheme's
\* signature reaches.
AsSent(p) ==
    \E s \in sent : /\ s.body = p.body
                    /\ scheme # "github" => s.ts = p.ts
                    /\ scheme = "standard" => s.id = p.id

\* A handler sees only what the sender sent: the body always, the timestamp
\* and the id it is deduplicated by wherever the scheme signs them, through
\* every change on the way and every phase of a key rotation.
HandledAsSent ==
    \A q \in Request :
        arrivals[q].verdict = "accepted" => AsSent(arrivals[q].packet)

\* A request that arrives unchanged, with a timestamp within the tolerance
\* (its ends included) and a valid event type, is never answered 4xx, which
\* its sender takes for a permanent failure: not at any moment of a rotation that
\* waits for old requests to expire, unless the old key was dropped while the
\* request was being verified, and not when a provider fails, which must cost
\* a retry and not the message.
GenuineIsAccepted ==
    \A q \in Request :
        LET a == arrivals[q] IN
        /\ a.verdict = "refused"
        /\ a.packet \in sent
        /\ ValidType(a.packet)
        /\ retired < a.receivedAt
        => /\ scheme # "github"
           /\ Tolerance > 0
           /\ a.packet.ts \notin (a.receivedAt - Tolerance) .. (a.receivedAt + Tolerance)

\* A 2xx answer to any copy of an attempt, which the sender records as
\* delivered, means that a handler has succeeded with the body of that
\* message.  GitHub's id header is not signed, so this is not claimed there.
AnsweredIsHandled ==
    \A q \in Request :
        /\ scheme # "github"
        /\ arrivals[q].verdict = "accepted"
        /\ requests[q].response = "success"
        => \E r \in Request : /\ requests[r].result = "ok"
                              /\ arrivals[r].verdict = "accepted"
                              /\ arrivals[r].packet.body = arrivals[q].packet.of

\* An attempt that a handler has accepted is not handled again, by whatever
\* copy of it, before the end of the replay TTL counted from the earliest
\* moment its timestamp is valid: with the default TTL, twice the tolerance,
\* not before the last moment the timestamp is valid.
OncePerWindow ==
    [][\A q, r \in Request :
        LET a == arrivals[q] IN
        /\ scheme # "github" /\ Tolerance > 0
        /\ requests[q].pc # "handling" /\ requests'[q].pc = "handling"
        /\ requests[r].result = "ok" /\ requests[r].response = "success"
        /\ arrivals[r].packet = a.packet
        => now >= a.packet.ts - Tolerance + ReplayTTL]_exchangeVars
=============================================================================
