--------------------------- MODULE PublicationProofs --------------------------
(***************************************************************************)
(* Safety of publishing for any calls, transactions of callers, keys,      *)
(* message IDs and retention periods.                                      *)
(*                                                                         *)
(* A step of a publication, a COMMIT or a rollback changes several calls   *)
(* and tables at once.  So that one lemma can speak of the tables before   *)
(* and after it, the operators here take them as arguments: cs for calls,  *)
(* ms for messages, ds for deliveries, cl for cleaner and t for now.       *)
(***************************************************************************)
EXTENDS Publication, TLAPS

-----------------------------------------------------------------------------
(* What transactions hold and see, as in Publication. *)

Named(cs, c) == IF cs[c].request.id = NoID THEN c ELSE cs[c].request.id

Sends(cs, c) == cs[c].pc = "commit" /\ cs[c].answer = c

Own(cs, c, m) == { o \in Tx(c) : cs[o].inserted = "yes" /\ Named(cs, o) = m }

Sees(cs, ms, c, m) ==
    LET o == CHOOSE o \in Own(cs, c, m) : TRUE IN
    IF Own(cs, c, m) = {} THEN ms[m]
    ELSE Message(cs[o].request.content, cs[o].createdAt)

Running(cs, c) == cs[c].pc \notin Resting \cup Outcomes

Refers(ds, d, m) == ds[d].state # "absent" /\ ds[d].message = m

\* A message that no Cleanup can have replaced: its ID was generated, or no
\* message is old enough to be removed.
Protected(m, t) == m \in Call \/ OrphanRetention = 0 \/ t <= OrphanRetention

\* A delivery is what a request asks for, but for the content of its message.
Fits(r, key, target, message) ==
    r.key = key /\ r.target = target /\ (r.id # NoID => r.id = message)

-----------------------------------------------------------------------------
(* The parts of the inductive invariant. *)

Types(cs, ms, ds, cl, t) ==
    /\ t \in Nat
    /\ ms \in [MessageID -> MessageRow]
    /\ ds \in [Call -> DeliveryRow]
    /\ cs \in [Call -> CallState]
    /\ cl \in CleanerState

\* Of one call: it has inserted nothing before its INSERT, knows its answer
\* once it needs it, and only a caller's transaction outlives a refusal.
CallOK(c, x) ==
    /\ x.pc \in {"new", "find", "clock", "message", "existing"} \cup Outcomes =>
         x.inserted = "no"
    /\ x.pc \in {"unwind", "commit", "published"} => x.answer \in Call
    /\ x.pc = "unwind" => x.answer # c /\ x.inserted = "yes"
    /\ x.pc = "refused" => c \in CallerTx

CallInv(cs) ==
    /\ \A c \in Call : CallOK(c, cs[c])
    /\ \A c \in Call : \A o \in Tx(c) : Running(cs, c) /\ Running(cs, o) => o = c

\* One transaction at a time has a message in the unique index uncommitted, and
\* then it is not in the table.
InsertInv(cs, ms) ==
    /\ \A o \in Call : cs[o].inserted # "no" => ~ms[Named(cs, o)].live
    /\ \A o, p \in Call :
         /\ cs[o].inserted # "no" /\ cs[p].inserted # "no"
         /\ Named(cs, o) = Named(cs, p)
         => p \in Tx(o) /\ (cs[o].inserted = "yes" /\ cs[p].inserted = "yes" => p = o)
    /\ \A m \in Call : ms[m].live => cs[m].pc \in Outcomes

\* The foreign key; a delivery is committed when its call ends.
RowInv(cs, ms, ds) ==
    \A d \in Call : ds[d].state # "absent" =>
        /\ cs[d].pc \in Outcomes
        /\ ds[d].message \in MessageID
        /\ ms[ds[d].message].live
        /\ ds[d].message \in Call => ds[d].message = d

\* An uncommitted delivery locks its message.
LockInv(cs, ms, cl) ==
    \A c \in Call : Sends(cs, c) =>
        /\ Sees(cs, ms, c, Named(cs, c)).live
        /\ ~(cl.step = "deleted" /\ Named(cs, c) \in cl.orphans)

\* The unique index on keys, committed and uncommitted.
KeyInv(cs, ds) ==
    /\ \A d, e \in Call :
         /\ ds[d].state # "absent" /\ ds[e].state # "absent"
         /\ ds[d].key = ds[e].key /\ ds[d].key # NoKey
         => d = e
    /\ \A o \in Call : Sends(cs, o) /\ cs[o].request.key # NoKey =>
         /\ \A d \in Call : ds[d].state # "absent" => ds[d].key # cs[o].request.key
         /\ \A p \in Call : Sends(cs, p) /\ cs[p].request.key = cs[o].request.key => p = o

\* A message that a transaction is about to commit has a delivery in it.
UsedInv(cs) ==
    \A o \in Call : cs[o].pc = "commit" /\ cs[o].inserted = "yes" =>
        \E d \in Tx(o) : Sends(cs, d) /\ Named(cs, d) = Named(cs, o)

\* The delivery a call answers with is one of its own transaction or one that
\* was committed, and what was asked for as long as it exists.
OwnAnswer(cs, ms, t, c, d) ==
    /\ cs[c].pc # "published" /\ d \in Tx(c) /\ Sends(cs, d)
    /\ Fits(cs[c].request, cs[d].request.key, cs[d].request.target, Named(cs, d))
    /\ Protected(Named(cs, d), t) =>
         Sees(cs, ms, c, Named(cs, d)).content = cs[c].request.content

OldAnswer(cs, ms, ds, t, c, d) ==
    /\ cs[d].pc \in Outcomes
    /\ ds[d].state # "absent" =>
         /\ Fits(cs[c].request, ds[d].key, ds[d].target, ds[d].message)
         /\ Protected(ds[d].message, t) =>
              ms[ds[d].message].content = cs[c].request.content

AnswerInv(cs, ms, ds, t) ==
    \A c \in Call : cs[c].pc \in {"unwind", "commit", "published"} =>
        \/ OwnAnswer(cs, ms, t, c, cs[c].answer)
        \/ OldAnswer(cs, ms, ds, t, c, cs[c].answer)

\* The message a delivery is about to be inserted for has the content asked for.
BackedInv(cs, ms, t) ==
    \A c \in Call : cs[c].pc = "delivery" /\ Protected(Named(cs, c), t) =>
        /\ Sees(cs, ms, c, Named(cs, c)).live
        /\ Sees(cs, ms, c, Named(cs, c)).content = cs[c].request.content

\* Cleanup removes terminal deliveries and, with a message that a caller named,
\* the deliveries it has by then; a generated message has none left.
CleanInv(cs, ds, cl, t) ==
    /\ cl.now <= t
    /\ cl.step \in {"idle", "deliveries"} => cl.orphans = {}
    /\ cl.orphans # {} => OrphanRetention > 0 /\ t > OrphanRetention
    /\ \A m \in cl.orphans \cap Call :
         cs[m].pc \in Outcomes /\ \A d \in Call \ cl.removed : ~Refers(ds, d, m)
    /\ \A d \in cl.removed :
         /\ ds[d].state # "absent"
         /\ ds[d].state = "pending" => ds[d].message \notin Call
    /\ cl.step = "deleted" =>
         \A m \in cl.orphans, d \in Call : Refers(ds, d, m) => d \in cl.removed

Inv(cs, ms, ds, cl, t) ==
    /\ Types(cs, ms, ds, cl, t)
    /\ CallInv(cs)
    /\ InsertInv(cs, ms)
    /\ RowInv(cs, ms, ds)
    /\ LockInv(cs, ms, cl)
    /\ KeyInv(cs, ds)
    /\ UsedInv(cs)
    /\ AnswerInv(cs, ms, ds, t)
    /\ BackedInv(cs, ms, t)
    /\ CleanInv(cs, ds, cl, t)

\* The inductive invariant.
IInv == Inv(calls, messages, deliveries, cleaner, now)

-----------------------------------------------------------------------------
(* Transactions. *)

LEMMA TxIs ==
    ASSUME NEW c \in Call
    PROVE  /\ c \in Tx(c) /\ Tx(c) \subseteq Call
           /\ \A o \in Tx(c) : Tx(o) = Tx(c)
           /\ \A o \in Call : o \notin Tx(c) => \A p \in Tx(o) : p \notin Tx(c)
  BY PublicationAssumption DEF Tx

LEMMA NamedIs ==
    ASSUME NEW cs \in [Call -> CallState], NEW c \in Call
    PROVE  /\ Named(cs, c) \in MessageID
           /\ Named(cs, c) \in Call => Named(cs, c) = c
  BY PublicationAssumption DEF Named, CallState, RequestRow, MessageID

\* What a transaction sees of a message depends on its own insert of it, if it
\* has one.
LEMMA SeesOwn ==
    ASSUME NEW cs, NEW ms, InsertInv(cs, ms), NEW c \in Call, NEW o \in Tx(c),
           cs[o].inserted = "yes"
    PROVE  Sees(cs, ms, c, Named(cs, o)) =
             Message(cs[o].request.content, cs[o].createdAt)
<1>1. o \in Call /\ \A p \in Tx(c) : p \in Call
  BY TxIs
<1>2. Own(cs, c, Named(cs, o)) = {o}
  <2>1. ASSUME NEW p \in Tx(c), cs[p].inserted = "yes", Named(cs, p) = Named(cs, o)
        PROVE  p = o
    BY <1>1, <2>1 DEF InsertInv
  <2> QED
    BY <2>1 DEF Own
<1>3. (CHOOSE p \in {o} : TRUE) = o
  OBVIOUS
<1> QED
  BY <1>2, <1>3 DEF Sees

LEMMA SeesTable ==
    ASSUME NEW cs, NEW ms, NEW c \in Call, NEW m,
           \A o \in Tx(c) : cs[o].inserted = "yes" => Named(cs, o) # m
    PROVE  Sees(cs, ms, c, m) = ms[m]
<1>1. Own(cs, c, m) = {}
  BY DEF Own
<1> QED
  BY <1>1 DEF Sees

\* What it sees and is not in the table is an insert of its own.
LEMMA SeesNew ==
    ASSUME NEW cs, NEW ms, NEW c \in Call, NEW m,
           Sees(cs, ms, c, m).live # ms[m].live
    PROVE  Own(cs, c, m) # {}
  BY DEF Sees

\* It stays the same when neither changes.
SameOwn(cs, cs2, c, m) ==
    \A o \in Tx(c) :
        /\ cs2[o].inserted = "yes" /\ Named(cs2, o) = m <=>
             cs[o].inserted = "yes" /\ Named(cs, o) = m
        /\ cs[o].inserted = "yes" /\ Named(cs, o) = m =>
             /\ cs2[o].request = cs[o].request
             /\ cs2[o].createdAt = cs[o].createdAt

LEMMA SeesSame ==
    ASSUME NEW cs, NEW ms, NEW cs2, NEW ms2, NEW c \in Call, NEW m,
           ms2[m] = ms[m], SameOwn(cs, cs2, c, m)
    PROVE  Sees(cs2, ms2, c, m) = Sees(cs, ms, c, m)
<1> DEFINE S == Own(cs, c, m)
           o == CHOOSE o \in S : TRUE
<1>1. Own(cs2, c, m) = S
  BY DEF Own, SameOwn
<1>2. CASE S = {}
  BY <1>1, <1>2 DEF Sees
<1>3. CASE S # {}
  <2>1. o \in S
    BY <1>3
  <2>2. o \in Tx(c) /\ cs[o].inserted = "yes" /\ Named(cs, o) = m
    BY <2>1 DEF Own
  <2>3. /\ Sees(cs2, ms2, c, m) = Message(cs2[o].request.content, cs2[o].createdAt)
        /\ Sees(cs, ms, c, m) = Message(cs[o].request.content, cs[o].createdAt)
    BY <1>1, <1>3 DEF Sees
  <2> HIDE DEF o
  <2> QED
    BY <2>2, <2>3 DEF SameOwn
<1> QED
  BY <1>2, <1>3

\* The calls of one transaction see the same.
LEMMA SeesTx ==
    ASSUME NEW cs, NEW ms, NEW c \in Call, NEW o \in Tx(c), NEW m
    PROVE  Sees(cs, ms, o, m) = Sees(cs, ms, c, m)
<1>1. Own(cs, o, m) = Own(cs, c, m)
  BY TxIs DEF Own
<1> QED
  BY <1>1 DEF Sees

LEMMA SeesType ==
    ASSUME NEW cs \in [Call -> CallState], NEW ms \in [MessageID -> MessageRow],
           NEW c \in Call, NEW m \in MessageID
    PROVE  Sees(cs, ms, c, m) \in MessageRow
<1> DEFINE S == Own(cs, c, m)
           o == CHOOSE o \in S : TRUE
<1>1. CASE S = {}
  BY <1>1 DEF Sees
<1>2. CASE S # {}
  <2>1. o \in S
    BY <1>2
  <2>2. o \in Call
    BY <2>1, TxIs DEF Own
  <2>3. Sees(cs, ms, c, m) = Message(cs[o].request.content, cs[o].createdAt)
    BY <1>2 DEF Sees
  <2> HIDE DEF o
  <2>4. cs[o].request.content \in Content \cup {NoContent} /\ cs[o].createdAt \in Nat
    BY <2>2 DEF CallState, RequestRow
  <2> QED
    BY <2>3, <2>4 DEF Message, MessageRow
<1> QED
  BY <1>1, <1>2

\* A message that is in the table has no uncommitted insert.
LEMMA SeesLive ==
    ASSUME NEW cs, NEW ms, InsertInv(cs, ms), NEW c \in Call, NEW m, ms[m].live
    PROVE  Sees(cs, ms, c, m) = ms[m]
<1>1. \A o \in Tx(c) : cs[o].inserted = "yes" => Named(cs, o) # m
  BY TxIs DEF InsertInv
<1> QED
  BY <1>1, SeesTable

LEMMA MessageIsLive ==
    ASSUME NEW b, NEW t
    PROVE  Message(b, t).live /\ Message(b, t).content = b
  BY DEF Message

-----------------------------------------------------------------------------
(* Steps of one call that insert and delete nothing. *)

\* One call changes.
Becomes(cs, cs2, c, x) == cs2 = [cs EXCEPT ![c] = x]

LEMMA PlainStep ==
    ASSUME NEW cs, NEW ms, NEW ds, NEW cl, NEW t, Inv(cs, ms, ds, cl, t),
           NEW c \in Call, NEW x \in CallState, NEW cs2, Becomes(cs, cs2, c, x),
           cs[c].pc \notin Outcomes \cup {"commit", "refused"},
           x.pc \notin Outcomes, x.pc = "commit" => x.answer # c,
           CallOK(c, x),
           x.inserted = cs[c].inserted,
           x.request = cs[c].request \/ x.inserted = "no",
           x.createdAt = cs[c].createdAt \/ x.inserted = "no",
           Running(cs, c) \/ \A o \in Tx(c) : ~Running(cs, o),
           x.pc = "commit" /\ x.inserted = "yes" =>
             \E d \in Tx(c) : Sends(cs, d) /\ Named(cs, d) = Named(cs, c),
           x.pc \in {"unwind", "commit"} =>
             /\ x.request = cs[c].request
             /\ \/ OwnAnswer(cs, ms, t, c, x.answer)
                \/ OldAnswer(cs, ms, ds, t, c, x.answer),
           x.pc = "delivery" /\ Protected(Named(cs, c), t) =>
             /\ Sees(cs, ms, c, Named(cs, c)).live
             /\ Sees(cs, ms, c, Named(cs, c)).content = cs[c].request.content,
           x.pc = "delivery" => x.request = cs[c].request
    PROVE  Inv(cs2, ms, ds, cl, t)
<1>1. /\ cs \in [Call -> CallState] /\ cs2 \in [Call -> CallState]
      /\ cs2[c] = x /\ \A o \in Call : o # c => cs2[o] = cs[o]
  BY DEF Inv, Types, Becomes
<1>2. \A o \in Call : /\ Sends(cs2, o) <=> Sends(cs, o)
                      /\ Sends(cs, o) => cs2[o] = cs[o]
                      /\ cs2[o].inserted = cs[o].inserted
                      /\ cs2[o].pc \in Outcomes <=> cs[o].pc \in Outcomes
  BY <1>1 DEF Sends
<1>3. \A o \in Call : cs[o].inserted # "no" \/ Sends(cs, o) => Named(cs2, o) = Named(cs, o)
  BY <1>1, <1>2 DEF Named
<1>4. ASSUME NEW o \in Call, NEW m PROVE Sees(cs2, ms, o, m) = Sees(cs, ms, o, m)
  <2>1. SameOwn(cs, cs2, o, m)
    BY <1>1, <1>2, <1>3, TxIs DEF SameOwn
  <2> QED
    BY <2>1, SeesSame
<1>5. Types(cs2, ms, ds, cl, t)
  BY <1>1 DEF Inv, Types
<1>6. CallInv(cs2)
  <2>1. \A o \in Call : CallOK(o, cs2[o])
    BY <1>1 DEF Inv, CallInv
  <2>2. ASSUME NEW o \in Call, NEW p \in Tx(o), Running(cs2, o), Running(cs2, p)
        PROVE  p = o
    <3>1. p \in Call /\ o \in Tx(p)
      BY TxIs
    <3>2. CASE o # c /\ p # c
      BY <1>1, <2>2, <3>1, <3>2 DEF Running, Inv, CallInv
    <3>3. CASE o = c /\ p # c
      BY <1>1, <2>2, <3>1, <3>3 DEF Running, Inv, CallInv
    <3>4. CASE o # c /\ p = c
      BY <1>1, <2>2, <3>1, <3>4 DEF Running, Inv, CallInv
    <3> QED
      BY <3>2, <3>3, <3>4
  <2> QED
    BY <2>1, <2>2 DEF CallInv
<1>7. InsertInv(cs2, ms)
  BY <1>2, <1>3 DEF Inv, InsertInv
<1>8. RowInv(cs2, ms, ds)
  BY <1>2 DEF Inv, RowInv
<1>9. LockInv(cs2, ms, cl)
  BY <1>2, <1>3, <1>4 DEF Inv, LockInv
<1>10. KeyInv(cs2, ds)
  BY <1>2 DEF Inv, KeyInv
<1>11. UsedInv(cs2)
  <2> SUFFICES ASSUME NEW o \in Call, cs2[o].pc = "commit", cs2[o].inserted = "yes"
               PROVE  \E d \in Tx(o) : Sends(cs2, d) /\ Named(cs2, d) = Named(cs2, o)
    BY DEF UsedInv
  <2>1. PICK d \in Tx(o) : Sends(cs, d) /\ Named(cs, d) = Named(cs, o)
    BY <1>1 DEF Inv, UsedInv
  <2> QED
    BY <1>2, <1>3, <2>1, TxIs
<1>12. AnswerInv(cs2, ms, ds, t)
  <2> SUFFICES ASSUME NEW o \in Call, cs2[o].pc \in {"unwind", "commit", "published"}
               PROVE  \/ OwnAnswer(cs2, ms, t, o, cs2[o].answer)
                      \/ OldAnswer(cs2, ms, ds, t, o, cs2[o].answer)
    BY DEF AnswerInv
  <2> DEFINE d == cs2[o].answer
  <2>1. /\ d \in Call /\ cs2[o].request = cs[o].request
        /\ cs2[o].pc = "published" <=> cs[o].pc = "published"
        /\ OwnAnswer(cs, ms, t, o, d) \/ OldAnswer(cs, ms, ds, t, o, d)
    <3>1. CASE o = c
      BY <1>1, <3>1 DEF CallOK, Outcomes
    <3>2. CASE o # c
      BY <1>1, <3>2 DEF Inv, AnswerInv, CallInv, CallOK
    <3> QED
      BY <3>1, <3>2
  <2> HIDE DEF d
  <2>2. CASE OwnAnswer(cs, ms, t, o, d)
    BY <1>2, <1>3, <1>4, <2>1, <2>2 DEF OwnAnswer, d
  <2>3. CASE OldAnswer(cs, ms, ds, t, o, d)
    BY <1>2, <2>1, <2>3 DEF OldAnswer, d
  <2> QED
    BY <2>1, <2>2, <2>3
<1>13. BackedInv(cs2, ms, t)
  <2> SUFFICES ASSUME NEW o \in Call, cs2[o].pc = "delivery", Protected(Named(cs2, o), t)
               PROVE  /\ Sees(cs2, ms, o, Named(cs2, o)).live
                      /\ Sees(cs2, ms, o, Named(cs2, o)).content = cs2[o].request.content
    BY DEF BackedInv
  <2>1. Named(cs2, o) = Named(cs, o) /\ cs2[o].request = cs[o].request
    BY <1>1 DEF Named
  <2>2. /\ Sees(cs, ms, o, Named(cs, o)).live
        /\ Sees(cs, ms, o, Named(cs, o)).content = cs[o].request.content
    BY <1>1, <2>1 DEF Inv, BackedInv
  <2> QED
    BY <1>4, <2>1, <2>2
<1>14. CleanInv(cs2, ds, cl, t)
  BY <1>2 DEF Inv, CleanInv
<1> QED
  BY <1>5, <1>6, <1>7, <1>8, <1>9, <1>10, <1>11, <1>12, <1>13, <1>14 DEF Inv

-----------------------------------------------------------------------------
(* Steps that insert or delete a message, uncommitted. *)

\* The invariant follows from what becomes of the unique index, if no delivery
\* of the transaction refers to the message.
LEMMA MessageStep ==
    ASSUME NEW cs, NEW ms, NEW ds, NEW cl, NEW t, Inv(cs, ms, ds, cl, t),
           NEW c \in Call, NEW x \in CallState, NEW cs2, Becomes(cs, cs2, c, x),
           Running(cs, c), CallOK(c, x),
           x.request = cs[c].request, x.answer = cs[c].answer,
           \/ cs[c].pc = "message" /\ x.pc = "delivery" /\ x.inserted = "yes"
           \/ cs[c].pc = "unwind" /\ x.pc = "commit" /\ x.inserted = "undone",
           InsertInv(cs2, ms),
           \A d \in Tx(c) : Sends(cs, d) => Named(cs, d) # Named(cs, c)
    PROVE  Inv(cs2, ms, ds, cl, t)
<1>1. /\ cs \in [Call -> CallState] /\ cs2 \in [Call -> CallState]
      /\ cs2[c] = x /\ \A o \in Call : o # c => cs2[o] = cs[o]
  BY DEF Inv, Types, Becomes
<1>2. CallOK(c, cs[c])
  BY DEF Inv, CallInv
<1>3. \A o \in Call : /\ Sends(cs2, o) <=> Sends(cs, o)
                      /\ Sends(cs, o) => cs2[o] = cs[o]
                      /\ cs2[o].request = cs[o].request /\ cs2[o].answer = cs[o].answer
                      /\ cs2[o].pc \in Outcomes <=> cs[o].pc \in Outcomes
                      /\ cs2[o].pc = "published" <=> cs[o].pc = "published"
  BY <1>1, <1>2 DEF Sends, Outcomes, CallOK
<1>4. \A o \in Call : Named(cs2, o) = Named(cs, o)
  BY <1>3 DEF Named
<1>5. ASSUME NEW o \in Call, NEW m, o \notin Tx(c) \/ m # Named(cs, c)
      PROVE  Sees(cs2, ms, o, m) = Sees(cs, ms, o, m)
  <2>1. \A p \in Tx(o) : p \in Call /\ (p = c => m # Named(cs, c))
    BY <1>5, TxIs
  <2>2. SameOwn(cs, cs2, o, m)
    BY <1>1, <1>4, <2>1 DEF SameOwn
  <2> QED
    BY <2>2, SeesSame
<1>6. ASSUME NEW o \in Call, NEW d \in Tx(o), Sends(cs, d)
      PROVE  Sees(cs2, ms, o, Named(cs, d)) = Sees(cs, ms, o, Named(cs, d))
  <2>1. o \in Tx(c) => d \in Tx(c)
    BY TxIs
  <2> QED
    BY <1>5, <1>6, <2>1
<1>7. Types(cs2, ms, ds, cl, t)
  BY <1>1 DEF Inv, Types
<1>8. CallInv(cs2)
  <2>1. \A o \in Call : CallOK(o, cs2[o])
    BY <1>1 DEF Inv, CallInv
  <2>2. \A o \in Call : Running(cs2, o) => Running(cs, o)
    BY <1>1 DEF Running
  <2> QED
    BY <2>1, <2>2, TxIs DEF Inv, CallInv
<1>9. RowInv(cs2, ms, ds)
  BY <1>3 DEF Inv, RowInv
<1>10. LockInv(cs2, ms, cl)
  <2> SUFFICES ASSUME NEW o \in Call, Sends(cs2, o)
               PROVE  /\ Sees(cs2, ms, o, Named(cs2, o)).live
                      /\ ~(cl.step = "deleted" /\ Named(cs2, o) \in cl.orphans)
    BY DEF LockInv
  <2>1. Sends(cs, o) /\ Named(cs2, o) = Named(cs, o) /\ o \in Tx(o)
    BY <1>3, <1>4, TxIs
  <2> QED
    BY <1>6, <2>1 DEF Inv, LockInv
<1>11. KeyInv(cs2, ds)
  BY <1>3 DEF Inv, KeyInv
<1>12. UsedInv(cs2)
  <2> SUFFICES ASSUME NEW o \in Call, cs2[o].pc = "commit", cs2[o].inserted = "yes"
               PROVE  \E d \in Tx(o) : Sends(cs2, d) /\ Named(cs2, d) = Named(cs2, o)
    BY DEF UsedInv
  <2>1. PICK d \in Tx(o) : Sends(cs, d) /\ Named(cs, d) = Named(cs, o)
    BY <1>1 DEF Inv, UsedInv
  <2> QED
    BY <1>3, <1>4, <2>1, TxIs
<1>13. AnswerInv(cs2, ms, ds, t)
  <2> SUFFICES ASSUME NEW o \in Call, cs2[o].pc \in {"unwind", "commit", "published"}
               PROVE  \/ OwnAnswer(cs2, ms, t, o, cs2[o].answer)
                      \/ OldAnswer(cs2, ms, ds, t, o, cs2[o].answer)
    BY DEF AnswerInv
  <2>1. cs[o].pc \in {"unwind", "commit", "published"}
    BY <1>1
  <2>2. PICK d : d = cs[o].answer /\ d = cs2[o].answer
    BY <1>3
  <2>3. d \in Call /\ (OwnAnswer(cs, ms, t, o, d) \/ OldAnswer(cs, ms, ds, t, o, d))
    BY <2>1, <2>2 DEF Inv, CallInv, CallOK, AnswerInv
  <2>4. CASE OwnAnswer(cs, ms, t, o, d)
    BY <1>3, <1>4, <1>6, <2>2, <2>3, <2>4 DEF OwnAnswer
  <2>5. CASE OldAnswer(cs, ms, ds, t, o, d)
    BY <1>3, <2>2, <2>3, <2>5 DEF OldAnswer
  <2> QED
    BY <2>3, <2>4, <2>5
<1>14. BackedInv(cs2, ms, t)
  <2> SUFFICES ASSUME NEW o \in Call, cs2[o].pc = "delivery", Protected(Named(cs2, o), t)
               PROVE  /\ Sees(cs2, ms, o, Named(cs2, o)).live
                      /\ Sees(cs2, ms, o, Named(cs2, o)).content = cs2[o].request.content
    BY DEF BackedInv
  <2>1. CASE o = c
    <3>1. cs2[c].inserted = "yes" /\ c \in Tx(c)
      BY <1>1, <2>1, TxIs
    <3> QED
      BY <2>1, <3>1, SeesOwn, MessageIsLive
  <2>2. CASE o # c
    <3>1. cs[o] = cs2[o] /\ Running(cs, o)
      BY <1>1, <2>2 DEF Running, Resting, Outcomes
    <3>2. o \notin Tx(c)
      BY <2>2, <3>1 DEF Inv, CallInv
    <3>3. /\ Sees(cs, ms, o, Named(cs, o)).live
          /\ Sees(cs, ms, o, Named(cs, o)).content = cs[o].request.content
      BY <1>4, <3>1 DEF Inv, BackedInv
    <3> QED
      BY <1>4, <1>5, <3>1, <3>2, <3>3
  <2> QED
    BY <2>1, <2>2
<1>15. CleanInv(cs2, ds, cl, t)
  BY <1>3 DEF Inv, CleanInv
<1> QED
  BY <1>7, <1>8, <1>9, <1>10, <1>11, <1>12, <1>13, <1>14, <1>15 DEF Inv

-----------------------------------------------------------------------------
(* The step that inserts a delivery, uncommitted. *)

LEMMA DeliverStep ==
    ASSUME NEW cs, NEW ms, NEW ds, NEW cl, NEW t, Inv(cs, ms, ds, cl, t),
           NEW c \in Call, NEW x \in CallState, NEW cs2, Becomes(cs, cs2, c, x),
           cs[c].pc = "delivery", x.pc = "commit", x.answer = c,
           x.request = cs[c].request, x.inserted = cs[c].inserted,
           x.createdAt = cs[c].createdAt,
           Sees(cs, ms, c, Named(cs, c)).live,
           ~(cl.step = "deleted" /\ Named(cs, c) \in cl.orphans),
           cs[c].request.key # NoKey =>
             /\ \A d \in Call : ds[d].state # "absent" => ds[d].key # cs[c].request.key
             /\ \A o \in Call : Sends(cs, o) => cs[o].request.key # cs[c].request.key
    PROVE  Inv(cs2, ms, ds, cl, t)
<1>1. /\ cs \in [Call -> CallState] /\ cs2 \in [Call -> CallState]
      /\ cs2[c] = x /\ \A o \in Call : o # c => cs2[o] = cs[o]
  BY DEF Inv, Types, Becomes
<1>2. \A o \in Call : /\ Sends(cs2, o) <=> Sends(cs, o) \/ o = c
                      /\ Sends(cs, o) => cs2[o] = cs[o]
                      /\ cs2[o].request = cs[o].request
                      /\ cs2[o].inserted = cs[o].inserted
                      /\ cs2[o].createdAt = cs[o].createdAt
                      /\ cs2[o].pc \in Outcomes <=> cs[o].pc \in Outcomes
                      /\ cs2[o].pc = "published" <=> cs[o].pc = "published"
  BY <1>1 DEF Sends, Outcomes
<1>3. \A o \in Call : Named(cs2, o) = Named(cs, o)
  BY <1>2 DEF Named
<1>4. ASSUME NEW o \in Call, NEW m PROVE Sees(cs2, ms, o, m) = Sees(cs, ms, o, m)
  <2>1. SameOwn(cs, cs2, o, m)
    BY <1>2, <1>3, TxIs DEF SameOwn
  <2> QED
    BY <2>1, SeesSame
<1>5. Types(cs2, ms, ds, cl, t)
  BY <1>1 DEF Inv, Types
<1>6. CallInv(cs2)
  <2>1. CallOK(c, x)
    BY DEF CallOK, Outcomes
  <2>2. \A o \in Call : CallOK(o, cs2[o])
    BY <1>1, <2>1 DEF Inv, CallInv
  <2>3. \A o \in Call : Running(cs2, o) => Running(cs, o)
    BY <1>1 DEF Running, Resting, Outcomes
  <2> QED
    BY <2>2, <2>3, TxIs DEF Inv, CallInv
<1>7. InsertInv(cs2, ms)
  BY <1>2, <1>3 DEF Inv, InsertInv
<1>8. RowInv(cs2, ms, ds)
  BY <1>2 DEF Inv, RowInv
<1>9. LockInv(cs2, ms, cl)
  BY <1>2, <1>3, <1>4 DEF Inv, LockInv
<1>10. KeyInv(cs2, ds)
  BY <1>2 DEF Inv, KeyInv
<1>11. UsedInv(cs2)
  <2> SUFFICES ASSUME NEW o \in Call, cs2[o].pc = "commit", cs2[o].inserted = "yes"
               PROVE  \E d \in Tx(o) : Sends(cs2, d) /\ Named(cs2, d) = Named(cs2, o)
    BY DEF UsedInv
  <2>1. CASE o = c
    BY <1>2, <2>1, TxIs
  <2>2. CASE o # c
    <3>1. PICK d \in Tx(o) : Sends(cs, d) /\ Named(cs, d) = Named(cs, o)
      BY <1>1, <2>2 DEF Inv, UsedInv
    <3> QED
      BY <1>2, <1>3, <3>1, TxIs
  <2> QED
    BY <2>1, <2>2
<1>12. AnswerInv(cs2, ms, ds, t)
  <2> SUFFICES ASSUME NEW o \in Call, cs2[o].pc \in {"unwind", "commit", "published"}
               PROVE  \/ OwnAnswer(cs2, ms, t, o, cs2[o].answer)
                      \/ OldAnswer(cs2, ms, ds, t, o, cs2[o].answer)
    BY DEF AnswerInv
  <2>1. CASE o = c
    <3>1. Fits(x.request, x.request.key, x.request.target, Named(cs2, c))
      BY <1>1 DEF Fits, Named
    <3>2. Protected(Named(cs2, c), t) =>
            Sees(cs2, ms, c, Named(cs2, c)).content = x.request.content
      BY <1>3, <1>4 DEF Inv, BackedInv
    <3> QED
      BY <1>1, <1>2, <2>1, <3>1, <3>2, TxIs DEF OwnAnswer
  <2>2. CASE o # c
    <3>1. PICK d : d = cs[o].answer /\ d = cs2[o].answer
      BY <1>1, <2>2
    <3>2. d \in Call /\ (OwnAnswer(cs, ms, t, o, d) \/ OldAnswer(cs, ms, ds, t, o, d))
      BY <1>1, <2>2, <3>1 DEF Inv, CallInv, CallOK, AnswerInv
    <3>3. CASE OwnAnswer(cs, ms, t, o, d)
      BY <1>2, <1>3, <1>4, <3>1, <3>2, <3>3 DEF OwnAnswer
    <3>4. CASE OldAnswer(cs, ms, ds, t, o, d)
      BY <1>2, <3>1, <3>2, <3>4 DEF OldAnswer
    <3> QED
      BY <3>2, <3>3, <3>4
  <2> QED
    BY <2>1, <2>2
<1>13. BackedInv(cs2, ms, t)
  <2>1. \A o \in Call : cs2[o].pc = "delivery" => cs[o].pc = "delivery"
    BY <1>1
  <2> QED
    BY <1>2, <1>3, <1>4, <2>1 DEF Inv, BackedInv
<1>14. CleanInv(cs2, ds, cl, t)
  BY <1>2 DEF Inv, CleanInv
<1> QED
  BY <1>5, <1>6, <1>7, <1>8, <1>9, <1>10, <1>11, <1>12, <1>13, <1>14 DEF Inv

-----------------------------------------------------------------------------
(* The end of a transaction. *)

\* The calls that have begun in c's transaction end with it.
Closes(cs, cs2, c) ==
    /\ cs2 \in [Call -> CallState]
    /\ \A o \in Call :
         \/ /\ o \in Tx(c) => cs[o].pc \in {"new"} \cup Outcomes
            /\ cs2[o] = cs[o]
         \/ /\ o \in Tx(c) /\ cs[o].pc \notin {"new"} \cup Outcomes
            /\ cs2[o].pc \in Outcomes /\ cs2[o].inserted = "no"
            /\ cs2[o].pc = "published" =>
                 /\ cs[o].pc = "commit"
                 /\ cs2[o].request = cs[o].request /\ cs2[o].answer = cs[o].answer

\* What it leaves: nothing inserted, nothing to send.
LEMMA ClosedTx ==
    ASSUME NEW cs, NEW cs2, CallInv(cs), NEW c \in Call, Closes(cs, cs2, c),
           NEW o \in Call
    PROVE  /\ o \notin Tx(c) => cs2[o] = cs[o]
           /\ o \in Tx(c) =>
                /\ cs2[o].inserted = "no" /\ cs2[o].pc \in {"new"} \cup Outcomes
                /\ ~Sends(cs2, o) /\ ~Running(cs2, o)
                /\ Sends(cs, o) => cs2[o].pc \in Outcomes
                /\ cs[o].inserted # "no" => cs2[o].pc \in Outcomes
           /\ cs[o].pc \in Outcomes => cs2[o] = cs[o]
<1>1. CallOK(o, cs[o])
  BY DEF CallInv
<1> QED
  BY <1>1 DEF Closes, CallOK, Sends, Running, Resting, Outcomes

LEMMA ClosedCalls ==
    ASSUME NEW cs, NEW cs2, CallInv(cs), NEW c \in Call, Closes(cs, cs2, c)
    PROVE  CallInv(cs2)
<1>1. ASSUME NEW o \in Call PROVE CallOK(o, cs2[o])
  <2>1. CallOK(o, cs[o])
    BY DEF CallInv
  <2> QED
    BY <2>1 DEF Closes, CallOK, Outcomes
<1>2. ASSUME NEW o \in Call, NEW p \in Tx(o), Running(cs2, o), Running(cs2, p)
      PROVE  p = o
  <2>1. o \notin Tx(c) /\ p \notin Tx(c) /\ p \in Call
    BY <1>2, ClosedTx, TxIs
  <2>2. cs2[o] = cs[o] /\ cs2[p] = cs[p]
    BY <2>1, ClosedTx
  <2> QED
    BY <1>2, <2>2 DEF CallInv, Running
<1> QED
  BY <1>1, <1>2 DEF CallInv

\* Other transactions see what they saw, if the table keeps it.
LEMMA OthersSee ==
    ASSUME NEW cs, NEW cs2, NEW ms, NEW ms2, CallInv(cs), NEW c \in Call,
           Closes(cs, cs2, c), NEW o \in Call, o \notin Tx(c), NEW m, ms2[m] = ms[m]
    PROVE  Sees(cs2, ms2, o, m) = Sees(cs, ms, o, m)
<1>1. \A p \in Tx(o) : p \in Call /\ p \notin Tx(c)
  BY TxIs
<1>2. \A p \in Tx(o) : cs2[p] = cs[p]
  BY <1>1, ClosedTx
<1>3. SameOwn(cs, cs2, o, m)
  BY <1>2 DEF SameOwn, Named
<1> QED
  BY <1>3, SeesSame

\* A rollback: nothing of the transaction stays.
LEMMA AbortStep ==
    ASSUME NEW cs, NEW ms, NEW ds, NEW cl, NEW t, Inv(cs, ms, ds, cl, t),
           NEW c \in Call, NEW cs2, Closes(cs, cs2, c),
           \A o \in Call : cs2[o].pc = "published" => cs[o].pc = "published"
    PROVE  Inv(cs2, ms, ds, cl, t)
<1>1. CallInv(cs) /\ CallInv(cs2)
  BY ClosedCalls DEF Inv
<1>2. ASSUME NEW o \in Call PROVE cs[o].pc \in Outcomes => cs2[o].pc \in Outcomes
  BY <1>1, ClosedTx
<1>3. ASSUME NEW o \in Call, cs2[o].inserted # "no" \/ Sends(cs2, o) \/ Running(cs2, o)
      PROVE  o \notin Tx(c) /\ cs2[o] = cs[o] /\ Named(cs2, o) = Named(cs, o)
  BY <1>1, <1>3, ClosedTx DEF Named
<1>4. ASSUME NEW o \in Call, o \notin Tx(c), NEW m
      PROVE  Sees(cs2, ms, o, m) = Sees(cs, ms, o, m)
  BY <1>1, <1>4, OthersSee
<1>5. Types(cs2, ms, ds, cl, t)
  BY DEF Inv, Types, Closes
<1>6. InsertInv(cs2, ms)
  <2>1. \A o \in Call : cs2[o].inserted # "no" => ~ms[Named(cs2, o)].live
    BY <1>3 DEF Inv, InsertInv
  <2>2. \A o, p \in Call :
         /\ cs2[o].inserted # "no" /\ cs2[p].inserted # "no"
         /\ Named(cs2, o) = Named(cs2, p)
         => p \in Tx(o) /\ (cs2[o].inserted = "yes" /\ cs2[p].inserted = "yes" => p = o)
    BY <1>3 DEF Inv, InsertInv
  <2>3. \A m \in Call : ms[m].live => cs2[m].pc \in Outcomes
    BY <1>2 DEF Inv, InsertInv
  <2> QED
    BY <2>1, <2>2, <2>3 DEF InsertInv
<1>7. RowInv(cs2, ms, ds)
  BY <1>2 DEF Inv, RowInv
<1>8. LockInv(cs2, ms, cl)
  <2> SUFFICES ASSUME NEW o \in Call, Sends(cs2, o)
               PROVE  /\ Sees(cs2, ms, o, Named(cs2, o)).live
                      /\ ~(cl.step = "deleted" /\ Named(cs2, o) \in cl.orphans)
    BY DEF LockInv
  <2>1. o \notin Tx(c) /\ Sends(cs, o) /\ Named(cs2, o) = Named(cs, o)
    BY <1>3 DEF Sends
  <2> QED
    BY <1>4, <2>1 DEF Inv, LockInv
<1>9. KeyInv(cs2, ds)
  <2>1. \A o \in Call : Sends(cs2, o) => Sends(cs, o) /\ cs2[o] = cs[o]
    BY <1>3 DEF Sends
  <2> QED
    BY <2>1 DEF Inv, KeyInv
<1>10. UsedInv(cs2)
  <2> SUFFICES ASSUME NEW o \in Call, cs2[o].pc = "commit", cs2[o].inserted = "yes"
               PROVE  \E d \in Tx(o) : Sends(cs2, d) /\ Named(cs2, d) = Named(cs2, o)
    BY DEF UsedInv
  <2>1. o \notin Tx(c) /\ cs2[o] = cs[o] /\ Named(cs2, o) = Named(cs, o)
    BY <1>3
  <2>2. PICK d \in Tx(o) : Sends(cs, d) /\ Named(cs, d) = Named(cs, o)
    BY <2>1 DEF Inv, UsedInv
  <2>3. d \in Call /\ d \notin Tx(c)
    BY <2>1, TxIs
  <2>4. cs2[d] = cs[d]
    BY <1>1, <2>3, ClosedTx
  <2> QED
    BY <2>1, <2>2, <2>4 DEF Sends, Named
<1>11. AnswerInv(cs2, ms, ds, t)
  <2> SUFFICES ASSUME NEW o \in Call, cs2[o].pc \in {"unwind", "commit", "published"}
               PROVE  \/ OwnAnswer(cs2, ms, t, o, cs2[o].answer)
                      \/ OldAnswer(cs2, ms, ds, t, o, cs2[o].answer)
    BY DEF AnswerInv
  <2>1. cs2[o] = cs[o] /\ (o \in Tx(c) => cs[o].pc = "published")
    BY DEF Closes, Outcomes
  <2>2. PICK d : d = cs[o].answer /\ d = cs2[o].answer
    BY <2>1
  <2>3. d \in Call /\ (OwnAnswer(cs, ms, t, o, d) \/ OldAnswer(cs, ms, ds, t, o, d))
    BY <2>1, <2>2 DEF Inv, CallInv, CallOK, AnswerInv
  <2>4. CASE OwnAnswer(cs, ms, t, o, d)
    <3>1. d \in Tx(o) /\ o \notin Tx(c)
      BY <2>1, <2>4 DEF OwnAnswer
    <3>2. d \notin Tx(c)
      BY <3>1, TxIs
    <3>3. cs2[d] = cs[d]
      BY <1>1, <2>3, <3>2, ClosedTx
    <3>4. Sends(cs2, d) <=> Sends(cs, d)
      BY <3>3 DEF Sends
    <3>5. Named(cs2, d) = Named(cs, d)
      BY <3>3 DEF Named
    <3>6. Sees(cs2, ms, o, Named(cs, d)) = Sees(cs, ms, o, Named(cs, d))
      BY <1>4, <3>1
    <3> QED
      BY <2>1, <2>2, <2>4, <3>3, <3>4, <3>5, <3>6 DEF OwnAnswer
  <2>5. CASE OldAnswer(cs, ms, ds, t, o, d)
    BY <1>2, <2>1, <2>2, <2>3, <2>5 DEF OldAnswer
  <2> QED
    BY <2>3, <2>4, <2>5
<1>12. BackedInv(cs2, ms, t)
  <2> SUFFICES ASSUME NEW o \in Call, cs2[o].pc = "delivery", Protected(Named(cs2, o), t)
               PROVE  /\ Sees(cs2, ms, o, Named(cs2, o)).live
                      /\ Sees(cs2, ms, o, Named(cs2, o)).content = cs2[o].request.content
    BY DEF BackedInv
  <2>1. Running(cs2, o)
    BY DEF Running, Resting, Outcomes
  <2>2. o \notin Tx(c) /\ cs2[o] = cs[o] /\ Named(cs2, o) = Named(cs, o)
    BY <1>3, <2>1
  <2> QED
    BY <1>4, <2>2 DEF Inv, BackedInv
<1>13. CleanInv(cs2, ds, cl, t)
  BY <1>2 DEF Inv, CleanInv
<1> QED
  BY <1>1, <1>5, <1>6, <1>7, <1>8, <1>9, <1>10, <1>11, <1>12, <1>13 DEF Inv

\* What COMMIT leaves in the tables.
LeavesMessages(cs, ms, ms2, c) == ms2 = [m \in MessageID |-> Sees(cs, ms, c, m)]

LeavesDeliveries(cs, ds, ds2, c) ==
    ds2 = [d \in Call |->
            IF d \in Tx(c) /\ Sends(cs, d)
            THEN Delivery(Named(cs, d), cs[d].request.key, cs[d].request.target)
            ELSE ds[d]]

LEMMA CommittedDeliveries ==
    ASSUME NEW cs, NEW ds, NEW ds2, NEW c \in Call, cs \in [Call -> CallState],
           ds \in [Call -> DeliveryRow], LeavesDeliveries(cs, ds, ds2, c)
    PROVE  /\ ds2 \in [Call -> DeliveryRow]
           /\ \A d \in Call : d \in Tx(c) /\ Sends(cs, d) =>
                /\ ds2[d].state = "pending" /\ ds2[d].message = Named(cs, d)
                /\ ds2[d].key = cs[d].request.key /\ ds2[d].target = cs[d].request.target
           /\ \A d \in Call : ~(d \in Tx(c) /\ Sends(cs, d)) => ds2[d] = ds[d]
<1>1. ASSUME NEW d \in Call
      PROVE  /\ Delivery(Named(cs, d), cs[d].request.key, cs[d].request.target)
                  \in DeliveryRow
             /\ Named(cs, d) \in MessageID
  BY NamedIs DEF CallState, RequestRow, Delivery, DeliveryRow
<1>2. ds2 \in [Call -> DeliveryRow]
  BY <1>1 DEF LeavesDeliveries
<1>3. ASSUME NEW d \in Call, d \in Tx(c), Sends(cs, d)
      PROVE  /\ ds2[d].state = "pending" /\ ds2[d].message = Named(cs, d)
             /\ ds2[d].key = cs[d].request.key /\ ds2[d].target = cs[d].request.target
  <2>1. ds2[d] = Delivery(Named(cs, d), cs[d].request.key, cs[d].request.target)
    BY <1>3 DEF LeavesDeliveries
  <2> QED
    BY <2>1 DEF Delivery
<1>4. \A d \in Call : ~(d \in Tx(c) /\ Sends(cs, d)) => ds2[d] = ds[d]
  BY DEF LeavesDeliveries
<1> QED
  BY <1>2, <1>3, <1>4

LEMMA CommittedMessages ==
    ASSUME NEW cs, NEW ms, NEW ms2, NEW c \in Call, cs \in [Call -> CallState],
           ms \in [MessageID -> MessageRow], InsertInv(cs, ms),
           LeavesMessages(cs, ms, ms2, c)
    PROVE  /\ ms2 \in [MessageID -> MessageRow]
           /\ \A m \in MessageID : ms2[m] = Sees(cs, ms, c, m)
           /\ \A m \in MessageID : ms[m].live => ms2[m] = ms[m]
<1>1. /\ ms2 \in [MessageID -> MessageRow]
      /\ \A m \in MessageID : ms2[m] = Sees(cs, ms, c, m)
  BY SeesType DEF LeavesMessages
<1> QED
  BY <1>1, SeesLive

\* Another transaction sees the same after the COMMIT of what it holds or what
\* was in the table.
LEMMA OthersSeeLive ==
    ASSUME NEW cs, NEW cs2, NEW ms, NEW ms2, CallInv(cs), InsertInv(cs, ms),
           NEW c \in Call, Closes(cs, cs2, c), NEW o \in Call, o \notin Tx(c),
           NEW m \in MessageID, ms[m].live => ms2[m] = ms[m],
           InsertInv(cs2, ms2), Sees(cs, ms, o, m).live
    PROVE  Sees(cs2, ms2, o, m) = Sees(cs, ms, o, m)
<1>1. CASE \E p \in Tx(o) : cs[p].inserted = "yes" /\ Named(cs, p) = m
  <2>1. PICK p \in Tx(o) : cs[p].inserted = "yes" /\ Named(cs, p) = m
    BY <1>1
  <2>2. p \in Call /\ p \notin Tx(c)
    BY TxIs
  <2>3. cs2[p] = cs[p]
    BY <2>2, ClosedTx
  <2>4. cs2[p].inserted = "yes" /\ Named(cs2, p) = m
    BY <2>1, <2>3 DEF Named
  <2> QED
    BY <2>1, <2>3, <2>4, SeesOwn
<1>2. CASE ~\E p \in Tx(o) : cs[p].inserted = "yes" /\ Named(cs, p) = m
  <2>1. Sees(cs, ms, o, m) = ms[m]
    BY <1>2, SeesTable
  <2> QED
    BY <2>1, OthersSee
<1> QED
  BY <1>1, <1>2

LEMMA CommitStep ==
    ASSUME NEW cs, NEW ms, NEW ds, NEW cl, NEW t, Inv(cs, ms, ds, cl, t),
           NEW c \in Call, NEW cs2, Closes(cs, cs2, c),
           NEW ms2, LeavesMessages(cs, ms, ms2, c),
           NEW ds2, LeavesDeliveries(cs, ds, ds2, c)
    PROVE  Inv(cs2, ms2, ds2, cl, t)
<1>0. /\ cs \in [Call -> CallState] /\ ms \in [MessageID -> MessageRow]
      /\ ds \in [Call -> DeliveryRow] /\ InsertInv(cs, ms)
  BY DEF Inv, Types
<1>1. CallInv(cs) /\ CallInv(cs2)
  BY ClosedCalls DEF Inv
<1>2. ASSUME NEW o \in Call
      PROVE  cs[o].pc \in Outcomes => cs2[o].pc \in Outcomes /\ ~Sends(cs, o)
  BY <1>1, ClosedTx DEF Sends, Outcomes
<1>3. ASSUME NEW o \in Call, cs2[o].inserted # "no" \/ Sends(cs2, o) \/ Running(cs2, o)
      PROVE  o \notin Tx(c) /\ cs2[o] = cs[o] /\ Named(cs2, o) = Named(cs, o)
  BY <1>1, <1>3, ClosedTx DEF Named
<1>4. /\ ms2 \in [MessageID -> MessageRow]
      /\ \A m \in MessageID : ms2[m] = Sees(cs, ms, c, m)
      /\ \A m \in MessageID : ms[m].live => ms2[m] = ms[m]
  BY <1>0, CommittedMessages
<1>5. /\ ds2 \in [Call -> DeliveryRow]
      /\ \A d \in Call : d \in Tx(c) /\ Sends(cs, d) =>
           /\ ds2[d].state = "pending" /\ ds2[d].message = Named(cs, d)
           /\ ds2[d].key = cs[d].request.key /\ ds2[d].target = cs[d].request.target
      /\ \A d \in Call : ~(d \in Tx(c) /\ Sends(cs, d)) => ds2[d] = ds[d]
  BY <1>0, CommittedDeliveries
<1>6. \A o \in Call : /\ Named(cs, o) \in MessageID
                      /\ Named(cs, o) \in Call => Named(cs, o) = o
  BY <1>0, NamedIs
<1>7. Types(cs2, ms2, ds2, cl, t)
  BY <1>4, <1>5 DEF Inv, Types, Closes
<1>8. InsertInv(cs2, ms2)
  <2>1. ASSUME NEW o \in Call, cs2[o].inserted # "no" PROVE ~ms2[Named(cs2, o)].live
    <3>1. o \notin Tx(c) /\ cs2[o] = cs[o] /\ Named(cs2, o) = Named(cs, o)
      BY <1>3, <2>1
    <3>2. \A p \in Tx(c) : cs[p].inserted = "yes" => Named(cs, p) # Named(cs, o)
      <4> SUFFICES ASSUME NEW p \in Tx(c), cs[p].inserted = "yes",
                          Named(cs, p) = Named(cs, o)
                   PROVE  FALSE
        OBVIOUS
      <4>1. p \in Call /\ o \in Tx(p)
        BY <1>0, <2>1, <3>1, TxIs DEF InsertInv
      <4> QED
        BY <3>1, <4>1, TxIs
    <3>3. ms2[Named(cs, o)] = ms[Named(cs, o)]
      BY <1>4, <1>6, <3>2, SeesTable
    <3> QED
      BY <1>0, <2>1, <3>1, <3>3 DEF InsertInv
  <2>2. \A o, p \in Call :
         /\ cs2[o].inserted # "no" /\ cs2[p].inserted # "no"
         /\ Named(cs2, o) = Named(cs2, p)
         => p \in Tx(o) /\ (cs2[o].inserted = "yes" /\ cs2[p].inserted = "yes" => p = o)
    BY <1>0, <1>3 DEF InsertInv
  <2>3. ASSUME NEW m \in Call, ms2[m].live PROVE cs2[m].pc \in Outcomes
    <3>0. m \in MessageID
      BY DEF MessageID
    <3>1. CASE ms[m].live
      BY <1>0, <1>2, <3>1 DEF InsertInv
    <3>2. CASE ~ms[m].live
      <4>1. PICK o \in Tx(c) : cs[o].inserted = "yes" /\ Named(cs, o) = m
        BY <1>4, <2>3, <3>0, <3>2, SeesTable
      <4>2. o \in Call /\ o = m
        BY <1>6, <4>1, TxIs
      <4> QED
        BY <1>1, <4>1, <4>2, ClosedTx
    <3> QED
      BY <3>1, <3>2
  <2> QED
    BY <2>1, <2>2, <2>3 DEF InsertInv
<1>9. ASSUME NEW o \in Call, o \notin Tx(c), NEW m \in MessageID, Sees(cs, ms, o, m).live
      PROVE  Sees(cs2, ms2, o, m) = Sees(cs, ms, o, m)
  BY <1>0, <1>1, <1>4, <1>8, <1>9, OthersSeeLive
<1>10. \A o \in Call : \A d \in Tx(o) : Sends(cs, d) =>
         d \in Call /\ Sees(cs, ms, o, Named(cs, d)).live
  BY SeesTx, TxIs DEF Inv, LockInv
<1>11. RowInv(cs2, ms2, ds2)
  <2> SUFFICES ASSUME NEW d \in Call, ds2[d].state # "absent"
               PROVE  /\ cs2[d].pc \in Outcomes
                      /\ ds2[d].message \in MessageID
                      /\ ms2[ds2[d].message].live
                      /\ ds2[d].message \in Call => ds2[d].message = d
    BY DEF RowInv
  <2>1. CASE d \in Tx(c) /\ Sends(cs, d)
    <3>1. ds2[d].message = Named(cs, d)
      BY <1>5, <2>1
    <3>2. cs2[d].pc \in Outcomes
      BY <1>1, <2>1, ClosedTx
    <3>3. ms2[Named(cs, d)].live
      BY <1>4, <1>6, <1>10, <2>1
    <3> QED
      BY <1>6, <3>1, <3>2, <3>3
  <2>2. CASE ~(d \in Tx(c) /\ Sends(cs, d))
    <3>1. ds2[d] = ds[d]
      BY <1>5, <2>2
    <3>2. /\ cs[d].pc \in Outcomes /\ ds[d].message \in MessageID
          /\ ms[ds[d].message].live
          /\ ds[d].message \in Call => ds[d].message = d
      BY <3>1 DEF Inv, RowInv
    <3> QED
      BY <1>2, <1>4, <3>1, <3>2
  <2> QED
    BY <2>1, <2>2
<1>12. LockInv(cs2, ms2, cl)
  <2> SUFFICES ASSUME NEW o \in Call, Sends(cs2, o)
               PROVE  /\ Sees(cs2, ms2, o, Named(cs2, o)).live
                      /\ ~(cl.step = "deleted" /\ Named(cs2, o) \in cl.orphans)
    BY DEF LockInv
  <2>1. o \notin Tx(c) /\ Sends(cs, o) /\ Named(cs2, o) = Named(cs, o)
    BY <1>3 DEF Sends
  <2> QED
    BY <1>6, <1>9, <2>1 DEF Inv, LockInv
<1>13. KeyInv(cs2, ds2)
  <2>1. \A o \in Call : Sends(cs2, o) => Sends(cs, o) /\ o \notin Tx(c) /\ cs2[o] = cs[o]
    BY <1>3 DEF Sends
  <2>2. ASSUME NEW d \in Call, NEW e \in Call,
               ds2[d].state # "absent", ds2[e].state # "absent",
               ds2[d].key = ds2[e].key, ds2[d].key # NoKey
        PROVE  d = e
    <3>1. CASE d \in Tx(c) /\ Sends(cs, d)
      BY <1>5, <2>2, <3>1 DEF Inv, KeyInv
    <3>2. CASE e \in Tx(c) /\ Sends(cs, e)
      BY <1>5, <2>2, <3>2 DEF Inv, KeyInv
    <3>3. CASE ~(d \in Tx(c) /\ Sends(cs, d)) /\ ~(e \in Tx(c) /\ Sends(cs, e))
      BY <1>5, <2>2, <3>3 DEF Inv, KeyInv
    <3> QED
      BY <3>1, <3>2, <3>3
  <2>3. ASSUME NEW o \in Call, Sends(cs2, o), cs2[o].request.key # NoKey,
               NEW d \in Call, ds2[d].state # "absent"
        PROVE  ds2[d].key # cs2[o].request.key
    <3>1. CASE d \in Tx(c) /\ Sends(cs, d)
      BY <1>5, <2>1, <2>3, <3>1 DEF Inv, KeyInv
    <3>2. CASE ~(d \in Tx(c) /\ Sends(cs, d))
      BY <1>5, <2>1, <2>3, <3>2 DEF Inv, KeyInv
    <3> QED
      BY <3>1, <3>2
  <2>4. \A o, p \in Call :
          /\ Sends(cs2, o) /\ cs2[o].request.key # NoKey
          /\ Sends(cs2, p) /\ cs2[p].request.key = cs2[o].request.key
          => p = o
    BY <2>1 DEF Inv, KeyInv
  <2> QED
    BY <2>2, <2>3, <2>4 DEF KeyInv
<1>14. UsedInv(cs2)
  <2> SUFFICES ASSUME NEW o \in Call, cs2[o].pc = "commit", cs2[o].inserted = "yes"
               PROVE  \E d \in Tx(o) : Sends(cs2, d) /\ Named(cs2, d) = Named(cs2, o)
    BY DEF UsedInv
  <2>1. o \notin Tx(c) /\ cs2[o] = cs[o] /\ Named(cs2, o) = Named(cs, o)
    BY <1>3
  <2>2. PICK d \in Tx(o) : Sends(cs, d) /\ Named(cs, d) = Named(cs, o)
    BY <2>1 DEF Inv, UsedInv
  <2>3. d \in Call /\ d \notin Tx(c)
    BY <2>1, TxIs
  <2>4. cs2[d] = cs[d]
    BY <1>1, <2>3, ClosedTx
  <2> QED
    BY <2>1, <2>2, <2>4 DEF Sends, Named
<1>15. AnswerInv(cs2, ms2, ds2, t)
  <2> SUFFICES ASSUME NEW o \in Call, cs2[o].pc \in {"unwind", "commit", "published"}
               PROVE  \/ OwnAnswer(cs2, ms2, t, o, cs2[o].answer)
                      \/ OldAnswer(cs2, ms2, ds2, t, o, cs2[o].answer)
    BY DEF AnswerInv
  <2>1. /\ cs2[o].request = cs[o].request /\ cs2[o].answer = cs[o].answer
        /\ cs[o].pc \in {"unwind", "commit", "published"}
        /\ o \notin Tx(c) => cs2[o] = cs[o]
        /\ o \in Tx(c) => cs2[o].pc = "published"
    BY DEF Closes, Outcomes
  <2>2. PICK d : d = cs[o].answer /\ d = cs2[o].answer
    BY <2>1
  <2>3. d \in Call /\ (OwnAnswer(cs, ms, t, o, d) \/ OldAnswer(cs, ms, ds, t, o, d))
    BY <2>1, <2>2 DEF Inv, CallInv, CallOK, AnswerInv
  <2>4. CASE OwnAnswer(cs, ms, t, o, d) /\ o \notin Tx(c)
    <3>1. d \in Tx(o) /\ Sends(cs, d)
      BY <2>4 DEF OwnAnswer
    <3>2. d \notin Tx(c)
      BY <2>4, <3>1, TxIs
    <3>3. cs2[d] = cs[d]
      BY <1>1, <2>3, <3>2, ClosedTx
    <3>4. Sends(cs2, d) <=> Sends(cs, d)
      BY <3>3 DEF Sends
    <3>5. Named(cs2, d) = Named(cs, d)
      BY <3>3 DEF Named
    <3>6. Sees(cs2, ms2, o, Named(cs, d)) = Sees(cs, ms, o, Named(cs, d))
      BY <1>6, <1>9, <1>10, <2>3, <2>4, <3>1
    <3> QED
      BY <2>1, <2>2, <2>4, <3>3, <3>4, <3>5, <3>6 DEF OwnAnswer
  <2>5. CASE OwnAnswer(cs, ms, t, o, d) /\ o \in Tx(c)
    <3>1. d \in Tx(c) /\ Sends(cs, d)
      BY <2>5, TxIs DEF OwnAnswer
    <3>2. cs2[d].pc \in Outcomes
      BY <1>1, <2>3, <3>1, ClosedTx
    <3>3. /\ ds2[d].message = Named(cs, d)
          /\ ds2[d].key = cs[d].request.key /\ ds2[d].target = cs[d].request.target
      BY <1>5, <2>3, <3>1
    <3>4. ms2[Named(cs, d)] = Sees(cs, ms, o, Named(cs, d))
      BY <1>4, <1>6, <2>3, <2>5, SeesTx
    <3> QED
      BY <2>1, <2>2, <2>5, <3>2, <3>3, <3>4 DEF OwnAnswer, OldAnswer
  <2>6. CASE OldAnswer(cs, ms, ds, t, o, d)
    <3>1. cs2[d].pc \in Outcomes /\ ds2[d] = ds[d]
      BY <1>2, <1>5, <2>3, <2>6 DEF OldAnswer
    <3>2. ds[d].state # "absent" => ms2[ds[d].message] = ms[ds[d].message]
      BY <1>4, <2>3 DEF Inv, RowInv
    <3> QED
      BY <2>1, <2>2, <2>6, <3>1, <3>2 DEF OldAnswer
  <2> QED
    BY <2>3, <2>4, <2>5, <2>6
<1>16. BackedInv(cs2, ms2, t)
  <2> SUFFICES ASSUME NEW o \in Call, cs2[o].pc = "delivery", Protected(Named(cs2, o), t)
               PROVE  /\ Sees(cs2, ms2, o, Named(cs2, o)).live
                      /\ Sees(cs2, ms2, o, Named(cs2, o)).content = cs2[o].request.content
    BY DEF BackedInv
  <2>1. Running(cs2, o)
    BY DEF Running, Resting, Outcomes
  <2>2. o \notin Tx(c) /\ cs2[o] = cs[o] /\ Named(cs2, o) = Named(cs, o)
    BY <1>3, <2>1
  <2>3. /\ Sees(cs, ms, o, Named(cs, o)).live
        /\ Sees(cs, ms, o, Named(cs, o)).content = cs[o].request.content
    BY <2>2 DEF Inv, BackedInv
  <2> QED
    BY <1>6, <1>9, <2>2, <2>3
<1>17. CleanInv(cs2, ds2, cl, t)
  <2>1. ASSUME NEW m \in cl.orphans \cap Call, NEW d \in Call \ cl.removed
        PROVE  ~Refers(ds2, d, m)
    <3>1. cs[m].pc \in Outcomes /\ ~Refers(ds, d, m)
      BY DEF Inv, CleanInv
    <3>2. CASE d \in Tx(c) /\ Sends(cs, d)
      <4>1. Named(cs, d) # m
        BY <1>2, <1>6, <3>1, <3>2
      <4> QED
        BY <1>5, <3>2, <4>1 DEF Refers
    <3>3. CASE ~(d \in Tx(c) /\ Sends(cs, d))
      BY <1>5, <3>1, <3>3 DEF Refers
    <3> QED
      BY <3>2, <3>3
  <2>2. \A m \in cl.orphans \cap Call : cs2[m].pc \in Outcomes
    BY <1>2 DEF Inv, CleanInv
  <2>3. ASSUME NEW d \in cl.removed PROVE ds2[d] = ds[d]
    <3>1. d \in Call
      BY DEF Inv, Types, CleanerState
    <3>2. ds[d].state # "absent"
      BY DEF Inv, CleanInv
    <3>3. ~Sends(cs, d)
      BY <1>2, <3>1, <3>2 DEF Inv, RowInv
    <3> QED
      BY <1>5, <3>1, <3>3
  <2>4. ASSUME cl.step = "deleted", NEW m \in cl.orphans, NEW d \in Call, Refers(ds2, d, m)
        PROVE  d \in cl.removed
    <3>1. CASE d \in Tx(c) /\ Sends(cs, d)
      BY <1>5, <2>4, <3>1 DEF Inv, LockInv, Refers
    <3>2. CASE ~(d \in Tx(c) /\ Sends(cs, d))
      BY <1>5, <2>4, <3>2 DEF Inv, CleanInv, Refers
    <3> QED
      BY <3>1, <3>2
  <2> QED
    BY <2>1, <2>2, <2>3, <2>4 DEF Inv, CleanInv
<1> QED
  BY <1>1, <1>7, <1>8, <1>11, <1>12, <1>13, <1>14, <1>15, <1>16, <1>17 DEF Inv

-----------------------------------------------------------------------------
(* The clock, workers and Cleanup. *)

LEMMA TickStep ==
    ASSUME NEW cs, NEW ms, NEW ds, NEW cl, NEW t, Inv(cs, ms, ds, cl, t)
    PROVE  Inv(cs, ms, ds, cl, t + 1)
<1>1. t \in Nat /\ cl.now \in Nat /\ OrphanRetention \in Nat
  BY PublicationAssumption DEF Inv, Types, CleanerState
<1>2. \A m : Protected(m, t + 1) => Protected(m, t)
  BY <1>1 DEF Protected
<1>3. AnswerInv(cs, ms, ds, t + 1)
  BY <1>2 DEF Inv, AnswerInv, OwnAnswer, OldAnswer
<1>4. BackedInv(cs, ms, t + 1)
  BY <1>2 DEF Inv, BackedInv
<1>5. CleanInv(cs, ds, cl, t + 1)
  BY <1>1 DEF Inv, CleanInv
<1> QED
  BY <1>1, <1>3, <1>4, <1>5 DEF Inv, Types

\* A delivery that is not being removed becomes terminal.
Completes(ds, ds2, d, t) ==
    ds2 = [ds EXCEPT ![d].state = "terminal", ![d].completed_at = t]

LEMMA CompleteStep ==
    ASSUME NEW cs, NEW ms, NEW ds, NEW cl, NEW t, Inv(cs, ms, ds, cl, t),
           NEW d \in Call, d \notin cl.removed, ds[d].state = "pending",
           NEW ds2, Completes(ds, ds2, d, t)
    PROVE  Inv(cs, ms, ds2, cl, t)
<1>1. ds \in [Call -> DeliveryRow] /\ ds[d] \in DeliveryRow /\ t \in Nat
  BY DEF Inv, Types
<1>2. PICK row : row = [ds[d] EXCEPT !.state = "terminal", !.completed_at = t]
  OBVIOUS
<1>3. /\ row \in DeliveryRow /\ row.state = "terminal"
      /\ row.message = ds[d].message /\ row.key = ds[d].key /\ row.target = ds[d].target
  BY <1>1, <1>2 DEF DeliveryRow
<1>4. /\ ds2 \in [Call -> DeliveryRow] /\ ds2[d] = row
      /\ \A e \in Call : e # d => ds2[e] = ds[e]
  BY <1>1, <1>2, <1>3 DEF Completes
<1>5. \A e \in Call :
        /\ ds2[e].state = "absent" <=> ds[e].state = "absent"
        /\ ds2[e].message = ds[e].message /\ ds2[e].key = ds[e].key
        /\ ds2[e].target = ds[e].target
        /\ e \in cl.removed => ds2[e] = ds[e]
  BY <1>3, <1>4
<1>6. Types(cs, ms, ds2, cl, t) /\ cl.removed \subseteq Call
  BY <1>4 DEF Inv, Types, CleanerState
<1>7. RowInv(cs, ms, ds2)
  BY <1>5 DEF Inv, RowInv
<1>8. KeyInv(cs, ds2)
  BY <1>5 DEF Inv, KeyInv
<1>9. AnswerInv(cs, ms, ds2, t)
  <2>1. \A c, e \in Call : OldAnswer(cs, ms, ds, t, c, e) => OldAnswer(cs, ms, ds2, t, c, e)
    BY <1>5 DEF OldAnswer
  <2> QED
    BY <2>1 DEF Inv, AnswerInv, CallInv, CallOK
<1>10. CleanInv(cs, ds2, cl, t)
  <2>1. \A e \in Call : \A m : Refers(ds2, e, m) <=> Refers(ds, e, m)
    BY <1>5 DEF Refers
  <2> QED
    BY <1>5, <1>6, <2>1 DEF Inv, CleanInv
<1> QED
  BY <1>6, <1>7, <1>8, <1>9, <1>10 DEF Inv

\* A step of Cleanup before it commits.
LEMMA CleanerStep ==
    ASSUME NEW cs, NEW ms, NEW ds, NEW cl, NEW t, Inv(cs, ms, ds, cl, t),
           NEW cl2 \in CleanerState, CleanInv(cs, ds, cl2, t),
           \A c \in Call : Sends(cs, c) =>
             ~(cl2.step = "deleted" /\ Named(cs, c) \in cl2.orphans)
    PROVE  Inv(cs, ms, ds, cl2, t)
<1>1. Types(cs, ms, ds, cl2, t)
  BY DEF Inv, Types
<1>2. LockInv(cs, ms, cl2)
  BY DEF Inv, LockInv
<1> QED
  BY <1>1, <1>2 DEF Inv

LEMMA CleaningIs ==
    ASSUME NEW step \in {"idle", "deliveries", "snapshot", "deleted"}, NEW t \in Nat,
           NEW removed \in SUBSET Call, NEW orphans \in SUBSET MessageID, NEW cl,
           cl = Cleaning(step, t, removed, orphans)
    PROVE  /\ cl \in CleanerState
           /\ cl.step = step /\ cl.now = t /\ cl.removed = removed /\ cl.orphans = orphans
  BY DEF Cleaning, CleanerState

LEMMA NotCleaningIs ==
    /\ NotCleaning \in CleanerState
    /\ NotCleaning.step = "idle" /\ NotCleaning.now = 0
    /\ NotCleaning.removed = {} /\ NotCleaning.orphans = {}
  BY DEF NotCleaning, Cleaning, CleanerState

LEMMA IdleStep ==
    ASSUME NEW cs, NEW ms, NEW ds, NEW cl, NEW t, Inv(cs, ms, ds, cl, t)
    PROVE  Inv(cs, ms, ds, NotCleaning, t)
<1>1. PICK cl2 : cl2 = NotCleaning
  OBVIOUS
<1>2. /\ cl2 \in CleanerState /\ cl2.step = "idle" /\ cl2.now = 0
      /\ cl2.removed = {} /\ cl2.orphans = {}
  BY <1>1, NotCleaningIs
<1>3. t \in Nat
  BY DEF Inv, Types
<1>4. CleanInv(cs, ds, cl2, t)
  BY <1>2, <1>3 DEF CleanInv
<1>5. Inv(cs, ms, ds, cl2, t)
  BY <1>2, <1>4, CleanerStep
<1> QED
  BY <1>1, <1>5

\* The COMMIT of Cleanup: a message goes with all of its deliveries, and no
\* transaction needs one that goes.
LEMMA CleanCommitStep ==
    ASSUME NEW cs, NEW ms, NEW ds, NEW cl, NEW t, Inv(cs, ms, ds, cl, t),
           cl.step = "deleted",
           NEW ms2, ms2 = [m \in MessageID |-> IF m \in cl.orphans THEN NoMessage ELSE ms[m]],
           NEW ds2, ds2 = [d \in Call |-> IF d \in cl.removed THEN NoDelivery ELSE ds[d]]
    PROVE  Inv(cs, ms2, ds2, NotCleaning, t)
<1>1. /\ cs \in [Call -> CallState] /\ ms \in [MessageID -> MessageRow]
      /\ ds \in [Call -> DeliveryRow] /\ t \in Nat /\ OrphanRetention \in Nat
      /\ cl.removed \subseteq Call
  BY PublicationAssumption DEF Inv, Types, CleanerState
<1>2. NoMessage \in MessageRow /\ ~NoMessage.live
  BY DEF NoMessage, MessageRow
<1>3. NoDelivery \in DeliveryRow /\ NoDelivery.state = "absent"
  BY DEF NoDelivery, DeliveryRow
<1>4. /\ ms2 \in [MessageID -> MessageRow]
      /\ \A m \in MessageID : m \in cl.orphans => ~ms2[m].live
      /\ \A m \in MessageID : m \notin cl.orphans => ms2[m] = ms[m]
  BY <1>1, <1>2
<1>5. /\ ds2 \in [Call -> DeliveryRow]
      /\ \A d \in Call : d \in cl.removed => ds2[d].state = "absent"
      /\ \A d \in Call : d \notin cl.removed => ds2[d] = ds[d]
  BY <1>1, <1>3
<1>6. \A d \in Call : ds2[d].state # "absent" =>
        /\ d \notin cl.removed /\ ds2[d] = ds[d]
        /\ ds[d].message \in MessageID /\ ds[d].message \notin cl.orphans
  BY <1>5 DEF Inv, CleanInv, Refers, RowInv
<1>7. ASSUME NEW c \in Call, NEW m \in MessageID, m \notin cl.orphans
      PROVE  Sees(cs, ms2, c, m) = Sees(cs, ms, c, m)
  <2>1. SameOwn(cs, cs, c, m)
    BY DEF SameOwn
  <2> QED
    BY <1>4, <1>7, <2>1, SeesSame
<1>8. \A d \in Call : /\ Named(cs, d) \in MessageID
                      /\ Named(cs, d) \in Call => Named(cs, d) = d
                      /\ Sends(cs, d) => Named(cs, d) \notin cl.orphans
  BY <1>1, NamedIs DEF Inv, LockInv
<1>9. Types(cs, ms2, ds2, NotCleaning, t)
  BY <1>1, <1>4, <1>5, NotCleaningIs DEF Types
<1>10. InsertInv(cs, ms2)
  <2>1. \A m \in MessageID : ms2[m].live => ms[m].live
    BY <1>4
  <2>2. Call \subseteq MessageID
    BY DEF MessageID
  <2> QED
    BY <1>8, <2>1, <2>2 DEF Inv, InsertInv
<1>11. RowInv(cs, ms2, ds2)
  BY <1>4, <1>6 DEF Inv, RowInv
<1>12. LockInv(cs, ms2, NotCleaning)
  BY <1>7, <1>8, NotCleaningIs DEF Inv, LockInv
<1>13. KeyInv(cs, ds2)
  BY <1>6 DEF Inv, KeyInv
<1>14. AnswerInv(cs, ms2, ds2, t)
  <2>1. ASSUME NEW c \in Call, NEW d \in Call, OwnAnswer(cs, ms, t, c, d)
        PROVE  OwnAnswer(cs, ms2, t, c, d)
    BY <1>7, <1>8, <2>1 DEF OwnAnswer
  <2>2. ASSUME NEW c \in Call, NEW d \in Call, OldAnswer(cs, ms, ds, t, c, d)
        PROVE  OldAnswer(cs, ms2, ds2, t, c, d)
    BY <1>4, <1>6, <2>2 DEF OldAnswer
  <2> QED
    BY <2>1, <2>2 DEF Inv, AnswerInv, CallInv, CallOK
<1>15. BackedInv(cs, ms2, t)
  <2> SUFFICES ASSUME NEW c \in Call, cs[c].pc = "delivery", Protected(Named(cs, c), t)
               PROVE  /\ Sees(cs, ms2, c, Named(cs, c)).live
                      /\ Sees(cs, ms2, c, Named(cs, c)).content = cs[c].request.content
    BY DEF BackedInv
  <2>1. Named(cs, c) \notin cl.orphans
    <3>1. CASE Named(cs, c) \in Call
      BY <1>8, <3>1 DEF Inv, CleanInv, Outcomes
    <3>2. CASE Named(cs, c) \notin Call
      BY <1>1, <3>2 DEF Inv, CleanInv, Protected
    <3> QED
      BY <3>1, <3>2
  <2> QED
    BY <1>7, <1>8, <2>1 DEF Inv, BackedInv
<1>16. CleanInv(cs, ds2, NotCleaning, t)
  <2>1. PICK cl2 : cl2 = NotCleaning
    OBVIOUS
  <2>2. CleanInv(cs, ds2, cl2, t)
    BY <1>1, <2>1, NotCleaningIs DEF CleanInv
  <2> QED
    BY <2>1, <2>2
<1> QED
  BY <1>9, <1>10, <1>11, <1>12, <1>13, <1>14, <1>15, <1>16 DEF Inv

-----------------------------------------------------------------------------
(* The actions. *)

LEMMA BridgeCalls ==
    ASSUME NEW c
    PROVE  /\ MessageOf(c) = Named(calls, c)
           /\ HasDelivery(c) <=> Sends(calls, c)
  BY DEF MessageOf, Named, HasDelivery, Sends, Request

LEMMA BridgeMessages ==
    ASSUME NEW c, NEW m
    PROVE  SeenMessage(c, m) = Sees(calls, messages, c, m)
  BY DEF SeenMessage, Sees, Own, MessageOf, Named, Request

\* A delivery that a transaction sees is one of its own or a committed one.
LEMMA BridgeDeliveries ==
    ASSUME NEW c, NEW d
    PROVE  /\ d \in Tx(c) /\ Sends(calls, d) =>
                /\ SeenDelivery(c, d).state = "pending"
                /\ SeenDelivery(c, d).message = Named(calls, d)
                /\ SeenDelivery(c, d).key = calls[d].request.key
                /\ SeenDelivery(c, d).target = calls[d].request.target
           /\ ~(d \in Tx(c) /\ Sends(calls, d)) => SeenDelivery(c, d) = deliveries[d]
<1>1. CASE d \in Tx(c) /\ Sends(calls, d)
  <2>1. SeenDelivery(c, d) =
          Delivery(Named(calls, d), calls[d].request.key, calls[d].request.target)
    BY <1>1, BridgeCalls DEF SeenDelivery, Request
  <2> QED
    BY <1>1, <2>1 DEF Delivery
<1>2. CASE ~(d \in Tx(c) /\ Sends(calls, d))
  BY <1>2, BridgeCalls DEF SeenDelivery
<1> QED
  BY <1>1, <1>2

\* A call that only moves on.
LEMMA GotoIs ==
    ASSUME calls \in [Call -> CallState], NEW c \in Call,
           NEW label \in {"clock", "existing", "delivery", "refind", "commit", "refused"},
           Goto(c, label)
    PROVE  \E x \in CallState :
             /\ Becomes(calls, calls', c, x) /\ x.pc = label
             /\ x.request = calls[c].request /\ x.createdAt = calls[c].createdAt
             /\ x.inserted = calls[c].inserted /\ x.answer = calls[c].answer
<1>1. PICK x : x = [calls[c] EXCEPT !.pc = label]
  OBVIOUS
<1>2. /\ x \in CallState /\ x.pc = label
      /\ x.request = calls[c].request /\ x.createdAt = calls[c].createdAt
      /\ x.inserted = calls[c].inserted /\ x.answer = calls[c].answer
  BY <1>1 DEF CallState
<1>3. Becomes(calls, calls', c, x)
  BY <1>1 DEF Goto, Becomes
<1> QED
  BY <1>2, <1>3

LEMMA EndCloses ==
    ASSUME IInv, NEW c \in Call, NEW b \in BOOLEAN, End(c, b)
    PROVE  /\ Closes(calls, calls', c)
           /\ ~b => \A o \in Call : calls'[o].pc = "published" => calls[o].pc = "published"
<1>1. calls \in [Call -> CallState] /\ NoCall \notin Call
  BY PublicationAssumption DEF IInv, Inv, Types
<1>2. /\ Ended("failed").pc = "failed" /\ Ended("failed").inserted = "no"
      /\ Ended("failed") \in CallState
  BY DEF Ended, CallState, Outcomes, NoRequest, RequestRow
<1>3. ASSUME NEW o \in Call
      PROVE  /\ Published(o) \in CallState
             /\ Published(o).pc = "published" /\ Published(o).inserted = "no"
             /\ Published(o).request = calls[o].request
             /\ Published(o).answer = calls[o].answer
  <2>1. PICK e : e = Ended("published")
    OBVIOUS
  <2>2. e \in CallState /\ e.pc = "published" /\ e.inserted = "no"
    BY <2>1 DEF Ended, CallState, Outcomes, NoRequest, RequestRow
  <2>3. calls[o].request \in RequestRow /\ calls[o].answer \in Call \cup {NoCall}
    BY <1>1 DEF CallState
  <2>4. Published(o) = [e EXCEPT !.request = calls[o].request, !.answer = calls[o].answer]
    BY <2>1 DEF Published, Request
  <2> QED
    BY <2>2, <2>3, <2>4 DEF CallState
<1>4. ASSUME NEW o \in Call
      PROVE  /\ calls'[o] = IF o \in Tx(c) THEN EndedWith(o, b) ELSE calls[o]
             /\ EndedWith(o, b) \in CallState
  BY <1>1, <1>2, <1>3 DEF End, EndedWith
<1>5. calls' \in [Call -> CallState]
  BY <1>1, <1>4 DEF End
<1>6. ASSUME NEW o \in Call
      PROVE  \/ /\ o \in Tx(c) => calls[o].pc \in {"new"} \cup Outcomes
                /\ calls'[o] = calls[o]
             \/ /\ o \in Tx(c) /\ calls[o].pc \notin {"new"} \cup Outcomes
                /\ calls'[o].pc \in Outcomes /\ calls'[o].inserted = "no"
                /\ calls'[o].pc = "published" =>
                     /\ b /\ calls[o].pc = "commit"
                     /\ calls'[o].request = calls[o].request
                     /\ calls'[o].answer = calls[o].answer
  <2>1. CASE o \notin Tx(c)
    BY <1>4, <2>1
  <2>2. CASE o \in Tx(c) /\ calls[o].pc \in {"new"} \cup Outcomes
    BY <1>4, <2>2 DEF EndedWith
  <2>3. CASE /\ o \in Tx(c) /\ calls[o].pc \notin {"new"} \cup Outcomes
             /\ b /\ calls[o].pc = "commit"
    <3>1. calls'[o] = Published(o)
      BY <1>4, <2>3 DEF EndedWith
    <3> QED
      BY <1>3, <2>3, <3>1 DEF Outcomes
  <2>4. CASE /\ o \in Tx(c) /\ calls[o].pc \notin {"new"} \cup Outcomes
             /\ ~(b /\ calls[o].pc = "commit")
    <3>1. calls'[o] = Ended("failed")
      BY <1>4, <2>4 DEF EndedWith
    <3> QED
      BY <1>2, <2>4, <3>1 DEF Outcomes
  <2> QED
    BY <2>1, <2>2, <2>3, <2>4
<1>7. Closes(calls, calls', c)
  BY <1>5, <1>6 DEF Closes
<1>8. ASSUME ~b, NEW o \in Call, calls'[o].pc = "published"
      PROVE  calls[o].pc = "published"
  BY <1>6, <1>8
<1> QED
  BY <1>7, <1>8

LEMMA RollbackKeeps ==
    ASSUME IInv, NEW c \in Call, End(c, FALSE),
           UNCHANGED << now, messages, deliveries, cleaner >>
    PROVE  IInv'
<1>1. /\ Closes(calls, calls', c)
      /\ \A o \in Call : calls'[o].pc = "published" => calls[o].pc = "published"
  BY EndCloses
<1>2. Inv(calls', messages, deliveries, cleaner, now)
  BY <1>1, AbortStep DEF IInv
<1> QED
  BY <1>2 DEF IInv

LEMMA RefuseKeeps ==
    ASSUME IInv, NEW c \in Call, Running(calls, c), Refuse(c),
           UNCHANGED << now, messages, deliveries, cleaner >>
    PROVE  IInv'
<1>1. CASE c \in CallerTx
  <2>1. Goto(c, "refused") /\ calls \in [Call -> CallState]
    BY <1>1 DEF Refuse, IInv, Inv, Types
  <2>2. PICK x \in CallState :
             /\ Becomes(calls, calls', c, x) /\ x.pc = "refused"
             /\ x.request = calls[c].request /\ x.createdAt = calls[c].createdAt
             /\ x.inserted = calls[c].inserted /\ x.answer = calls[c].answer
    BY <2>1, GotoIs
  <2>3. CallOK(c, x) /\ x.pc \notin Outcomes
    BY <1>1, <2>2 DEF CallOK, Outcomes
  <2>4. calls[c].pc \notin Outcomes \cup {"commit", "refused"}
    BY DEF Running, Resting
  <2>5. Inv(calls', messages, deliveries, cleaner, now)
    BY <2>2, <2>3, <2>4, PlainStep DEF IInv
  <2> QED
    BY <2>5 DEF IInv
<1>2. CASE c \notin CallerTx
  BY <1>2, RollbackKeeps DEF Refuse
<1> QED
  BY <1>1, <1>2

LEMMA BeginKeeps ==
    ASSUME IInv, NEW c \in Call, Begin(c)
    PROVE  IInv'
<1>1. calls \in [Call -> CallState] /\ CallOK(c, calls[c])
  BY DEF IInv, Inv, Types, CallInv
<1>2. PICK id \in ExplicitID \cup {NoID}, k \in Key \cup {NoKey},
           b \in Content, u \in Target :
        calls' = [calls EXCEPT
            ![c].request = [id |-> id, key |-> k, content |-> b, target |-> u],
            ![c].pc = IF k = NoKey THEN "clock" ELSE "find"]
  BY DEF Begin
<1>3. PICK r : r = [id |-> id, key |-> k, content |-> b, target |-> u]
  OBVIOUS
<1>4. PICK label : label = IF k = NoKey THEN "clock" ELSE "find"
  OBVIOUS
<1>5. r \in RequestRow /\ label \in {"clock", "find"}
  BY <1>3, <1>4 DEF RequestRow
<1>6. PICK x : x = [calls[c] EXCEPT !.request = r, !.pc = label]
  OBVIOUS
<1>7. /\ x \in CallState /\ x.pc = label
      /\ x.inserted = calls[c].inserted /\ x.createdAt = calls[c].createdAt
  BY <1>1, <1>5, <1>6 DEF CallState
<1>8. Becomes(calls, calls', c, x)
  BY <1>1, <1>2, <1>3, <1>4, <1>6 DEF Becomes
<1>9. calls[c].pc = "new" /\ \A o \in Tx(c) : ~Running(calls, o)
  BY DEF Begin, Running
<1>10. x.inserted = "no" /\ x.pc \notin Outcomes /\ CallOK(c, x)
  BY <1>1, <1>5, <1>7, <1>9 DEF CallOK, Outcomes
<1>11. calls[c].pc \notin Outcomes \cup {"commit", "refused"}
  BY <1>9 DEF Outcomes
<1>12. x.pc \notin {"commit", "unwind", "delivery"}
  BY <1>5, <1>7
<1>13. Inv(calls', messages, deliveries, cleaner, now)
  BY <1>7, <1>8, <1>9, <1>10, <1>11, <1>12, PlainStep DEF IInv
<1> QED
  BY <1>13 DEF IInv, Begin

\* A call that only moves on, but not yet to COMMIT.
LEMMA MoveKeeps ==
    ASSUME IInv, NEW c \in Call, Running(calls, c),
           NEW label \in {"clock", "existing", "delivery", "refind"}, Goto(c, label),
           label \in {"clock", "existing"} => calls[c].inserted = "no",
           label = "delivery" =>
             /\ Sees(calls, messages, c, Named(calls, c)).live
             /\ Sees(calls, messages, c, Named(calls, c)).content = calls[c].request.content,
           UNCHANGED << now, messages, deliveries, cleaner >>
    PROVE  IInv'
<1>1. calls \in [Call -> CallState]
  BY DEF IInv, Inv, Types
<1>2. PICK x \in CallState :
           /\ Becomes(calls, calls', c, x) /\ x.pc = label
           /\ x.request = calls[c].request /\ x.createdAt = calls[c].createdAt
           /\ x.inserted = calls[c].inserted /\ x.answer = calls[c].answer
  BY <1>1, GotoIs
<1>3. CallOK(c, x) /\ x.pc \notin Outcomes \cup {"commit", "unwind"}
  BY <1>2 DEF CallOK, Outcomes
<1>4. calls[c].pc \notin Outcomes \cup {"commit", "refused"}
  BY DEF Running, Resting
<1>5. Inv(calls', messages, deliveries, cleaner, now)
  BY <1>2, <1>3, <1>4, PlainStep DEF IInv
<1> QED
  BY <1>5 DEF IInv

\* A publication found under the key is not the call's own, and is what the
\* call asks for.
LEMMA HitAnswers ==
    ASSUME IInv, NEW c \in Call, Running(calls, c), NEW d \in SameKey(c), Matches(c, d)
    PROVE  /\ d \in Call /\ d # c
           /\ \/ OwnAnswer(calls, messages, now, c, d)
              \/ OldAnswer(calls, messages, deliveries, now, c, d)
<1>1. PICK row : row = SeenDelivery(c, d)
  OBVIOUS
<1>2. /\ d \in Call /\ row.state # "absent" /\ row.key = calls[c].request.key
      /\ row.target = calls[c].request.target
      /\ calls[c].request.id # NoID => row.message = calls[c].request.id
      /\ Sees(calls, messages, c, row.message).content = calls[c].request.content
  BY <1>1, BridgeMessages DEF SameKey, Matches, Request
<1>3. CASE d \in Tx(c) /\ Sends(calls, d)
  <2>1. /\ row.message = Named(calls, d) /\ row.key = calls[d].request.key
        /\ row.target = calls[d].request.target
    BY <1>1, <1>3, BridgeDeliveries
  <2>2. calls[c].pc # "published" /\ calls[c].pc # "commit"
    BY DEF Running, Resting, Outcomes
  <2>3. d # c
    BY <1>3, <2>2 DEF Sends
  <2> QED
    BY <1>2, <1>3, <2>1, <2>2, <2>3 DEF OwnAnswer, Fits
<1>4. CASE ~(d \in Tx(c) /\ Sends(calls, d))
  <2>1. row = deliveries[d]
    BY <1>1, <1>4, BridgeDeliveries
  <2>2. calls[d].pc \in Outcomes /\ messages[row.message].live
    BY <1>2, <2>1 DEF IInv, Inv, RowInv
  <2>3. Sees(calls, messages, c, row.message) = messages[row.message]
    BY <2>2, SeesLive DEF IInv, Inv
  <2>4. d # c
    BY <2>2 DEF Running
  <2> QED
    BY <1>2, <2>1, <2>2, <2>3, <2>4 DEF OldAnswer, Fits
<1> QED
  BY <1>3, <1>4

LEMMA HitKeeps ==
    ASSUME IInv, NEW c \in Call, Running(calls, c), NEW d \in SameKey(c), Matches(c, d),
           NEW label \in {"commit", "unwind"},
           label = "commit" <=> calls[c].inserted # "yes",
           calls' = [calls EXCEPT ![c].pc = label, ![c].answer = d],
           UNCHANGED << now, messages, deliveries, cleaner >>
    PROVE  IInv'
<1>1. calls \in [Call -> CallState]
  BY DEF IInv, Inv, Types
<1>2. /\ d \in Call /\ d # c
      /\ \/ OwnAnswer(calls, messages, now, c, d)
         \/ OldAnswer(calls, messages, deliveries, now, c, d)
  BY HitAnswers
<1>3. PICK x : x = [calls[c] EXCEPT !.pc = label, !.answer = d]
  OBVIOUS
<1>4. /\ x \in CallState /\ x.pc = label /\ x.answer = d
      /\ x.request = calls[c].request /\ x.createdAt = calls[c].createdAt
      /\ x.inserted = calls[c].inserted
  BY <1>1, <1>2, <1>3 DEF CallState
<1>5. Becomes(calls, calls', c, x)
  BY <1>1, <1>3 DEF Becomes
<1>6. CallOK(c, x) /\ x.pc \notin Outcomes
  BY <1>2, <1>4 DEF CallOK, Outcomes
<1>7. calls[c].pc \notin Outcomes \cup {"commit", "refused"}
  BY DEF Running, Resting
<1>8. x.pc # "delivery" /\ (x.pc = "commit" => x.inserted # "yes")
  BY <1>4
<1>9. Inv(calls', messages, deliveries, cleaner, now)
  BY <1>2, <1>4, <1>5, <1>6, <1>7, <1>8, PlainStep DEF IInv
<1> QED
  BY <1>9 DEF IInv

LEMMA FindKeeps ==
    ASSUME IInv, NEW c \in Call, Find(c)
    PROVE  IInv'
<1>1. calls[c].inserted = "no" /\ Running(calls, c)
  BY DEF IInv, Inv, CallInv, CallOK, Find, Running, Resting, Outcomes
<1>2. UNCHANGED << now, messages, deliveries, cleaner >>
  BY DEF Find
<1>3. CASE Goto(c, "clock")
  BY <1>1, <1>2, <1>3, MoveKeeps
<1>4. CASE \E d \in SameKey(c) : Matches(c, d)
             /\ calls' = [calls EXCEPT ![c].pc = "commit", ![c].answer = d]
  BY <1>1, <1>2, <1>4, HitKeeps
<1>5. CASE Refuse(c)
  BY <1>1, <1>2, <1>5, RefuseKeeps
<1> QED
  BY <1>3, <1>4, <1>5 DEF Find, FindIdempotentPublication

LEMMA RefindKeeps ==
    ASSUME IInv, NEW c \in Call, Refind(c)
    PROVE  IInv'
<1>1. Running(calls, c)
  BY DEF Refind, Running, Resting, Outcomes
<1>2. UNCHANGED << now, messages, deliveries, cleaner >>
  BY DEF Refind
<1>3. PICK label : label = IF calls[c].inserted = "yes" THEN "unwind" ELSE "commit"
  OBVIOUS
<1>4. CASE \E d \in SameKey(c) : Matches(c, d)
             /\ calls' = [calls EXCEPT ![c].pc = label, ![c].answer = d]
  BY <1>1, <1>2, <1>3, <1>4, HitKeeps
<1>5. CASE Refuse(c)
  BY <1>1, <1>2, <1>5, RefuseKeeps
<1> QED
  BY <1>3, <1>4, <1>5 DEF Refind, FindIdempotentPublication

LEMMA ClockKeeps ==
    ASSUME IInv, NEW c \in Call, Clock(c)
    PROVE  IInv'
<1>1. calls \in [Call -> CallState] /\ now \in Nat /\ CallOK(c, calls[c])
  BY DEF IInv, Inv, Types, CallInv
<1>2. PICK x : x = [calls[c] EXCEPT !.pc = "message", !.createdAt = now]
  OBVIOUS
<1>3. /\ x \in CallState /\ x.pc = "message" /\ x.request = calls[c].request
      /\ x.inserted = calls[c].inserted
  BY <1>1, <1>2 DEF CallState
<1>4. Becomes(calls, calls', c, x)
  BY <1>1, <1>2 DEF Clock, Becomes
<1>5. calls[c].pc = "clock" /\ x.inserted = "no"
  BY <1>1, <1>3 DEF Clock, CallOK
<1>6. /\ Running(calls, c) /\ CallOK(c, x) /\ x.pc \notin Outcomes
      /\ calls[c].pc \notin Outcomes \cup {"commit", "refused"}
  BY <1>3, <1>5 DEF CallOK, Running, Resting, Outcomes
<1>7. Inv(calls', messages, deliveries, cleaner, now)
  BY <1>3, <1>4, <1>5, <1>6, PlainStep DEF IInv
<1> QED
  BY <1>7 DEF IInv, Clock

LEMMA InsertMessageKeeps ==
    ASSUME IInv, NEW c \in Call, InsertMessage(c)
    PROVE  IInv'
<1> DEFINE m == Named(calls, c)
<1>1. /\ calls \in [Call -> CallState] /\ CallOK(c, calls[c])
      /\ InsertInv(calls, messages)
  BY DEF IInv, Inv, Types, CallInv
<1>2. /\ calls[c].pc = "message" /\ calls[c].inserted = "no" /\ Running(calls, c)
      /\ UNCHANGED << now, messages, deliveries, cleaner >>
  BY <1>1 DEF InsertMessage, CallOK, Running, Resting, Outcomes
<1>3. CASE SeenMessage(c, MessageOf(c)).live
  <2>1. Goto(c, "existing")
    BY <1>3 DEF InsertMessage
  <2> QED
    BY <1>2, <2>1, MoveKeeps
<1>4. CASE ~SeenMessage(c, MessageOf(c)).live
  <2>1. ~Sees(calls, messages, c, m).live
    BY <1>4, BridgeCalls, BridgeMessages
  <2>2. \A o \in Tx(c) : calls[o].inserted = "yes" => Named(calls, o) # m
    BY <1>1, <2>1, SeesOwn, MessageIsLive
  <2>3. ~messages[m].live
    BY <2>1, <2>2, SeesTable
  <2>4. \A o \in Call : calls[o].inserted # "no" /\ Named(calls, o) = m => o \in Tx(c)
    BY <1>2, BridgeCalls DEF InsertMessage, Blockers
  <2>5. \A d \in Tx(c) : Sends(calls, d) => Named(calls, d) # m
    <3> SUFFICES ASSUME NEW d \in Tx(c), Sends(calls, d), Named(calls, d) = m
                 PROVE  FALSE
      OBVIOUS
    <3>1. d \in Call
      BY TxIs
    <3>2. Sees(calls, messages, d, m).live
      BY <3>1 DEF IInv, Inv, LockInv
    <3> QED
      BY <2>1, <3>2, SeesTx
  <2>6. calls' = [calls EXCEPT ![c].pc = "delivery", ![c].inserted = "yes"]
    BY <1>4 DEF InsertMessage
  <2>7. PICK x : x = [calls[c] EXCEPT !.pc = "delivery", !.inserted = "yes"]
    OBVIOUS
  <2>8. /\ x \in CallState /\ x.pc = "delivery" /\ x.inserted = "yes"
        /\ x.request = calls[c].request /\ x.answer = calls[c].answer
    BY <1>1, <2>7 DEF CallState
  <2>9. /\ Becomes(calls, calls', c, x) /\ calls'[c] = x
        /\ \A o \in Call : o # c => calls'[o] = calls[o]
    BY <1>1, <2>6, <2>7 DEF Becomes
  <2>10. CallOK(c, x)
    BY <2>8 DEF CallOK, Outcomes
  <2>11. \A o \in Call : Named(calls', o) = Named(calls, o)
    BY <2>8, <2>9 DEF Named
  <2>12. InsertInv(calls', messages)
    <3>1. \A o \in Call : calls'[o].inserted # "no" => ~messages[Named(calls', o)].live
      BY <1>1, <2>3, <2>9, <2>11 DEF InsertInv
    <3>2. ASSUME NEW o \in Call, NEW p \in Call,
                 calls'[o].inserted # "no", calls'[p].inserted # "no",
                 Named(calls', o) = Named(calls', p)
          PROVE  /\ p \in Tx(o)
                 /\ calls'[o].inserted = "yes" /\ calls'[p].inserted = "yes" => p = o
      <4>1. CASE o = c /\ p = c
        BY <4>1, TxIs
      <4>2. CASE o = c /\ p # c
        BY <2>2, <2>4, <2>9, <2>11, <3>2, <4>2
      <4>3. CASE o # c /\ p = c
        <5>1. o \in Tx(c) /\ calls[o].inserted # "yes"
          BY <2>2, <2>4, <2>9, <2>11, <3>2, <4>3
        <5> QED
          BY <2>9, <4>3, <5>1, TxIs
      <4>4. CASE o # c /\ p # c
        BY <1>1, <2>9, <2>11, <3>2, <4>4 DEF InsertInv
      <4> QED
        BY <4>1, <4>2, <4>3, <4>4
    <3>3. \A k \in Call : messages[k].live => calls'[k].pc \in Outcomes
      <4>1. calls[c].pc \notin Outcomes
        BY <1>2 DEF Outcomes
      <4> QED
        BY <1>1, <2>9, <4>1 DEF InsertInv
    <3> QED
      BY <3>1, <3>2, <3>3 DEF InsertInv
  <2>13. Inv(calls', messages, deliveries, cleaner, now)
    BY <1>2, <2>5, <2>8, <2>9, <2>10, <2>12, MessageStep DEF IInv
  <2> QED
    BY <1>2, <2>13 DEF IInv
<1> QED
  BY <1>3, <1>4

LEMMA ReadExistingKeeps ==
    ASSUME IInv, NEW c \in Call, ReadExisting(c)
    PROVE  IInv'
<1>1. Running(calls, c) /\ UNCHANGED << now, messages, deliveries, cleaner >>
  BY DEF ReadExisting, Running, Resting, Outcomes
<1>2. SeenMessage(c, MessageOf(c)) = Sees(calls, messages, c, Named(calls, c))
  BY BridgeCalls, BridgeMessages
<1>3. CASE Refuse(c)
  BY <1>1, <1>3, RefuseKeeps
<1>4. CASE /\ Goto(c, "delivery") /\ SeenMessage(c, MessageOf(c)).live
           /\ SeenMessage(c, MessageOf(c)).content = Request(c).content
  <2>1. /\ Sees(calls, messages, c, Named(calls, c)).live
        /\ Sees(calls, messages, c, Named(calls, c)).content = calls[c].request.content
    BY <1>2, <1>4 DEF Request
  <2> QED
    BY <1>1, <1>4, <2>1, MoveKeeps
<1> QED
  BY <1>3, <1>4 DEF ReadExisting

\* No other delivery, committed or not, has the key of a call that finds it free.
LEMMA KeyIsFree ==
    ASSUME IInv, NEW c \in Call, calls[c].pc = "delivery", ~KeyTaken(c), Blockers(c) = {},
           calls[c].request.key # NoKey
    PROVE  /\ \A d \in Call : deliveries[d].state # "absent" =>
                deliveries[d].key # calls[c].request.key
           /\ \A o \in Call : Sends(calls, o) =>
                calls[o].request.key # calls[c].request.key
<1>1. ASSUME NEW d \in Call
      PROVE  SeenDelivery(c, d).state = "absent"
               \/ SeenDelivery(c, d).key # calls[c].request.key
  BY DEF KeyTaken, SameKey, Request
<1>2. ASSUME NEW d \in Call, deliveries[d].state # "absent"
      PROVE  deliveries[d].key # calls[c].request.key
  <2>1. ~Sends(calls, d)
    BY <1>2 DEF IInv, Inv, RowInv, Sends, Outcomes
  <2> QED
    BY <1>1, <1>2, <2>1, BridgeDeliveries
<1>3. ASSUME NEW o \in Call, Sends(calls, o)
      PROVE  calls[o].request.key # calls[c].request.key
  <2>1. CASE o \in Tx(c)
    BY <1>1, <1>3, <2>1, BridgeDeliveries
  <2>2. CASE o \notin Tx(c)
    BY <1>3, <2>2, BridgeCalls DEF Blockers, Request
  <2> QED
    BY <2>1, <2>2
<1> QED
  BY <1>2, <1>3

LEMMA InsertDeliveryKeeps ==
    ASSUME IInv, NEW c \in Call, InsertDelivery(c)
    PROVE  IInv'
<1>1. /\ calls[c].pc = "delivery" /\ Running(calls, c)
      /\ calls \in [Call -> CallState]
      /\ UNCHANGED << now, messages, deliveries, cleaner >>
  BY DEF InsertDelivery, Running, Resting, Outcomes, IInv, Inv, Types
<1>2. CASE Goto(c, "refind")
  BY <1>1, <1>2, MoveKeeps
<1>3. CASE End(c, FALSE)
  BY <1>1, <1>3, RollbackKeeps
<1>4. CASE /\ ~KeyTaken(c) /\ SeenMessage(c, MessageOf(c)).live
           /\ calls' = [calls EXCEPT ![c].pc = "commit", ![c].answer = c]
  <2>1. Sees(calls, messages, c, Named(calls, c)).live
    BY <1>4, BridgeCalls, BridgeMessages
  <2>2. /\ Blockers(c) = {}
        /\ ~(cleaner.step = "deleted" /\ Named(calls, c) \in cleaner.orphans)
    BY BridgeCalls DEF InsertDelivery, DeliveryWaits, BeingRemoved
  <2>3. calls[c].request.key # NoKey =>
          /\ \A d \in Call : deliveries[d].state # "absent" =>
               deliveries[d].key # calls[c].request.key
          /\ \A o \in Call : Sends(calls, o) =>
               calls[o].request.key # calls[c].request.key
    BY <1>1, <1>4, <2>2, KeyIsFree
  <2>4. PICK x : x = [calls[c] EXCEPT !.pc = "commit", !.answer = c]
    OBVIOUS
  <2>5. /\ x \in CallState /\ x.pc = "commit" /\ x.answer = c
        /\ x.request = calls[c].request /\ x.inserted = calls[c].inserted
        /\ x.createdAt = calls[c].createdAt
    BY <1>1, <2>4 DEF CallState
  <2>6. Becomes(calls, calls', c, x)
    BY <1>1, <1>4, <2>4 DEF Becomes
  <2>7. Inv(calls', messages, deliveries, cleaner, now)
    BY <1>1, <2>1, <2>2, <2>3, <2>5, <2>6, DeliverStep DEF IInv
  <2> QED
    BY <1>1, <2>7 DEF IInv
<1> QED
  BY <1>2, <1>3, <1>4 DEF InsertDelivery

LEMMA RemoveMessageKeeps ==
    ASSUME IInv, NEW c \in Call, RemoveMessage(c)
    PROVE  IInv'
<1> DEFINE seen == \E d \in Call : SeenDelivery(c, d).state # "absent"
                                   /\ SeenDelivery(c, d).message = MessageOf(c)
<1>1. /\ calls \in [Call -> CallState] /\ CallOK(c, calls[c])
      /\ InsertInv(calls, messages)
  BY DEF IInv, Inv, Types, CallInv
<1>2. /\ calls[c].pc = "unwind" /\ Running(calls, c) /\ calls[c].inserted = "yes"
      /\ calls[c].answer \in Call /\ calls[c].answer # c
      /\ UNCHANGED << now, messages, deliveries, cleaner >>
  BY <1>1 DEF RemoveMessage, Running, Resting, Outcomes, CallOK
<1>3. CASE seen
  <2>1. PICK d \in Call : SeenDelivery(c, d).state # "absent"
                          /\ SeenDelivery(c, d).message = Named(calls, c)
    BY <1>3, BridgeCalls
  <2>2. d \in Tx(c) /\ Sends(calls, d)
    <3> SUFFICES ASSUME SeenDelivery(c, d) = deliveries[d] PROVE FALSE
      BY BridgeDeliveries
    <3>1. messages[Named(calls, c)].live
      BY <2>1 DEF IInv, Inv, RowInv
    <3> QED
      BY <1>1, <1>2, <3>1 DEF InsertInv
  <2>3. Named(calls, d) = Named(calls, c)
    BY <2>1, <2>2, BridgeDeliveries
  <2>4. Goto(c, "commit")
    BY <1>3 DEF RemoveMessage
  <2>5. PICK x \in CallState :
             /\ Becomes(calls, calls', c, x) /\ x.pc = "commit"
             /\ x.request = calls[c].request /\ x.createdAt = calls[c].createdAt
             /\ x.inserted = calls[c].inserted /\ x.answer = calls[c].answer
    BY <1>1, <2>4, GotoIs
  <2>6. CallOK(c, x) /\ x.pc \notin Outcomes
    BY <1>2, <2>5 DEF CallOK, Outcomes
  <2>7. \/ OwnAnswer(calls, messages, now, c, x.answer)
        \/ OldAnswer(calls, messages, deliveries, now, c, x.answer)
    BY <1>2, <2>5 DEF IInv, Inv, AnswerInv
  <2>8. calls[c].pc \notin Outcomes \cup {"commit", "refused"}
    BY <1>2 DEF Outcomes
  <2>9. Inv(calls', messages, deliveries, cleaner, now)
    BY <1>2, <2>2, <2>3, <2>5, <2>6, <2>7, <2>8, PlainStep DEF IInv
  <2> QED
    BY <1>2, <2>9 DEF IInv
<1>4. CASE ~seen
  <2>1. ASSUME NEW d \in Tx(c), Sends(calls, d) PROVE Named(calls, d) # Named(calls, c)
    <3>1. d \in Call
      BY TxIs
    <3> QED
      BY <1>4, <2>1, <3>1, BridgeCalls, BridgeDeliveries
  <2>2. calls' = [calls EXCEPT ![c].pc = "commit", ![c].inserted = "undone"]
    BY <1>4 DEF RemoveMessage
  <2>3. PICK x : x = [calls[c] EXCEPT !.pc = "commit", !.inserted = "undone"]
    OBVIOUS
  <2>4. /\ x \in CallState /\ x.pc = "commit" /\ x.inserted = "undone"
        /\ x.request = calls[c].request /\ x.answer = calls[c].answer
    BY <1>1, <2>3 DEF CallState
  <2>5. /\ Becomes(calls, calls', c, x) /\ calls'[c] = x
        /\ \A o \in Call : o # c => calls'[o] = calls[o]
    BY <1>1, <2>2, <2>3 DEF Becomes
  <2>6. CallOK(c, x)
    BY <1>2, <2>4 DEF CallOK, Outcomes
  <2>7. \A o \in Call : /\ Named(calls', o) = Named(calls, o)
                        /\ calls'[o].inserted # "no" => calls[o].inserted # "no"
                        /\ calls'[o].inserted = "yes" => calls[o].inserted = "yes"
                        /\ calls[o].pc \in Outcomes => calls'[o].pc \in Outcomes
    BY <1>2, <2>4, <2>5 DEF Named, Outcomes
  <2>8. InsertInv(calls', messages)
    BY <1>1, <2>7 DEF InsertInv
  <2>9. Inv(calls', messages, deliveries, cleaner, now)
    BY <1>2, <2>1, <2>4, <2>5, <2>6, <2>8, MessageStep DEF IInv
  <2> QED
    BY <1>2, <2>9 DEF IInv
<1> QED
  BY <1>3, <1>4

\* What COMMIT does to the two tables.
LEMMA CommitLeaves ==
    ASSUME NEW c \in Call, Commit(c)
    PROVE  /\ LeavesMessages(calls, messages, messages', c)
           /\ LeavesDeliveries(calls, deliveries, deliveries', c)
<1>1. LeavesMessages(calls, messages, messages', c)
  BY BridgeMessages DEF Commit, LeavesMessages
<1>2. ASSUME NEW d \in Call
      PROVE  SeenDelivery(c, d) =
               IF d \in Tx(c) /\ Sends(calls, d)
               THEN Delivery(Named(calls, d), calls[d].request.key, calls[d].request.target)
               ELSE deliveries[d]
  BY BridgeCalls DEF SeenDelivery, Request
<1>3. LeavesDeliveries(calls, deliveries, deliveries', c)
  BY <1>2 DEF Commit, LeavesDeliveries
<1> QED
  BY <1>1, <1>3

LEMMA CommitKeeps ==
    ASSUME IInv, NEW c \in Call, Commit(c)
    PROVE  IInv'
<1>1. Closes(calls, calls', c) /\ UNCHANGED << now, cleaner >>
  BY EndCloses DEF Commit
<1>2. /\ LeavesMessages(calls, messages, messages', c)
      /\ LeavesDeliveries(calls, deliveries, deliveries', c)
  BY CommitLeaves
<1>3. Inv(calls', messages', deliveries', cleaner, now)
  BY <1>1, <1>2, CommitStep DEF IInv
<1> QED
  BY <1>1, <1>3 DEF IInv

LEMMA AbortKeeps ==
    ASSUME IInv, NEW c \in Call, Abort(c)
    PROVE  IInv'
  BY RollbackKeeps DEF Abort

LEMMA CompleteKeeps ==
    ASSUME IInv, NEW d \in Call, Complete(d)
    PROVE  IInv'
<1>1. /\ Completes(deliveries, deliveries', d, now) /\ deliveries[d].state = "pending"
      /\ d \notin cleaner.removed /\ UNCHANGED << now, messages, calls, cleaner >>
  BY DEF Complete, Completes
<1>2. Inv(calls, messages, deliveries', cleaner, now)
  BY <1>1, CompleteStep DEF IInv
<1> QED
  BY <1>1, <1>2 DEF IInv

LEMMA TickKeeps ==
    ASSUME IInv, Tick
    PROVE  IInv'
<1>1. Inv(calls, messages, deliveries, cleaner, now + 1)
  BY TickStep DEF IInv
<1> QED
  BY <1>1 DEF IInv, Tick

LEMMA CleanupDeliveriesKeeps ==
    ASSUME IInv, CleanupDeliveries
    PROVE  IInv'
<1>1. PICK removed \in SUBSET Call :
        /\ cleaner' = Cleaning("deliveries", now, removed, {})
        /\ \A d \in removed : deliveries[d].state = "terminal"
  BY DEF CleanupDeliveries
<1>2. now \in Nat
  BY DEF IInv, Inv, Types
<1>3. /\ cleaner' \in CleanerState /\ cleaner'.step = "deliveries"
      /\ cleaner'.now = now /\ cleaner'.removed = removed /\ cleaner'.orphans = {}
  <2>1. PICK cl : cl = cleaner'
    OBVIOUS
  <2> QED
    BY <1>1, <1>2, <2>1, CleaningIs
<1>4. CleanInv(calls, deliveries, cleaner', now)
  BY <1>1, <1>2, <1>3 DEF CleanInv
<1>5. Inv(calls, messages, deliveries, cleaner', now)
  BY <1>3, <1>4, CleanerStep DEF IInv
<1> QED
  BY <1>5 DEF IInv, CleanupDeliveries

LEMMA CleanupSnapshotKeeps ==
    ASSUME IInv, CleanupSnapshot
    PROVE  IInv'
<1>1. /\ cleaner \in CleanerState /\ now \in Nat /\ OrphanRetention \in Nat
      /\ messages \in [MessageID -> MessageRow] /\ CleanInv(calls, deliveries, cleaner, now)
  BY PublicationAssumption DEF IInv, Inv, Types
<1>2. PICK orphans : orphans = IF OrphanRetention > 0
                               THEN Orphans(cleaner.now, cleaner.removed) ELSE {}
  OBVIOUS
<1>3. orphans \in SUBSET MessageID
  BY <1>2 DEF Orphans
<1>4. cleaner.now \in Nat /\ cleaner.removed \in SUBSET Call /\ cleaner.now <= now
  BY <1>1 DEF CleanerState, CleanInv
<1>5. /\ cleaner' \in CleanerState /\ cleaner'.step = "snapshot"
      /\ cleaner'.now = cleaner.now /\ cleaner'.removed = cleaner.removed
      /\ cleaner'.orphans = orphans
  <2>1. PICK cl : cl = cleaner'
    OBVIOUS
  <2>2. cl = Cleaning("snapshot", cleaner.now, cleaner.removed, orphans)
    BY <1>2, <2>1 DEF CleanupSnapshot
  <2> QED
    BY <1>3, <1>4, <2>1, <2>2, CleaningIs
<1>6. ASSUME NEW m \in orphans
      PROVE  /\ OrphanRetention > 0 /\ messages[m].live
             /\ messages[m].created_at < cleaner.now - OrphanRetention
             /\ \A d \in Call \ cleaner.removed : ~Refers(deliveries, d, m)
  BY <1>2, <1>6 DEF Orphans, References, Refers
<1>7. ASSUME NEW m \in orphans PROVE now > OrphanRetention
  <2>1. messages[m].created_at \in Nat
    BY <1>1, <1>3, <1>7 DEF MessageRow
  <2> QED
    BY <1>1, <1>4, <1>6, <1>7, <2>1
<1>8. \A m \in orphans \cap Call : calls[m].pc \in Outcomes
  BY <1>6 DEF IInv, Inv, InsertInv
<1>9. CleanInv(calls, deliveries, cleaner', now)
  <2>1. \A d \in cleaner.removed :
         /\ deliveries[d].state # "absent"
         /\ deliveries[d].state = "pending" => deliveries[d].message \notin Call
    BY <1>1 DEF CleanInv
  <2>2. cleaner'.orphans # {} => OrphanRetention > 0 /\ now > OrphanRetention
    BY <1>5, <1>6, <1>7
  <2>3. \A m \in cleaner'.orphans \cap Call :
         calls[m].pc \in Outcomes
           /\ \A d \in Call \ cleaner'.removed : ~Refers(deliveries, d, m)
    BY <1>5, <1>6, <1>8
  <2> QED
    BY <1>4, <1>5, <2>1, <2>2, <2>3 DEF CleanInv
<1>10. Inv(calls, messages, deliveries, cleaner', now)
  BY <1>5, <1>9, CleanerStep DEF IInv
<1> QED
  BY <1>10 DEF IInv, CleanupSnapshot

LEMMA CleanupOrphansKeeps ==
    ASSUME IInv, CleanupOrphans
    PROVE  IInv'
<1>1. /\ cleaner \in CleanerState /\ CleanInv(calls, deliveries, cleaner, now)
      /\ cleaner.step = "snapshot"
  BY DEF IInv, Inv, Types, CleanupOrphans
<1>2. PICK orphans \in SUBSET cleaner.orphans :
        /\ cleaner' = Cleaning("deleted", cleaner.now,
             cleaner.removed \cup
               { d \in Call : \E m \in orphans : References(d, m) },
             orphans)
        /\ \A m \in orphans : ~\E c \in Call : HasDelivery(c) /\ MessageOf(c) = m
  BY DEF CleanupOrphans
<1>3. PICK removed : removed = cleaner.removed \cup
               { d \in Call : \E m \in orphans : References(d, m) }
  OBVIOUS
<1>4. /\ cleaner.now \in Nat /\ cleaner.removed \in SUBSET Call
      /\ orphans \in SUBSET MessageID /\ removed \in SUBSET Call
  BY <1>1, <1>3 DEF CleanerState
<1>5. /\ cleaner' \in CleanerState /\ cleaner'.step = "deleted"
      /\ cleaner'.now = cleaner.now /\ cleaner'.removed = removed
      /\ cleaner'.orphans = orphans
  <2>1. PICK cl : cl = cleaner'
    OBVIOUS
  <2>2. cl = Cleaning("deleted", cleaner.now, removed, orphans)
    BY <1>2, <1>3, <2>1
  <2> QED
    BY <1>4, <2>1, <2>2, CleaningIs
<1>6. \A c \in Call : Sends(calls, c) => Named(calls, c) \notin orphans
  BY <1>2, BridgeCalls
<1>7. ASSUME NEW d \in removed
      PROVE  /\ deliveries[d].state # "absent"
             /\ deliveries[d].state = "pending" => deliveries[d].message \notin Call
  <2>1. CASE d \in cleaner.removed
    BY <1>1, <2>1 DEF CleanInv
  <2>2. CASE d \notin cleaner.removed
    <3>1. PICK m \in orphans : References(d, m) /\ d \in Call
      BY <1>3, <1>7, <2>2
    <3>2. Refers(deliveries, d, m) /\ deliveries[d].state # "absent"
             /\ deliveries[d].message = m
      BY <3>1 DEF References, Refers
    <3>3. m \notin Call
      BY <1>1, <1>2, <2>2, <3>1, <3>2 DEF CleanInv
    <3> QED
      BY <3>2, <3>3
  <2> QED
    BY <2>1, <2>2
<1>8. CleanInv(calls, deliveries, cleaner', now)
  <2>1. \A m \in orphans, d \in Call : Refers(deliveries, d, m) => d \in removed
    BY <1>3 DEF Refers, References
  <2>2. /\ cleaner.now <= now
        /\ orphans # {} => OrphanRetention > 0 /\ now > OrphanRetention
        /\ \A m \in orphans \cap Call :
             calls[m].pc \in Outcomes
               /\ \A d \in Call \ removed : ~Refers(deliveries, d, m)
    BY <1>1, <1>2, <1>3 DEF CleanInv
  <2> QED
    BY <1>5, <1>7, <2>1, <2>2 DEF CleanInv
<1>9. Inv(calls, messages, deliveries, cleaner', now)
  BY <1>5, <1>6, <1>8, CleanerStep DEF IInv
<1> QED
  BY <1>9 DEF IInv, CleanupOrphans

LEMMA CleanupCommitKeeps ==
    ASSUME IInv, CleanupCommit
    PROVE  IInv'
<1>1. Inv(calls, messages', deliveries', NotCleaning, now)
  BY CleanCommitStep DEF IInv, CleanupCommit
<1> QED
  BY <1>1 DEF IInv, CleanupCommit

LEMMA CleanupAbortKeeps ==
    ASSUME IInv, CleanupAbort
    PROVE  IInv'
<1>1. Inv(calls, messages, deliveries, NotCleaning, now)
  BY IdleStep DEF IInv
<1> QED
  BY <1>1 DEF IInv, CleanupAbort

-----------------------------------------------------------------------------
(* The theorems. *)

LEMMA InitIInv ==
    ASSUME Init
    PROVE  IInv
<1>1. /\ Ended("new") \in CallState /\ Ended("new").pc = "new"
      /\ Ended("new").inserted = "no"
  BY DEF Ended, CallState, Outcomes, NoRequest, RequestRow
<1>2. NoMessage \in MessageRow /\ ~NoMessage.live
  BY DEF NoMessage, MessageRow
<1>3. NoDelivery \in DeliveryRow /\ NoDelivery.state = "absent"
  BY DEF NoDelivery, DeliveryRow
<1>4. /\ calls \in [Call -> CallState] /\ messages \in [MessageID -> MessageRow]
      /\ deliveries \in [Call -> DeliveryRow]
      /\ \A c \in Call : calls[c].pc = "new" /\ calls[c].inserted = "no"
      /\ \A m \in MessageID : ~messages[m].live
      /\ \A d \in Call : deliveries[d].state = "absent"
      /\ Call \subseteq MessageID
  BY <1>1, <1>2, <1>3 DEF Init, MessageID
<1>5. /\ cleaner \in CleanerState /\ cleaner.step = "idle" /\ cleaner.now = 0
      /\ cleaner.removed = {} /\ cleaner.orphans = {} /\ now = 0
  BY NotCleaningIs DEF Init
<1>6. Types(calls, messages, deliveries, cleaner, now)
  BY <1>4, <1>5 DEF Types
<1>7. CallInv(calls)
  BY <1>4 DEF CallInv, CallOK, Running, Resting
<1>8. InsertInv(calls, messages) /\ RowInv(calls, messages, deliveries)
  BY <1>4 DEF InsertInv, RowInv
<1>9. \A c \in Call : ~Sends(calls, c)
  BY <1>4 DEF Sends
<1>10. LockInv(calls, messages, cleaner) /\ KeyInv(calls, deliveries) /\ UsedInv(calls)
  BY <1>4, <1>9 DEF LockInv, KeyInv, UsedInv
<1>11. AnswerInv(calls, messages, deliveries, now) /\ BackedInv(calls, messages, now)
  BY <1>4 DEF AnswerInv, BackedInv
<1>12. CleanInv(calls, deliveries, cleaner, now)
  BY <1>5 DEF CleanInv
<1> QED
  BY <1>6, <1>7, <1>8, <1>10, <1>11, <1>12 DEF IInv, Inv

\* Every step of a publication, of a worker and of Cleanup keeps the inductive
\* invariant.
LEMMA NextIInv ==
    ASSUME IInv, [Next]_vars
    PROVE  IInv'
<1>1. CASE Tick
  BY <1>1, TickKeeps
<1>2. ASSUME NEW c \in Call, Begin(c) \/ Step(c) \/ Abort(c) \/ Complete(c)
      PROVE  IInv'
  BY <1>2, BeginKeeps, FindKeeps, ClockKeeps, InsertMessageKeeps, ReadExistingKeeps,
     InsertDeliveryKeeps, RefindKeeps, RemoveMessageKeeps, CommitKeeps, AbortKeeps,
     CompleteKeeps DEF Step
<1>3. CASE Cleanup \/ CleanupAbort
  BY <1>3, CleanupDeliveriesKeeps, CleanupSnapshotKeeps, CleanupOrphansKeeps,
     CleanupCommitKeeps, CleanupAbortKeeps DEF Cleanup
<1>4. CASE UNCHANGED vars
  BY <1>4 DEF IInv, vars
<1> QED
  BY <1>1, <1>2, <1>3, <1>4 DEF Next

\* The locks, unique indexes and foreign key that EnqueueTxWithOptions and
\* Cleanup rely on hold through every interleaving of their statements.
THEOREM Invariance == Spec => []IInv
<1>1. Init => IInv
  BY InitIInv
<1>2. IInv /\ [Next]_vars => IInv'
  BY NextIInv
<1> QED
  BY <1>1, <1>2, PTL DEF Spec

\* The tables, calls and cleaner keep their types, and a call that is about to
\* commit or has succeeded has a delivery ID to return.
THEOREM TypeCorrect == Spec => []TypeOK
<1>1. IInv => TypeOK
  <2> SUFFICES ASSUME IInv PROVE TypeOK
    OBVIOUS
  <2>1. \A c \in Call : calls[c].pc \in {"commit", "published"} => calls[c].answer # NoCall
    BY PublicationAssumption DEF IInv, Inv, CallInv, CallOK
  <2> QED
    BY <2>1 DEF TypeOK, IInv, Inv, Types
<1> QED
  BY <1>1, Invariance, PTL

\* What AnswerInv says of a call that has returned successfully.
LEMMA PublishedAnswer ==
    ASSUME IInv, NEW c \in Call, calls[c].pc = "published",
           deliveries[calls[c].answer].state # "absent"
    PROVE  /\ calls[c].answer \in Call
           /\ OldAnswer(calls, messages, deliveries, now, c, calls[c].answer)
  BY DEF IInv, Inv, CallInv, CallOK, AnswerInv, OwnAnswer

\* While the delivery a call returned exists, it is the only one under the
\* call's idempotency key.
THEOREM OneDeliveryPerKey == Spec => []KeyMeansOnePublication
<1>1. IInv => KeyMeansOnePublication
  <2> SUFFICES ASSUME IInv, NEW c \in Call, calls[c].pc = "published",
                      Request(c).key # NoKey,
                      deliveries[calls[c].answer].state # "absent"
               PROVE  WithKey(Request(c).key) = {calls[c].answer}
    BY DEF KeyMeansOnePublication
  <2>1. /\ calls[c].answer \in Call
        /\ deliveries[calls[c].answer].key = Request(c).key
    BY PublishedAnswer DEF OldAnswer, Fits, Request
  <2>2. ASSUME NEW d \in WithKey(Request(c).key) PROVE d = calls[c].answer
    BY <2>1, <2>2 DEF WithKey, IInv, Inv, KeyInv
  <2> QED
    BY <2>1, <2>2 DEF WithKey
<1> QED
  BY <1>1, Invariance, PTL

\* The delivery a call returned, as long as it exists, sends what the call asked
\* for, if its message has a generated ID or no message is old enough to have
\* been removed by Cleanup.
THEOREM PublishedRight == Spec => []PublishedAsRequested
<1>1. IInv => PublishedAsRequested
  <2> SUFFICES ASSUME IInv, NEW c \in Call, calls[c].pc = "published",
                      deliveries[calls[c].answer].state # "absent",
                      \/ deliveries[calls[c].answer].message \in Call
                      \/ OrphanRetention = 0 \/ now <= OrphanRetention
               PROVE  AsRequested(c)
    BY DEF PublishedAsRequested
  <2>1. /\ calls[c].answer \in Call
        /\ OldAnswer(calls, messages, deliveries, now, c, calls[c].answer)
    BY PublishedAnswer
  <2>2. messages[deliveries[calls[c].answer].message].live
    BY <2>1 DEF IInv, Inv, RowInv
  <2> QED
    BY <2>1, <2>2 DEF AsRequested, OldAnswer, Fits, Protected, Request
<1> QED
  BY <1>1, Invariance, PTL

\* A message becomes visible only together with a delivery, unless a caller
\* commits although a publication was refused.
THEOREM NothingUnsent == Spec => NoUnsentMessage
<1> DEFINE Sent(m) ==
             ~messages[m].live /\ messages'[m].live =>
               \/ \E d \in Call : deliveries'[d].state = "pending"
                                  /\ deliveries'[d].message = m
               \/ \E c \in CallerTx : calls[c].pc = "refused" /\ MessageOf(c) = m
<1>1. ASSUME IInv, [Next]_vars, NEW m \in MessageID
      PROVE  Sent(m)
  <2>1. ASSUME NEW c \in Call, Commit(c) PROVE Sent(m)
    <3> SUFFICES ASSUME ~messages[m].live, messages'[m].live,
                        ~\E o \in CallerTx : calls[o].pc = "refused" /\ MessageOf(o) = m
                 PROVE  \E d \in Call : deliveries'[d].state = "pending"
                                        /\ deliveries'[d].message = m
      OBVIOUS
    <3>1. /\ calls \in [Call -> CallState] /\ deliveries \in [Call -> DeliveryRow]
          /\ messages \in [MessageID -> MessageRow] /\ InsertInv(calls, messages)
      BY <1>1 DEF IInv, Inv, Types
    <3>2. /\ LeavesMessages(calls, messages, messages', c)
          /\ LeavesDeliveries(calls, deliveries, deliveries', c)
      BY <2>1, CommitLeaves
    <3>3. messages'[m] = Sees(calls, messages, c, m)
      BY <3>1, <3>2, CommittedMessages
    <3>4. PICK o \in Tx(c) : calls[o].inserted = "yes" /\ Named(calls, o) = m
      <4>1. Sees(calls, messages, c, m).live # messages[m].live
        BY <3>3
      <4>2. Own(calls, c, m) # {}
        BY <4>1, SeesNew
      <4> QED
        BY <4>2 DEF Own
    <3>5. o \in Call /\ calls[o].pc \in Resting /\ CallOK(o, calls[o])
      BY <1>1, <2>1, TxIs DEF Commit, IInv, Inv, CallInv
    <3>6. calls[o].pc = "commit"
      BY <3>4, <3>5, BridgeCalls DEF Resting, CallOK
    <3>7. PICK d \in Tx(o) : Sends(calls, d) /\ Named(calls, d) = m
      BY <1>1, <3>4, <3>5, <3>6 DEF IInv, Inv, UsedInv
    <3>8. d \in Call /\ d \in Tx(c)
      BY TxIs
    <3>9. deliveries'[d].state = "pending" /\ deliveries'[d].message = m
      BY <3>1, <3>2, <3>7, <3>8, CommittedDeliveries
    <3> QED
      BY <3>8, <3>9
  <2>2. CASE CleanupCommit
    BY <2>2 DEF CleanupCommit, NoMessage
  <2>3. CASE UNCHANGED messages
    BY <2>3
  <2> QED
    BY <1>1, <2>1, <2>2, <2>3
       DEF Next, vars, Tick, Begin, Step, Find, Clock, InsertMessage, ReadExisting,
           InsertDelivery, Refind, RemoveMessage, Abort, Complete, Cleanup,
           CleanupDeliveries, CleanupSnapshot, CleanupOrphans, CleanupAbort
<1>2. IInv /\ [Next]_vars =>
        [\A m \in MessageID : Sent(m)]_vars
  BY <1>1
<1> QED
  BY <1>2, Invariance, PTL DEF Spec, NoUnsentMessage

\* Cleanup removes no pending delivery of a message with a generated ID.
THEOREM PendingKept == Spec => PendingIsKept
<1> DEFINE Kept(d) ==
             deliveries[d].state = "pending" /\ deliveries[d].message \in Call =>
               deliveries'[d].state # "absent"
<1>1. ASSUME IInv, [Next]_vars, NEW d \in Call
      PROVE  Kept(d)
  <2>1. ASSUME NEW c \in Call, Commit(c) PROVE Kept(d)
    <3>1. calls \in [Call -> CallState] /\ deliveries \in [Call -> DeliveryRow]
      BY <1>1 DEF IInv, Inv, Types
    <3>2. LeavesDeliveries(calls, deliveries, deliveries', c)
      BY <2>1, CommitLeaves
    <3>3. deliveries'[d].state = "pending" \/ deliveries'[d] = deliveries[d]
      BY <3>1, <3>2, CommittedDeliveries
    <3> QED
      BY <3>3
  <2>2. ASSUME NEW c \in Call, Complete(c) PROVE Kept(d)
    <3>1. deliveries \in [Call -> DeliveryRow] /\ now \in Nat
      BY <1>1 DEF IInv, Inv, Types
    <3> QED
      BY <2>2, <3>1 DEF Complete, DeliveryRow
  <2>3. CASE CleanupCommit
    <3>1. deliveries'[d] = IF d \in cleaner.removed THEN NoDelivery ELSE deliveries[d]
      BY <2>3 DEF CleanupCommit
    <3>2. d \in cleaner.removed /\ deliveries[d].state = "pending" =>
            deliveries[d].message \notin Call
      BY <1>1 DEF IInv, Inv, CleanInv
    <3> QED
      BY <3>1, <3>2
  <2>4. CASE UNCHANGED deliveries
    BY <2>4
  <2> QED
    BY <1>1, <2>1, <2>2, <2>3, <2>4
       DEF Next, vars, Tick, Begin, Step, Find, Clock, InsertMessage, ReadExisting,
           InsertDelivery, Refind, RemoveMessage, Abort, Cleanup,
           CleanupDeliveries, CleanupSnapshot, CleanupOrphans, CleanupAbort
<1>2. IInv /\ [Next]_vars =>
        [\A d \in Call : Kept(d)]_vars
  BY <1>1
<1> QED
  BY <1>2, Invariance, PTL DEF Spec, PendingIsKept
=============================================================================
