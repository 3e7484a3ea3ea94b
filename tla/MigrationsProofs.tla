--------------------------- MODULE MigrationsProofs ---------------------------
(***************************************************************************)
(* What Migrations promises for every number of processes, every set of    *)
(* releases and every length of file: the type invariant, that the ledger  *)
(* tells what took effect, that a call which returns nil leaves the schema *)
(* of its release, and that statements take effect in order when releases  *)
(* only append files.                                                      *)
(***************************************************************************)
EXTENDS Migrations, SequenceTheorems, WellFoundedInduction, TLAPS

(* The inductive invariant.  An open transaction has merged every file of   *)
(* its release before the one in hand, and wrote exactly what its own       *)
(* ledger rows say, with the statements of the file in hand so far.         *)

OpenPcs == {"preparing", "inspecting", "applying", "committing"}

\* The ledger as the transaction of c sees it.
Merged(c, l) == [n \in Name |-> IF c.ledger[n] # NoContents THEN c.ledger[n] ELSE l[n]]

\* The names the transaction of c is done with.
Passed(c) == IF c.pc = "committing" THEN Name ELSE { n \in Name : n < c.file }

Effects(s) == { s[i] : i \in 1 .. Len(s) }

StatementsOf(n, x, k) == { [name |-> n, contents |-> x, stmt |-> i] : i \in 1 .. k }

\* All statements of the files that ledger l records.
FilesOf(l) ==
    UNION { { [name |-> n, contents |-> l[n], stmt |-> i] : i \in 1 .. Statements[l[n]] } :
            n \in { m \in Name : l[m] # NoContents } }

InHand(c) ==
    IF c.pc = "applying" THEN StatementsOf(c.file, c.files[c.file], c.stmt - 1) ELSE {}

\* An open transaction beside the committed ledger l.
TxOK(c, l) ==
    /\ c.pc = "preparing" => c.file = 0
    /\ c.pc \in {"inspecting", "applying"} => c.file \in DOMAIN c.files
    /\ \A n \in DOMAIN c.files : n \in Passed(c) => Merged(c, l)[n] = c.files[n]
    /\ \A n \in Name : c.ledger[n] # NoContents =>
         /\ n \in DOMAIN c.files
         /\ n \in Passed(c)
         /\ c.ledger[n] = c.files[n]
         /\ l[n] = NoContents
    /\ c.pc = "applying" =>
         /\ c.ledger[c.file] = NoContents
         /\ l[c.file] = NoContents
         /\ c.stmt \in 1 .. Statements[c.files[c.file]] + 1
    /\ Effects(c.applied) = FilesOf(c.ledger) \cup InHand(c)

CallOK(c, l) ==
    /\ c.pc \in OpenPcs => TxOK(c, l)
    /\ c.pc = "locking" => c.file = 0 /\ c.ledger = Empty /\ c.applied = << >>

CallsOK == \A p \in Process : CallOK(calls[p], ledger)

IndInv == TypeOK /\ LedgerIsTrue /\ DoneMeansMigrated /\ CallsOK

-----------------------------------------------------------------------------
(* Lemmas about the operators. *)

\* A set of naturals has a least element.
LEMMA Least ==
    ASSUME NEW T \in SUBSET Nat, NEW e \in T
    PROVE  \E m \in T : \A k \in T : m <= k
<1> DEFINE R == OpToRel(<, Nat)
<1>1. PICK x \in T : \A y \in T : ~ (<< y, x >> \in R)
  <2>1. IsWellFoundedOn(R, Nat)
    BY NatLessThanWellFounded, Zenon
  <2> HIDE DEF R
  <2>2. \E x \in T : \A y \in T : ~ (<< y, x >> \in R)
    BY <2>1, WFMin, Zenon
  <2> QED
    BY <2>2
<1>2. ASSUME NEW y \in T
      PROVE  x <= y
  <2>1. ~(<< y, x >> \in R)
    BY <1>1
  <2>2. << y, x >> \in Nat \X Nat
    OBVIOUS
  <2>3. ~(<< y, x >>[1] < << y, x >>[2])
    BY <2>1, <2>2 DEF OpToRel
  <2> QED
    BY <2>3
<1> QED
  BY <1>2

\* A release maps names to contents; so does the empty list of a call that
\* has not begun.
LEMMA FilesType ==
    ASSUME NEW f \in Releases \cup {<< >>}
    PROVE  /\ DOMAIN f \subseteq Name
           /\ \A n \in DOMAIN f : f[n] \in Contents
<1>1. CASE f \in Releases
  <2>1. PICK S \in SUBSET Name : f \in [S -> Contents]
    BY <1>1, MigrationsAssumption
  <2> QED
    BY <2>1
<1>2. CASE f = << >>
  BY <1>2
<1> QED
  BY <1>1, <1>2

LEMMA NameIsNat ==
    ASSUME NEW n \in Name
    PROVE  n \in Nat /\ n # 0 /\ n > 0
<1>1. n \in Nat \ {0}
  BY MigrationsAssumption
<1> QED
  BY <1>1

LEMMA FileIsNat ==
    ASSUME NEW c \in Call
    PROVE  c.file \in Nat
<1>1. c.file \in Name \/ c.file = 0
  BY DEF Call
<1> QED
  BY <1>1, NameIsNat

\* After n there is a next file unless n is past the last one.
LEMMA NextFileNone ==
    ASSUME NEW f \in Releases \cup {<< >>}, NEW n \in Nat, NextFile(f, n) = {},
           NEW m \in DOMAIN f
    PROVE  m <= n
<1> DEFINE T == { k \in DOMAIN f : k > n }
<1>1. DOMAIN f \subseteq Nat
  BY FilesType, MigrationsAssumption
<1>2. SUFFICES ASSUME m > n
               PROVE  FALSE
  BY <1>1
<1>3. PICK k \in T : \A j \in T : k <= j
  <2>1. T \in SUBSET Nat /\ m \in T
    BY <1>1, <1>2
  <2> HIDE DEF T
  <2> QED
    BY <2>1, Least
<1> QED
  BY <1>3, <1>1 DEF NextFile

LEMMA InFilesOf ==
    ASSUME NEW l \in Checksums, NEW s
    PROVE  s \in FilesOf(l) <=>
             \E n \in Name : /\ l[n] # NoContents
                             /\ s \in StatementsOf(n, l[n], Statements[l[n]])
  BY DEF FilesOf, StatementsOf

LEMMA FilesOfEmpty == FilesOf(Empty) = {}
  BY DEF FilesOf, Empty

\* Committing a transaction adds its files to the recorded ones.
LEMMA FilesOfMerged ==
    ASSUME NEW a \in Checksums, NEW l \in Checksums, NEW b \in Checksums,
           \A n \in Name : a[n] # NoContents => l[n] = NoContents,
           \A n \in Name : b[n] = IF a[n] # NoContents THEN a[n] ELSE l[n]
    PROVE  FilesOf(b) = FilesOf(l) \cup FilesOf(a)
<1>1. ASSUME NEW s
      PROVE  s \in FilesOf(b) <=> s \in FilesOf(l) \/ s \in FilesOf(a)
  <2>1. ASSUME s \in FilesOf(b)
        PROVE  s \in FilesOf(l) \/ s \in FilesOf(a)
    <3>1. PICK n \in Name : b[n] # NoContents /\ s \in StatementsOf(n, b[n], Statements[b[n]])
      BY <2>1, InFilesOf, Zenon
    <3>2. b[n] = a[n] \/ b[n] = l[n]
      OBVIOUS
    <3> QED
      BY <3>1, <3>2, InFilesOf, Zenon
  <2>2. ASSUME s \in FilesOf(a)
        PROVE  s \in FilesOf(b)
    <3>1. PICK n \in Name : a[n] # NoContents /\ s \in StatementsOf(n, a[n], Statements[a[n]])
      BY <2>2, InFilesOf, Zenon
    <3>2. b[n] = a[n]
      BY <3>1
    <3> QED
      BY <3>1, <3>2, InFilesOf, Zenon
  <2>3. ASSUME s \in FilesOf(l)
        PROVE  s \in FilesOf(b)
    <3>1. PICK n \in Name : l[n] # NoContents /\ s \in StatementsOf(n, l[n], Statements[l[n]])
      BY <2>3, InFilesOf, Zenon
    <3>2. b[n] = l[n]
      BY <3>1
    <3> QED
      BY <3>1, <3>2, InFilesOf, Zenon
  <2> QED
    BY <2>1, <2>2, <2>3
<1> QED
  BY <1>1

\* Recording one more file adds its statements.
LEMMA FilesOfRecorded ==
    ASSUME NEW a \in Checksums, NEW n \in Name, a[n] = NoContents, NEW x \in Contents
    PROVE  FilesOf([a EXCEPT ![n] = x]) = FilesOf(a) \cup StatementsOf(n, x, Statements[x])
<1> DEFINE b == [a EXCEPT ![n] = x]
<1>1. b \in Checksums /\ b[n] = x /\ (\A m \in Name : m # n => b[m] = a[m])
  BY DEF Checksums
<1>2. x # NoContents
  BY MigrationsAssumption
<1> HIDE DEF b
<1>3. ASSUME NEW s
      PROVE  s \in FilesOf(b) <=> s \in FilesOf(a) \/ s \in StatementsOf(n, x, Statements[x])
  BY <1>1, <1>2, InFilesOf, Zenon
<1> QED
  BY <1>3 DEF b

LEMMA EffectsAppend ==
    ASSUME NEW S, NEW s \in Seq(S), NEW e \in S
    PROVE  Effects(Append(s, e)) = Effects(s) \cup {e}
  BY AppendProperties, LenProperties DEF Effects

LEMMA EffectsConcat ==
    ASSUME NEW S, NEW s \in Seq(S), NEW t \in Seq(S)
    PROVE  Effects(s \o t) = Effects(s) \cup Effects(t)
<1>1. /\ s \o t \in Seq(S) /\ Len(s \o t) = Len(s) + Len(t)
      /\ \A i \in 1 .. Len(s) + Len(t) :
           (s \o t)[i] = IF i <= Len(s) THEN s[i] ELSE t[i - Len(s)]
  BY ConcatProperties
<1>2. Len(s) \in Nat /\ Len(t) \in Nat
  BY LenProperties
<1> DEFINE u == s \o t
<1> HIDE DEF u
<1>3. Len(u) = Len(s) + Len(t)
  BY <1>1 DEF u
<1>4. \A i \in 1 .. Len(s) + Len(t) : u[i] = IF i <= Len(s) THEN s[i] ELSE t[i - Len(s)]
  BY <1>1 DEF u
<1>5. ASSUME NEW i \in 1 .. Len(t)
      PROVE  u[i + Len(s)] = t[i] /\ i + Len(s) \in 1 .. Len(u)
  BY <1>2, <1>3, <1>4
<1>6. ASSUME NEW i \in 1 .. Len(s)
      PROVE  u[i] = s[i] /\ i \in 1 .. Len(u)
  BY <1>2, <1>3, <1>4
<1>7. ASSUME NEW i \in 1 .. Len(u)
      PROVE  u[i] \in Effects(s) \cup Effects(t)
  <2>1. CASE i <= Len(s)
    BY <2>1, <1>2, <1>3, <1>4 DEF Effects
  <2>2. CASE i > Len(s)
    <3>1. i - Len(s) \in 1 .. Len(t) /\ u[i] = t[i - Len(s)]
      BY <2>2, <1>2, <1>3, <1>4
    <3> QED
      BY <3>1 DEF Effects
  <2> QED
    BY <2>1, <2>2, <1>2, <1>3
<1>8. Effects(u) \subseteq Effects(s) \cup Effects(t)
  BY <1>7 DEF Effects
<1>9. Effects(s) \subseteq Effects(u)
  BY <1>6 DEF Effects
<1>10. Effects(t) \subseteq Effects(u)
  BY <1>5 DEF Effects
<1> QED
  BY <1>8, <1>9, <1>10 DEF u

\* One statement more of the file in hand.
LEMMA StatementsOfNext ==
    ASSUME NEW n, NEW x, NEW k \in Nat
    PROVE  StatementsOf(n, x, k + 1) =
             StatementsOf(n, x, k) \cup {[name |-> n, contents |-> x, stmt |-> k + 1]}
  BY DEF StatementsOf

-----------------------------------------------------------------------------
(* One call changes. *)

\* The names up to the file in hand are merged: what Advance starts from.
Settled(c, l) ==
    /\ \A n \in DOMAIN c.files : n <= c.file => Merged(c, l)[n] = c.files[n]
    /\ \A n \in Name : c.ledger[n] # NoContents =>
         /\ n \in DOMAIN c.files
         /\ n <= c.file
         /\ c.ledger[n] = c.files[n]
         /\ l[n] = NoContents
    /\ Effects(c.applied) = FilesOf(c.ledger)

\* What Advance makes of a call's record c.
Advanced(c) ==
    { x \in Call :
        \/ NextFile(c.files, c.file) = {} /\ x = [c EXCEPT !.pc = "committing"]
        \/ \E n \in NextFile(c.files, c.file) :
             x = [c EXCEPT !.pc = "inspecting", !.file = n] }

\* Going on to the next file, or to COMMIT, keeps the transaction's invariant.
LEMMA AdvancedOK ==
    ASSUME NEW c \in Call, NEW l \in Checksums, Settled(c, l), NEW x \in Advanced(c)
    PROVE  TxOK(x, l) /\ x.pc \in {"inspecting", "committing"}
<1>1. /\ DOMAIN c.files \subseteq Name
      /\ Name \subseteq Nat \ {0}
      /\ c.files \in Releases \cup {<< >>}
      /\ c.file \in Nat
  <2>1. c.files \in Releases \cup {<< >>} /\ c.file \in Name \cup {0}
    BY DEF Call
  <2>2. DOMAIN c.files \subseteq Name
    BY <2>1, FilesType
  <2>3. Name \subseteq Nat \ {0}
    BY MigrationsAssumption
  <2>4. c.file \in Nat
    BY FileIsNat
  <2> QED
    BY <2>1, <2>2, <2>3, <2>4
<1>2. CASE NextFile(c.files, c.file) = {} /\ x = [c EXCEPT !.pc = "committing"]
  <2>1. /\ x.pc = "committing" /\ x.files = c.files /\ x.ledger = c.ledger
        /\ x.applied = c.applied
    BY <1>2 DEF Call
  <2>2. \A n \in DOMAIN c.files : n <= c.file
    BY <1>1, <1>2, NextFileNone
  <2>3. Merged(x, l) = Merged(c, l) /\ Passed(x) = Name /\ InHand(x) = {}
    BY <2>1 DEF Merged, Passed, InHand
  <2> QED
    BY <2>1, <2>2, <2>3, <1>1 DEF TxOK, Settled
<1>3. ASSUME NEW n \in NextFile(c.files, c.file),
             x = [c EXCEPT !.pc = "inspecting", !.file = n]
      PROVE  TxOK(x, l) /\ x.pc = "inspecting"
  <2>1. /\ x.pc = "inspecting" /\ x.files = c.files /\ x.ledger = c.ledger
        /\ x.applied = c.applied /\ x.file = n
    BY <1>3 DEF Call
  <2>2. /\ n \in DOMAIN c.files /\ n > c.file
        /\ \A m \in DOMAIN c.files : m < n => m <= c.file
    <3>1. /\ n \in DOMAIN c.files /\ n > c.file
          /\ \A k \in DOMAIN c.files : k > c.file => n <= k
      BY DEF NextFile
    <3>2. ASSUME NEW m \in DOMAIN c.files, m < n
          PROVE  m <= c.file
      <4>1. m \in Nat /\ n \in Nat /\ c.file \in Nat
        BY <1>1, <3>1
      <4> QED
        BY <4>1, <3>1, <3>2
    <3> QED
      BY <3>1, <3>2
  <2>3. /\ Merged(x, l) = Merged(c, l) /\ InHand(x) = {}
        /\ Passed(x) = { m \in Name : m < n }
    BY <2>1 DEF Merged, Passed, InHand
  <2>4. \A m \in Name : m <= c.file => m < n
    BY <1>1, <2>2
  <2> QED
    BY <2>1, <2>2, <2>3, <2>4, <1>1 DEF TxOK, Settled
<1> QED
  BY <1>2, <1>3 DEF Advanced

\* Advance(p, c) is a step to one of Advanced(c).
LEMMA AdvanceIs ==
    ASSUME TypeOK, NEW p \in Process, NEW c \in Call, Advance(p, c)
    PROVE  \E x \in Advanced(c) : calls' = [calls EXCEPT ![p] = x]
<1>1. CASE /\ NextFile(c.files, c.file) = {}
           /\ calls' = [calls EXCEPT ![p] = [c EXCEPT !.pc = "committing"]]
  <2>1. [c EXCEPT !.pc = "committing"] \in Call
    BY DEF Call
  <2> QED
    BY <1>1, <2>1 DEF Advanced
<1>2. ASSUME NEW n \in NextFile(c.files, c.file),
             calls' = [calls EXCEPT ![p] = [c EXCEPT !.pc = "inspecting", !.file = n]]
      PROVE  \E x \in Advanced(c) : calls' = [calls EXCEPT ![p] = x]
  <2>1. n \in Name
    <3>1. c.files \in Releases \cup {<< >>}
      BY DEF Call
    <3> QED
      BY <3>1, FilesType DEF NextFile
  <2>2. [c EXCEPT !.pc = "inspecting", !.file = n] \in Call
    BY <2>1 DEF Call
  <2> QED
    BY <1>2, <2>2 DEF Advanced
<1> QED
  BY <1>1, <1>2 DEF Advance

\* A step that only changes the call of p and the lock.
LEMMA CallStep ==
    ASSUME IndInv, NEW p \in Process, NEW x \in Call,
           calls' = [calls EXCEPT ![p] = x],
           UNCHANGED << created, ledger, applied >>,
           lock' \in Process \cup {NoProcess},
           \A q \in Process : q # p => (lock' = q <=> lock = q),
           x.pc \in OpenPcs <=> lock' = p,
           x.pc # "done",
           CallOK(x, ledger)
    PROVE  IndInv'
<1>1. calls \in [Process -> Call] /\ calls' \in [Process -> Call]
  BY DEF IndInv, TypeOK
<1>2. calls'[p] = x /\ \A q \in Process : q # p => calls'[q] = calls[q]
  BY <1>1
<1>3. TypeOK'
  <2>1. ASSUME NEW q \in Process
        PROVE  calls'[q].pc \in OpenPcs <=> lock' = q
    BY <1>2 DEF IndInv, TypeOK, Open, OpenPcs
  <2> QED
    BY <1>1, <2>1 DEF IndInv, TypeOK, Open, OpenPcs
<1>4. LedgerIsTrue'
  BY DEF IndInv, LedgerIsTrue
<1>5. DoneMeansMigrated'
  BY <1>2 DEF IndInv, DoneMeansMigrated
<1>6. CallsOK'
  <2>1. ASSUME NEW q \in Process
        PROVE  CallOK(calls'[q], ledger')
    BY <1>2 DEF IndInv, CallsOK
  <2> QED
    BY <2>1 DEF CallsOK
<1> QED
  BY <1>3, <1>4, <1>5, <1>6 DEF IndInv

-----------------------------------------------------------------------------
(* One lemma per action. *)

\* The parts of an open call's invariant, in the form the actions use it.
LEMMA OpenCall ==
    ASSUME IndInv, NEW p \in Process, calls[p].pc \in OpenPcs
    PROVE  /\ calls[p] \in Call
           /\ TxOK(calls[p], ledger)
           /\ lock = p
           /\ ledger \in Checksums
           /\ calls[p].ledger \in Checksums
           /\ calls[p].applied \in AppliedStatements
           /\ calls[p].files \in Releases \cup {<< >>}
<1>1. calls[p] \in Call
  BY DEF IndInv, TypeOK
<1>2. TxOK(calls[p], ledger)
  BY DEF IndInv, CallsOK, CallOK
<1>3. lock = p /\ ledger \in Checksums
  BY DEF IndInv, TypeOK, Open, OpenPcs
<1> QED
  BY <1>1, <1>2, <1>3 DEF Call

\* A step of an open call that leaves it open, with record x.
LEMMA OpenStep ==
    ASSUME IndInv, NEW p \in Process, calls[p].pc \in OpenPcs, NEW x \in Call,
           calls' = [calls EXCEPT ![p] = x],
           UNCHANGED << created, ledger, applied, lock >>,
           x.pc \in OpenPcs, TxOK(x, ledger)
    PROVE  IndInv'
<1>1. lock' = p /\ lock' \in Process \cup {NoProcess}
  BY OpenCall
<1>2. x.pc # "done" /\ CallOK(x, ledger)
  BY DEF CallOK, OpenPcs
<1> QED
  BY <1>1, <1>2, CallStep

\* A step that advances from a settled record.
LEMMA AdvanceStep ==
    ASSUME IndInv, NEW p \in Process, calls[p].pc \in OpenPcs, NEW c \in Call,
           Settled(c, ledger), Advance(p, c),
           UNCHANGED << created, ledger, applied, lock >>
    PROVE  IndInv'
<1>1. PICK x \in Advanced(c) : calls' = [calls EXCEPT ![p] = x]
  BY AdvanceIs DEF IndInv
<1>2. x \in Call
  BY DEF Advanced
<1>3. TxOK(x, ledger) /\ x.pc \in OpenPcs
  <2>1. ledger \in Checksums
    BY DEF IndInv, TypeOK
  <2> QED
    BY <2>1, AdvancedOK DEF OpenPcs
<1> QED
  BY <1>1, <1>2, <1>3, OpenStep

LEMMA NoCallType ==
    /\ NoCall \in Call
    /\ NoCall.pc = "idle" /\ NoCall.file = 0 /\ NoCall.ledger = Empty
    /\ NoCall.applied = << >>
<1>1. Empty \in Checksums
  BY DEF Empty, Checksums
<1>2. << >> \in AppliedStatements
  BY DEF AppliedStatements
<1> QED
  BY <1>1, <1>2 DEF NoCall, Call

LEMMA BeginInv ==
    ASSUME IndInv, NEW p \in Process, Begin(p)
    PROVE  IndInv'
<1>1. PICK f \in Releases :
        calls' = [calls EXCEPT ![p] = [NoCall EXCEPT !.pc = "locking", !.files = f]]
  BY DEF Begin
<1> DEFINE none == NoCall
           x == [none EXCEPT !.pc = "locking", !.files = f]
<1>2. /\ x \in Call /\ x.pc = "locking" /\ x.file = 0 /\ x.ledger = Empty
      /\ x.applied = << >>
  <2>1. none \in Call /\ none.file = 0 /\ none.ledger = Empty /\ none.applied = << >>
    BY NoCallType
  <2> HIDE DEF none
  <2> QED
    BY <2>1 DEF Call
<1>3. lock # p /\ lock \in Process \cup {NoProcess} /\ lock' = lock
  BY DEF Begin, IndInv, TypeOK, Open
<1> HIDE DEF x
<1>4. CallOK(x, ledger) /\ x.pc \notin OpenPcs /\ x.pc # "done"
  BY <1>2 DEF CallOK, OpenPcs
<1>5. calls' = [calls EXCEPT ![p] = x] /\ UNCHANGED << created, ledger, applied >>
  BY <1>1 DEF x, Begin
<1> QED
  BY <1>2, <1>3, <1>4, <1>5, CallStep

LEMMA EffectsNone == Effects(<< >>) = {}
  BY DEF Effects

LEMMA LockInv ==
    ASSUME IndInv, NEW p \in Process, Lock(p)
    PROVE  IndInv'
<1> DEFINE x == [calls[p] EXCEPT !.pc = "preparing"]
<1>1. calls[p] \in Call /\ calls \in [Process -> Call] /\ ledger \in Checksums
  BY DEF IndInv, TypeOK
<1>2. calls[p].file = 0 /\ calls[p].ledger = Empty /\ calls[p].applied = << >>
  BY DEF IndInv, CallsOK, CallOK, Lock
<1>3. /\ x \in Call /\ x.pc = "preparing" /\ x.file = 0 /\ x.ledger = Empty
      /\ x.applied = << >> /\ x.files = calls[p].files
  BY <1>1, <1>2 DEF Call
<1>4. calls' = [calls EXCEPT ![p] = x] /\ UNCHANGED << created, ledger, applied >>
  BY <1>1 DEF Lock
<1>5. lock' = p /\ lock = NoProcess
  BY DEF Lock
<1> HIDE DEF x
<1>6. TxOK(x, ledger)
  <2>1. Passed(x) = {} /\ InHand(x) = {}
    BY <1>3, NameIsNat DEF Passed, InHand
  <2>2. \A n \in Name : x.ledger[n] = NoContents
    BY <1>3 DEF Empty
  <2>3. Effects(x.applied) = {} /\ FilesOf(x.ledger) = {}
    BY <1>3, EffectsNone, FilesOfEmpty
  <2> QED
    BY <1>3, <2>1, <2>2, <2>3 DEF TxOK
<1>7. CallOK(x, ledger) /\ x.pc \in OpenPcs /\ x.pc # "done"
  BY <1>3, <1>6 DEF CallOK, OpenPcs
<1>8. \A q \in Process : q # p => (lock' = q <=> lock = q)
  BY <1>5, MigrationsAssumption
<1> QED
  BY <1>3, <1>4, <1>5, <1>7, <1>8, CallStep

LEMMA PrepareInv ==
    ASSUME IndInv, NEW p \in Process, Prepare(p)
    PROVE  IndInv'
<1>1. calls[p].pc = "preparing" /\ calls[p].pc \in OpenPcs
  BY DEF Prepare, OpenPcs
<1>2. calls[p] \in Call /\ TxOK(calls[p], ledger) /\ calls[p].file = 0
  BY <1>1, OpenCall DEF TxOK
<1>3. Passed(calls[p]) = {} /\ InHand(calls[p]) = {}
  BY <1>1, <1>2, NameIsNat DEF Passed, InHand
<1>4. DOMAIN calls[p].files \subseteq Name
  BY <1>1, OpenCall, FilesType
<1>5. Settled(calls[p], ledger)
  <2>1. \A n \in DOMAIN calls[p].files : ~(n <= calls[p].file)
    BY <1>2, <1>4, NameIsNat
  <2> QED
    BY <1>1, <1>2, <1>3, <2>1 DEF TxOK, Settled
<1> QED
  BY <1>1, <1>2, <1>5, AdvanceStep DEF Prepare

\* The row that SELECT checksum finds.
LEMMA RecordedIs ==
    ASSUME IndInv, NEW p \in Process, calls[p].pc = "inspecting"
    PROVE  /\ Recorded(p) = Merged(calls[p], ledger)[calls[p].file]
           /\ calls[p].file \in DOMAIN calls[p].files
           /\ calls[p].file \in Name
           /\ calls[p].files[calls[p].file] \in Contents
<1>1. calls[p].pc \in OpenPcs
  BY DEF OpenPcs
<1>2. calls[p].file \in DOMAIN calls[p].files
  BY <1>1, OpenCall DEF TxOK
<1>3. calls[p].file \in Name /\ calls[p].files[calls[p].file] \in Contents
  BY <1>1, <1>2, OpenCall, FilesType
<1> QED
  BY <1>2, <1>3 DEF Recorded, Merged

LEMMA SkipInv ==
    ASSUME IndInv, NEW p \in Process, Skip(p)
    PROVE  IndInv'
<1>1. calls[p].pc = "inspecting" /\ calls[p].pc \in OpenPcs
  BY DEF Skip, OpenPcs
<1>2. calls[p] \in Call /\ TxOK(calls[p], ledger)
  BY <1>1, OpenCall
<1>3. /\ calls[p].file \in DOMAIN calls[p].files /\ calls[p].file \in Name
      /\ Merged(calls[p], ledger)[calls[p].file] = calls[p].files[calls[p].file]
  BY <1>1, RecordedIs DEF Skip, SameChecksum
<1>4. /\ Passed(calls[p]) = { n \in Name : n < calls[p].file }
      /\ InHand(calls[p]) = {}
  BY <1>1 DEF Passed, InHand
<1>5. DOMAIN calls[p].files \subseteq Name
  BY <1>1, OpenCall, FilesType
<1>6. Settled(calls[p], ledger)
  <2>1. ASSUME NEW n \in DOMAIN calls[p].files, n <= calls[p].file
        PROVE  Merged(calls[p], ledger)[n] = calls[p].files[n]
    <3>1. n = calls[p].file \/ n \in Passed(calls[p])
      <4>1. n \in Nat /\ calls[p].file \in Nat
        BY <1>3, <1>5, NameIsNat
      <4> QED
        BY <4>1, <2>1, <1>3, <1>4, <1>5
    <3> QED
      BY <3>1, <1>2, <1>3 DEF TxOK
  <2>2. \A n \in Passed(calls[p]) : n <= calls[p].file
    BY <1>3, <1>4, NameIsNat
  <2> QED
    BY <2>1, <2>2, <1>2, <1>4 DEF TxOK, Settled
<1> QED
  BY <1>1, <1>2, <1>6, AdvanceStep DEF Skip

LEMMA MissingInv ==
    ASSUME IndInv, NEW p \in Process, Missing(p)
    PROVE  IndInv'
<1> DEFINE x == [calls[p] EXCEPT !.pc = "applying", !.stmt = 1]
<1>1. calls[p].pc = "inspecting" /\ calls[p].pc \in OpenPcs
  BY DEF Missing, OpenPcs
<1>2. /\ calls[p] \in Call /\ TxOK(calls[p], ledger)
      /\ calls[p].ledger \in Checksums /\ ledger \in Checksums
  BY <1>1, OpenCall
<1>3. /\ calls[p].file \in DOMAIN calls[p].files /\ calls[p].file \in Name
      /\ calls[p].files[calls[p].file] \in Contents
      /\ Merged(calls[p], ledger)[calls[p].file] = NoContents
  BY <1>1, RecordedIs DEF Missing
<1>4. /\ x \in Call /\ x.pc = "applying" /\ x.stmt = 1 /\ x.file = calls[p].file
      /\ x.files = calls[p].files /\ x.ledger = calls[p].ledger
      /\ x.applied = calls[p].applied
  BY <1>2 DEF Call
<1>5. calls' = [calls EXCEPT ![p] = x]
  BY DEF Missing, IndInv, TypeOK
<1> HIDE DEF x
<1>6. TxOK(x, ledger)
  <2>1. Passed(x) = Passed(calls[p]) /\ Merged(x, ledger) = Merged(calls[p], ledger)
    BY <1>1, <1>4 DEF Passed, Merged
  <2>2. InHand(calls[p]) = {} /\ InHand(x) = {}
    BY <1>1, <1>4 DEF InHand, StatementsOf
  <2>3. x.ledger[x.file] = NoContents /\ ledger[x.file] = NoContents
    BY <1>3, <1>4 DEF Merged
  <2>4. x.stmt \in 1 .. Statements[x.files[x.file]] + 1
    BY <1>3, <1>4, MigrationsAssumption
  <2> QED
    BY <1>1, <1>2, <1>3, <1>4, <2>1, <2>2, <2>3, <2>4 DEF TxOK
<1> QED
  BY <1>1, <1>4, <1>5, <1>6, OpenStep DEF Missing, OpenPcs

LEMMA ApplyInv ==
    ASSUME IndInv, NEW p \in Process, Apply(p)
    PROVE  IndInv'
<1> DEFINE s == Statement(p)
           x == [calls[p] EXCEPT !.applied = Append(@, s), !.stmt = @ + 1]
<1>1. calls[p].pc = "applying" /\ calls[p].pc \in OpenPcs
  BY DEF Apply, OpenPcs
<1>2. /\ calls[p] \in Call /\ TxOK(calls[p], ledger)
      /\ calls[p].files \in Releases \cup {<< >>}
      /\ calls[p].applied \in AppliedStatements
  BY <1>1, OpenCall
<1>3. calls[p].file \in DOMAIN calls[p].files
  BY <1>1, <1>2 DEF TxOK
<1>4. calls[p].file \in Name /\ calls[p].files[calls[p].file] \in Contents
  BY <1>2, <1>3, FilesType
<1>5. /\ Statements[calls[p].files[calls[p].file]] \in Nat
      /\ calls[p].stmt \in 1 .. Statements[calls[p].files[calls[p].file]]
  <2>1. calls[p].stmt \in 1 .. Statements[calls[p].files[calls[p].file]] + 1
    BY <1>1, <1>2 DEF TxOK
  <2>2. Statements[calls[p].files[calls[p].file]] \in Nat
    BY <1>4, MigrationsAssumption
  <2>3. calls[p].stmt <= Statements[calls[p].files[calls[p].file]]
    BY DEF Apply, Remaining
  <2> QED
    BY <2>1, <2>2, <2>3
<1>6. /\ s \in [name : Name, contents : Contents, stmt : Nat \ {0}]
      /\ s = [name |-> calls[p].file, contents |-> calls[p].files[calls[p].file],
              stmt |-> calls[p].stmt]
  BY <1>4, <1>5 DEF Statement
<1> HIDE DEF s
<1>7. /\ Append(calls[p].applied, s) \in AppliedStatements
      /\ Effects(Append(calls[p].applied, s)) = Effects(calls[p].applied) \cup {s}
  <2> DEFINE S == [name : Name, contents : Contents, stmt : Nat \ {0}]
  <2>1. AppliedStatements = Seq(S) /\ s \in S
    BY <1>6 DEF AppliedStatements
  <2> HIDE DEF S
  <2> QED
    BY <1>2, <2>1, EffectsAppend, AppendProperties
<1>8. /\ x \in Call /\ x.pc = "applying" /\ x.stmt = calls[p].stmt + 1
      /\ x.file = calls[p].file /\ x.files = calls[p].files
      /\ x.ledger = calls[p].ledger /\ x.applied = Append(calls[p].applied, s)
  <2> DEFINE more == Append(calls[p].applied, s)
             k == calls[p].stmt + 1
  <2>1. more \in AppliedStatements /\ k \in Nat
    BY <1>5, <1>7
  <2> HIDE DEF more, k
  <2>2. x = [calls[p] EXCEPT !.applied = more, !.stmt = k]
    BY DEF more, k
  <2>3. /\ x \in Call /\ x.pc = "applying" /\ x.stmt = k
        /\ x.file = calls[p].file /\ x.files = calls[p].files
        /\ x.ledger = calls[p].ledger /\ x.applied = more
    <3> HIDE DEF x
    <3> QED
      BY <1>1, <1>2, <2>1, <2>2 DEF Call
  <2> QED
    BY <2>3 DEF more, k
<1>9. calls' = [calls EXCEPT ![p] = x]
  BY DEF Apply, IndInv, TypeOK, s
<1> HIDE DEF x
<1>10. TxOK(x, ledger)
  <2>1. Passed(x) = Passed(calls[p]) /\ Merged(x, ledger) = Merged(calls[p], ledger)
    BY <1>1, <1>8 DEF Passed, Merged
  <2>2. InHand(x) = InHand(calls[p]) \cup {s}
    <3> DEFINE k == calls[p].stmt - 1
               f == calls[p].file
               d == calls[p].files[f]
    <3>1. k \in Nat /\ x.stmt - 1 = k + 1 /\ calls[p].stmt = k + 1
      BY <1>5, <1>8
    <3>2. InHand(x) = StatementsOf(f, d, k + 1)
      BY <1>8, <3>1 DEF InHand
    <3>3. InHand(calls[p]) = StatementsOf(f, d, k)
      BY <1>1 DEF InHand
    <3>4. s = [name |-> f, contents |-> d, stmt |-> k + 1]
      BY <1>6, <3>1
    <3> HIDE DEF k, f, d
    <3> QED
      BY <3>1, <3>2, <3>3, <3>4, StatementsOfNext
  <2>3. x.stmt \in 1 .. Statements[x.files[x.file]] + 1
    BY <1>5, <1>8
  <2>4. Effects(x.applied) = FilesOf(x.ledger) \cup InHand(x)
    BY <1>2, <1>7, <1>8, <2>2 DEF TxOK
  <2> QED
    BY <1>1, <1>2, <1>8, <2>1, <2>3, <2>4 DEF TxOK
<1> QED
  BY <1>1, <1>8, <1>9, <1>10, OpenStep DEF Apply, OpenPcs

LEMMA RecordInv ==
    ASSUME IndInv, NEW p \in Process, Record(p)
    PROVE  IndInv'
<1> DEFINE c == calls[p]
           d == c.files[c.file]
           x == [c EXCEPT !.ledger[c.file] = d, !.stmt = 0]
<1>1. c.pc = "applying" /\ c.pc \in OpenPcs
  BY DEF Record, OpenPcs
<1>2. /\ c \in Call /\ TxOK(c, ledger) /\ c.ledger \in Checksums
      /\ c.files \in Releases \cup {<< >>}
  BY <1>1, OpenCall
<1>3. c.file \in DOMAIN c.files
  BY <1>1, <1>2 DEF TxOK
<1>4. c.file \in Name /\ d \in Contents /\ d # NoContents /\ DOMAIN c.files \subseteq Name
  BY <1>2, <1>3, FilesType, MigrationsAssumption
<1>5. Statements[d] \in Nat /\ c.stmt = Statements[d] + 1
  <2>1. c.stmt \in 1 .. Statements[d] + 1
    BY <1>1, <1>2 DEF TxOK
  <2>2. Statements[d] \in Nat
    BY <1>4, MigrationsAssumption
  <2>3. ~(c.stmt <= Statements[d])
    BY DEF Record, Remaining
  <2> QED
    BY <2>1, <2>2, <2>3
<1>6. Advance(p, x) /\ UNCHANGED << created, ledger, applied, lock >>
  BY DEF Record
<1>7. [c.ledger EXCEPT ![c.file] = d] \in Checksums
  BY <1>2, <1>4 DEF Checksums
<1>8. /\ x \in Call /\ x.file = c.file /\ x.files = c.files
      /\ x.ledger = [c.ledger EXCEPT ![c.file] = d] /\ x.applied = c.applied
  BY <1>2, <1>7 DEF Call
<1> HIDE DEF x
<1>9. Settled(x, ledger)
  <2>1. c.ledger[c.file] = NoContents /\ ledger[c.file] = NoContents
    BY <1>1, <1>2 DEF TxOK
  <2>2. x.ledger[c.file] = d /\ \A n \in Name : n # c.file => x.ledger[n] = c.ledger[n]
    BY <1>2, <1>4, <1>8 DEF Checksums
  <2>3. Passed(c) = { n \in Name : n < c.file } /\ InHand(c) = StatementsOf(c.file, d, Statements[d])
    <3>1. c.stmt - 1 = Statements[d]
      BY <1>5
    <3> QED
      BY <1>1, <3>1 DEF Passed, InHand
  <2>4. Merged(x, ledger)[c.file] = d
    BY <1>4, <2>2 DEF Merged
  <2>5. \A n \in Name : n # c.file => Merged(x, ledger)[n] = Merged(c, ledger)[n]
    BY <2>2 DEF Merged
  <2>6. ASSUME NEW n \in DOMAIN x.files, n <= x.file
        PROVE  Merged(x, ledger)[n] = x.files[n]
    <3>1. n \in Nat /\ c.file \in Nat
      BY <1>4, <1>8, NameIsNat
    <3>2. n = c.file \/ n \in Passed(c)
      BY <3>1, <2>6, <2>3, <1>4, <1>8
    <3> QED
      BY <3>2, <2>4, <2>5, <1>2, <1>3, <1>4, <1>8 DEF TxOK
  <2>7. ASSUME NEW n \in Name, x.ledger[n] # NoContents
        PROVE  /\ n \in DOMAIN x.files /\ n <= x.file
               /\ x.ledger[n] = x.files[n] /\ ledger[n] = NoContents
    <3>1. CASE n = c.file
      BY <3>1, <1>3, <1>4, <1>8, <2>1, <2>2, NameIsNat
    <3>2. CASE n # c.file
      <4>1. c.ledger[n] # NoContents
        BY <3>2, <2>2, <2>7
      <4>2. /\ n \in DOMAIN c.files /\ n \in Passed(c)
            /\ c.ledger[n] = c.files[n] /\ ledger[n] = NoContents
        BY <4>1, <1>2 DEF TxOK
      <4>3. n <= c.file
        BY <4>2, <2>3, <1>4, NameIsNat
      <4> QED
        BY <3>2, <4>2, <4>3, <2>2, <1>8
    <3> QED
      BY <3>1, <3>2
  <2>8. Effects(x.applied) = FilesOf(x.ledger)
    <3>1. FilesOf(x.ledger) = FilesOf(c.ledger) \cup StatementsOf(c.file, d, Statements[d])
      <4>1. FilesOf([c.ledger EXCEPT ![c.file] = d]) =
              FilesOf(c.ledger) \cup StatementsOf(c.file, d, Statements[d])
        BY <1>2, <1>4, <2>1, FilesOfRecorded, Zenon
      <4> QED
        BY <4>1, <1>8, Zenon
    <3> QED
      BY <3>1, <2>3, <1>2, <1>8 DEF TxOK
  <2> QED
    BY <2>6, <2>7, <2>8 DEF Settled
<1> QED
  BY <1>1, <1>6, <1>8, <1>9, AdvanceStep

LEMMA FailInv ==
    ASSUME IndInv, NEW p \in Process, Fail(p)
    PROVE  IndInv'
<1> DEFINE none == NoCall
           x == [none EXCEPT !.pc = "failed"]
<1>1. none \in Call
  BY NoCallType
<1>2. calls' = [calls EXCEPT ![p] = x] /\ UNCHANGED << created, ledger, applied >>
  BY DEF Fail
<1> HIDE DEF none
<1>3. x \in Call /\ x.pc = "failed"
  BY <1>1 DEF Call
<1> HIDE DEF x
<1>4. CallOK(x, ledger) /\ x.pc \notin OpenPcs /\ x.pc # "done"
  BY <1>3 DEF CallOK, OpenPcs
<1>5. /\ lock' \in Process \cup {NoProcess} /\ lock' # p
      /\ \A q \in Process : q # p => (lock' = q <=> lock = q)
  BY MigrationsAssumption DEF Fail, IndInv, TypeOK
<1> QED
  BY <1>2, <1>3, <1>4, <1>5, CallStep

\* COMMIT: the ledger becomes the merged one, and what took effect grows by
\* what the transaction wrote.
LEMMA CommitInv ==
    ASSUME IndInv, NEW p \in Process, Commit(p)
    PROVE  IndInv'
<1> DEFINE c == calls[p]
<1>1. c.pc = "committing" /\ c.pc \in OpenPcs
  BY DEF Commit, OpenPcs
<1>2. /\ c \in Call /\ TxOK(c, ledger) /\ lock = p /\ ledger \in Checksums
      /\ c.ledger \in Checksums /\ c.applied \in AppliedStatements
      /\ c.files \in Releases \cup {<< >>}
  BY <1>1, OpenCall
<1>3. PICK pc \in {"done", "failed"} :
        calls' = [calls EXCEPT ![p] = [NoCall EXCEPT !.pc = pc, !.files = c.files]]
  BY DEF Commit
<1> DEFINE none == NoCall
           x == [none EXCEPT !.pc = pc, !.files = c.files]
<1>4. x \in Call /\ x.pc = pc /\ x.files = c.files
  <2>1. none \in Call
    BY NoCallType
  <2> HIDE DEF none
  <2> QED
    BY <1>2, <2>1 DEF Call
<1> HIDE DEF x
<1>5. calls' = [calls EXCEPT ![p] = x]
  BY <1>3, Zenon DEF x
<1>6. /\ calls \in [Process -> Call] /\ calls' \in [Process -> Call] /\ calls'[p] = x
      /\ \A q \in Process : q # p => calls'[q] = calls[q]
  BY <1>4, <1>5 DEF IndInv, TypeOK
<1>7. /\ created' = TRUE /\ lock' = NoProcess /\ applied' = applied \o c.applied
      /\ ledger' = Merged(c, ledger)
  BY DEF Commit, Merged
<1>8. /\ ledger' \in Checksums
      /\ \A n \in Name :
           ledger'[n] = IF c.ledger[n] # NoContents THEN c.ledger[n] ELSE ledger[n]
  BY <1>2, <1>7 DEF Merged, Checksums
<1>9. \A n \in Name : c.ledger[n] # NoContents => ledger[n] = NoContents
  BY <1>2 DEF TxOK
<1>10. /\ applied' \in AppliedStatements
       /\ Effects(applied') = Effects(applied) \cup Effects(c.applied)
  <2> DEFINE S == [name : Name, contents : Contents, stmt : Nat \ {0}]
  <2>1. AppliedStatements = Seq(S)
    BY DEF AppliedStatements
  <2>2. applied \in AppliedStatements
    BY DEF IndInv, TypeOK
  <2> HIDE DEF S
  <2> QED
    BY <1>2, <1>7, <2>1, <2>2, EffectsConcat, ConcatProperties
<1>11. TypeOK'
  <2>1. ASSUME NEW q \in Process
        PROVE  calls'[q].pc \notin OpenPcs
    <3>1. CASE q = p
      BY <3>1, <1>4, <1>6 DEF OpenPcs
    <3>2. CASE q # p
      BY <3>2, <1>2, <1>6 DEF IndInv, TypeOK, Open, OpenPcs
    <3> QED
      BY <3>1, <3>2
  <2>2. \A q \in Process : lock' # q
    BY <1>7, MigrationsAssumption
  <2> QED
    BY <1>6, <1>7, <1>8, <1>10, <2>1, <2>2 DEF TypeOK, Open, OpenPcs
<1>12. LedgerIsTrue'
  <2>1. Effects(applied) = FilesOf(ledger)
    BY DEF IndInv, LedgerIsTrue, Effects, FilesOf
  <2>2. Effects(c.applied) = FilesOf(c.ledger)
    BY <1>1, <1>2 DEF TxOK, InHand
  <2>3. FilesOf(ledger') = FilesOf(ledger) \cup FilesOf(c.ledger)
    BY <1>2, <1>8, <1>9, FilesOfMerged
  <2>4. Effects(applied') = FilesOf(ledger')
    BY <2>1, <2>2, <2>3, <1>10
  <2> QED
    BY <2>4, <1>7 DEF LedgerIsTrue, Effects, FilesOf
<1>13. DoneMeansMigrated'
  <2>1. ASSUME NEW q \in Process, calls'[q].pc = "done",
               NEW n \in DOMAIN calls'[q].files
        PROVE  ledger'[n] = calls'[q].files[n]
    <3>1. n \in Name /\ calls'[q].files[n] \in Contents
      <4>1. calls'[q].files \in Releases \cup {<< >>}
        BY <1>6 DEF Call
      <4> QED
        BY <4>1, FilesType
    <3>2. CASE q = p
      BY <3>1, <3>2, <1>1, <1>2, <1>4, <1>6, <1>7 DEF TxOK, Passed
    <3>3. CASE q # p
      <4>1. ledger[n] = calls'[q].files[n]
        BY <3>3, <2>1, <1>6 DEF IndInv, DoneMeansMigrated
      <4>2. ledger[n] # NoContents
        BY <4>1, <3>1, MigrationsAssumption
      <4> QED
        BY <3>1, <4>1, <4>2, <1>8, <1>9
    <3> QED
      BY <3>2, <3>3
  <2> QED
    BY <2>1, <1>7 DEF DoneMeansMigrated
<1>14. CallsOK'
  <2>1. ASSUME NEW q \in Process
        PROVE  CallOK(calls'[q], ledger')
    <3>1. CASE q = p
      BY <3>1, <1>4, <1>6 DEF CallOK, OpenPcs
    <3>2. CASE q # p
      <4>1. calls'[q].pc \notin OpenPcs
        BY <3>2, <1>2, <1>6 DEF IndInv, TypeOK, Open, OpenPcs
      <4> QED
        BY <3>2, <4>1, <1>6 DEF IndInv, CallsOK, CallOK
    <3> QED
      BY <3>1, <3>2
  <2> QED
    BY <2>1 DEF CallsOK
<1> QED
  BY <1>11, <1>12, <1>13, <1>14 DEF IndInv

-----------------------------------------------------------------------------
(* Theorems. *)

LEMMA InitInv == Init => IndInv
<1> SUFFICES ASSUME Init
             PROVE  IndInv
  OBVIOUS
<1>1. Empty \in Checksums /\ << >> \in AppliedStatements
  BY DEF Empty, Checksums, AppliedStatements
<1> DEFINE none == NoCall
<1>2. none \in Call /\ none.pc = "idle"
  BY NoCallType
<1>3. calls = [p \in Process |-> none]
  BY DEF Init
<1> HIDE DEF none
<1>4. TypeOK
  BY <1>1, <1>2, <1>3, MigrationsAssumption DEF Init, TypeOK, Open
<1>5. LedgerIsTrue
  <2>1. FilesOf(ledger) = {} /\ Effects(applied) = {}
    BY FilesOfEmpty, EffectsNone DEF Init
  <2>2. \A n \in Name : ledger[n] = NoContents
    BY DEF Init, Empty
  <2> QED
    BY <2>1, <2>2 DEF LedgerIsTrue, FilesOf, Effects
<1>6. DoneMeansMigrated
  BY <1>2, <1>3 DEF DoneMeansMigrated
<1>7. CallsOK
  BY <1>2, <1>3 DEF CallsOK, CallOK, OpenPcs
<1> QED
  BY <1>4, <1>5, <1>6, <1>7 DEF IndInv

LEMMA NextInv == IndInv /\ [Next]_vars => IndInv'
<1> SUFFICES ASSUME IndInv, [Next]_vars
             PROVE  IndInv'
  OBVIOUS
<1>1. CASE UNCHANGED vars
  BY <1>1 DEF vars, IndInv, TypeOK, LedgerIsTrue, DoneMeansMigrated, CallsOK, Open
<1>2. ASSUME NEW p \in Process, Begin(p)
      PROVE  IndInv'
  BY <1>2, BeginInv
<1>3. ASSUME NEW p \in Process, Step(p)
      PROVE  IndInv'
  BY <1>3, LockInv, PrepareInv, SkipInv, MissingInv, FailInv, ApplyInv, RecordInv,
     CommitInv DEF Step, Mismatch
<1>4. ASSUME NEW p \in Process, Fail(p)
      PROVE  IndInv'
  BY <1>4, FailInv
<1> QED
  BY <1>1, <1>2, <1>3, <1>4 DEF Next

\* The inductive invariant holds in every state of MigrateWithConfig's calls.
THEOREM Invariance == Spec => []IndInv
<1>1. Init => IndInv
  BY InitInv
<1>2. IndInv /\ [Next]_vars => IndInv'
  BY NextInv
<1> QED
  BY <1>1, <1>2, PTL DEF Spec

\* The advisory lock is held exactly by the open transaction, and the calls'
\* records have their types.
THEOREM TypeCorrect == Spec => []TypeOK
<1>1. IndInv => TypeOK
  BY DEF IndInv
<1> QED
  BY <1>1, Invariance, PTL

\* hookbound_schema_migrations tells exactly what took effect, whatever
\* statement fails in whichever process.
THEOREM LedgerTruth == Spec => []LedgerIsTrue
<1>1. IndInv => LedgerIsTrue
  BY DEF IndInv
<1> QED
  BY <1>1, Invariance, PTL

\* MigrateWithConfig returns nil only when the schema is that of its release,
\* and no later call takes that away.
THEOREM DoneMigrated == Spec => []DoneMeansMigrated
<1>1. IndInv => DoneMeansMigrated
  BY DEF IndInv
<1> QED
  BY <1>1, Invariance, PTL

-----------------------------------------------------------------------------
(* The order of the statements, for releases that append files: the        *)
(* recorded names are closed downwards, so that a file not yet recorded is *)
(* after every recorded one.                                               *)

Before(a, b) == a.name < b.name \/ (a.name = b.name /\ a.stmt < b.stmt)

Ordered(s) == \A i, j \in 1 .. Len(s) : i < j => Before(s[i], s[j])

\* A release has no file before a recorded one that is not recorded.
Closed(l) ==
    \A f \in Releases : \A n \in DOMAIN f, m \in Name :
        l[m] # NoContents /\ n < m => l[n] # NoContents

\* The transaction's files come after the committed ones.
TxOrdered(c, l) ==
    /\ Ordered(c.applied)
    /\ \A n, m \in Name : l[n] # NoContents /\ c.ledger[m] # NoContents => n < m
    /\ c.pc = "applying" => \A n \in Name : l[n] # NoContents => n < c.file

CallsOrdered == \A p \in Process : calls[p].pc \in OpenPcs => TxOrdered(calls[p], ledger)

OrderInv == AppliedInOrder /\ Closed(ledger) /\ CallsOrdered

LEMMA OrderedAppend ==
    ASSUME NEW S, NEW s \in Seq(S), NEW e \in S, Ordered(s),
           \A a \in Effects(s) : Before(a, e)
    PROVE  Ordered(Append(s, e))
<1> DEFINE u == Append(s, e)
<1>1. /\ Len(u) = Len(s) + 1 /\ Len(s) \in Nat
      /\ \A i \in 1 .. Len(s) : u[i] = s[i]
      /\ u[Len(s) + 1] = e
  BY AppendProperties, LenProperties
<1> HIDE DEF u
<1>2. ASSUME NEW i \in 1 .. Len(u), NEW j \in 1 .. Len(u), i < j
      PROVE  Before(u[i], u[j])
  <2>1. i \in 1 .. Len(s) /\ u[i] = s[i]
    BY <1>1, <1>2
  <2>2. CASE j \in 1 .. Len(s)
    BY <2>1, <2>2, <1>1, <1>2 DEF Ordered
  <2>3. CASE j = Len(s) + 1
    <3>1. s[i] \in Effects(s) /\ u[j] = e
      BY <2>1, <2>3, <1>1 DEF Effects
    <3> QED
      BY <2>1, <3>1
  <2> QED
    BY <2>2, <2>3, <1>1
<1> QED
  BY <1>2 DEF Ordered, u

LEMMA OrderedConcat ==
    ASSUME NEW S, NEW s \in Seq(S), NEW t \in Seq(S), Ordered(s), Ordered(t),
           \A a \in Effects(s), b \in Effects(t) : Before(a, b)
    PROVE  Ordered(s \o t)
<1> DEFINE u == s \o t
<1>1. /\ Len(u) = Len(s) + Len(t) /\ Len(s) \in Nat /\ Len(t) \in Nat
      /\ \A i \in 1 .. Len(s) + Len(t) : u[i] = IF i <= Len(s) THEN s[i] ELSE t[i - Len(s)]
  BY ConcatProperties, LenProperties
<1> HIDE DEF u
<1>2. ASSUME NEW i \in 1 .. Len(u), NEW j \in 1 .. Len(u), i < j
      PROVE  Before(u[i], u[j])
  <2>1. CASE j <= Len(s)
    <3>1. i \in 1 .. Len(s) /\ j \in 1 .. Len(s) /\ u[i] = s[i] /\ u[j] = s[j]
      BY <2>1, <1>1, <1>2
    <3> QED
      BY <3>1, <1>2 DEF Ordered
  <2>2. CASE i > Len(s)
    <3>1. /\ i - Len(s) \in 1 .. Len(t) /\ j - Len(s) \in 1 .. Len(t)
          /\ i - Len(s) < j - Len(s)
          /\ u[i] = t[i - Len(s)] /\ u[j] = t[j - Len(s)]
      BY <2>2, <1>1, <1>2
    <3> QED
      BY <3>1 DEF Ordered
  <2>3. CASE i <= Len(s) /\ j > Len(s)
    <3>1. /\ i \in 1 .. Len(s) /\ j - Len(s) \in 1 .. Len(t)
          /\ u[i] = s[i] /\ u[j] = t[j - Len(s)]
      BY <2>3, <1>1, <1>2
    <3> QED
      BY <3>1 DEF Effects
  <2> QED
    BY <2>1, <2>2, <2>3, <1>1
<1> QED
  BY <1>2 DEF Ordered, u

\* The recorded files a statement of which e is.
LEMMA FilesOfName ==
    ASSUME NEW l \in Checksums, NEW e \in FilesOf(l)
    PROVE  e.name \in Name /\ l[e.name] # NoContents
<1>1. PICK n \in Name : l[n] # NoContents /\ e \in StatementsOf(n, l[n], Statements[l[n]])
  BY InFilesOf, Zenon
<1>2. e.name = n
  BY <1>1 DEF StatementsOf
<1> QED
  BY <1>1, <1>2

\* A step that only changes the call of p, to x.
LEMMA OrderStep ==
    ASSUME IndInv, OrderInv, NEW p \in Process, NEW x \in Call,
           calls' = [calls EXCEPT ![p] = x], UNCHANGED << ledger, applied >>,
           x.pc \in OpenPcs => TxOrdered(x, ledger)
    PROVE  OrderInv'
<1>1. calls'[p] = x /\ \A q \in Process : q # p => calls'[q] = calls[q]
  BY DEF IndInv, TypeOK
<1>2. CallsOrdered'
  <2>1. ASSUME NEW q \in Process, calls'[q].pc \in OpenPcs
        PROVE  TxOrdered(calls'[q], ledger')
    BY <1>1, <2>1 DEF OrderInv, CallsOrdered
  <2> QED
    BY <2>1 DEF CallsOrdered
<1> QED
  BY <1>2 DEF OrderInv, AppliedInOrder

\* Advancing keeps what the transaction wrote.
LEMMA OrderAdvance ==
    ASSUME IndInv, OrderInv, NEW p \in Process, NEW c \in Call, Advance(p, c),
           UNCHANGED << ledger, applied >>,
           Ordered(c.applied),
           \A n, m \in Name : ledger[n] # NoContents /\ c.ledger[m] # NoContents => n < m
    PROVE  OrderInv'
<1>1. PICK x \in Advanced(c) : calls' = [calls EXCEPT ![p] = x]
  BY AdvanceIs DEF IndInv
<1>2. /\ x \in Call /\ x.applied = c.applied /\ x.ledger = c.ledger
      /\ x.pc # "applying"
  <2>1. x \in Call
    BY DEF Advanced
  <2>2. CASE x = [c EXCEPT !.pc = "committing"]
    BY <2>1, <2>2 DEF Call
  <2>3. ASSUME NEW n \in NextFile(c.files, c.file),
               x = [c EXCEPT !.pc = "inspecting", !.file = n]
        PROVE  /\ x.applied = c.applied /\ x.ledger = c.ledger
               /\ x.pc # "applying"
    BY <2>1, <2>3 DEF Call
  <2> QED
    BY <2>1, <2>2, <2>3 DEF Advanced
<1>3. TxOrdered(x, ledger)
  BY <1>2 DEF TxOrdered
<1> QED
  BY <1>1, <1>2, <1>3, OrderStep

LEMMA OrderBegin ==
    ASSUME IndInv, OrderInv, NEW p \in Process, Begin(p)
    PROVE  OrderInv'
<1>1. PICK f \in Releases :
        calls' = [calls EXCEPT ![p] = [NoCall EXCEPT !.pc = "locking", !.files = f]]
  BY DEF Begin
<1> DEFINE none == NoCall
           x == [none EXCEPT !.pc = "locking", !.files = f]
<1>2. none \in Call
  BY NoCallType
<1>3. calls' = [calls EXCEPT ![p] = x] /\ UNCHANGED << ledger, applied >>
  BY <1>1 DEF Begin
<1> HIDE DEF none
<1>4. x \in Call /\ x.pc \notin OpenPcs
  BY <1>2 DEF Call, OpenPcs
<1> HIDE DEF x
<1> QED
  BY <1>3, <1>4, OrderStep

LEMMA OrderFail ==
    ASSUME IndInv, OrderInv, NEW p \in Process, Fail(p)
    PROVE  OrderInv'
<1> DEFINE none == NoCall
           x == [none EXCEPT !.pc = "failed"]
<1>1. none \in Call
  BY NoCallType
<1>2. calls' = [calls EXCEPT ![p] = x] /\ UNCHANGED << ledger, applied >>
  BY DEF Fail
<1> HIDE DEF none
<1>3. x \in Call /\ x.pc \notin OpenPcs
  BY <1>1 DEF Call, OpenPcs
<1> HIDE DEF x
<1> QED
  BY <1>2, <1>3, OrderStep

LEMMA OrderLock ==
    ASSUME IndInv, OrderInv, NEW p \in Process, Lock(p)
    PROVE  OrderInv'
<1> DEFINE x == [calls[p] EXCEPT !.pc = "preparing"]
<1>1. calls[p] \in Call /\ calls \in [Process -> Call]
  BY DEF IndInv, TypeOK
<1>2. calls[p].ledger = Empty /\ calls[p].applied = << >>
  BY DEF IndInv, CallsOK, CallOK, Lock
<1>3. x \in Call /\ x.pc = "preparing" /\ x.ledger = Empty /\ x.applied = << >>
  BY <1>1, <1>2 DEF Call
<1>4. calls' = [calls EXCEPT ![p] = x] /\ UNCHANGED << ledger, applied >>
  BY <1>1 DEF Lock
<1> HIDE DEF x
<1>5. TxOrdered(x, ledger)
  <2>1. Ordered(x.applied)
    BY <1>3 DEF Ordered
  <2>2. \A m \in Name : x.ledger[m] = NoContents
    BY <1>3 DEF Empty
  <2> QED
    BY <1>3, <2>1, <2>2 DEF TxOrdered
<1> QED
  BY <1>3, <1>4, <1>5, OrderStep

LEMMA OrderPass ==
    ASSUME IndInv, OrderInv, NEW p \in Process, Prepare(p) \/ Skip(p)
    PROVE  OrderInv'
<1>1. /\ calls[p].pc \in OpenPcs /\ Advance(p, calls[p])
      /\ UNCHANGED << ledger, applied >>
  BY DEF Prepare, Skip, OpenPcs
<1>2. calls[p] \in Call
  BY <1>1, OpenCall
<1>3. TxOrdered(calls[p], ledger)
  BY <1>1 DEF OrderInv, CallsOrdered
<1>4. /\ Ordered(calls[p].applied)
      /\ \A n, m \in Name :
           ledger[n] # NoContents /\ calls[p].ledger[m] # NoContents => n < m
  BY <1>3 DEF TxOrdered
<1> QED
  BY <1>1, <1>2, <1>4, OrderAdvance

\* A file that is not recorded comes after every recorded one.
LEMMA OrderMissing ==
    ASSUME IndInv, OrderInv, NEW p \in Process, Missing(p)
    PROVE  OrderInv'
<1> DEFINE x == [calls[p] EXCEPT !.pc = "applying", !.stmt = 1]
<1>1. calls[p].pc = "inspecting" /\ calls[p].pc \in OpenPcs
  BY DEF Missing, OpenPcs
<1>2. calls[p] \in Call /\ calls[p].files \in Releases \cup {<< >>}
  BY <1>1, OpenCall
<1>3. /\ calls[p].file \in DOMAIN calls[p].files /\ calls[p].file \in Name
      /\ Merged(calls[p], ledger)[calls[p].file] = NoContents
  BY <1>1, RecordedIs DEF Missing
<1>4. /\ x \in Call /\ x.pc = "applying" /\ x.file = calls[p].file
      /\ x.ledger = calls[p].ledger /\ x.applied = calls[p].applied
  BY <1>2 DEF Call
<1>5. calls' = [calls EXCEPT ![p] = x] /\ UNCHANGED << ledger, applied >>
  BY DEF Missing, IndInv, TypeOK
<1> HIDE DEF x
<1>6. ASSUME NEW n \in Name, ledger[n] # NoContents
      PROVE  n < calls[p].file
  <2>1. ledger[calls[p].file] = NoContents
    BY <1>3 DEF Merged
  <2>2. calls[p].files \in Releases
    BY <1>2, <1>3
  <2>3. ~(calls[p].file < n)
    BY <2>1, <2>2, <1>3, <1>6 DEF OrderInv, Closed
  <2>4. n # calls[p].file /\ n \in Nat /\ calls[p].file \in Nat
    BY <2>1, <1>3, <1>6, NameIsNat
  <2> QED
    BY <2>3, <2>4
<1>7. TxOrdered(calls[p], ledger)
  BY <1>1 DEF OrderInv, CallsOrdered
<1>8. TxOrdered(x, ledger)
  BY <1>4, <1>6, <1>7 DEF TxOrdered
<1> QED
  BY <1>4, <1>5, <1>8, OrderStep

\* A statement comes after those of the same transaction.
LEMMA OrderApply ==
    ASSUME IndInv, OrderInv, NEW p \in Process, Apply(p)
    PROVE  OrderInv'
<1> DEFINE s == Statement(p)
           c == calls[p]
           d == c.files[c.file]
           more == Append(c.applied, s)
           k == c.stmt + 1
           x == [c EXCEPT !.applied = more, !.stmt = k]
           S == [name : Name, contents : Contents, stmt : Nat \ {0}]
<1>1. c.pc = "applying" /\ c.pc \in OpenPcs
  BY DEF Apply, OpenPcs
<1>2. /\ c \in Call /\ TxOK(c, ledger) /\ c.ledger \in Checksums
      /\ c.files \in Releases \cup {<< >>} /\ c.applied \in AppliedStatements
  BY <1>1, OpenCall
<1>3. c.file \in DOMAIN c.files /\ c.stmt \in 1 .. Statements[d] + 1
  BY <1>1, <1>2 DEF TxOK
<1>4. c.file \in Name /\ d \in Contents /\ c.file \in Nat
  BY <1>2, <1>3, FilesType, NameIsNat
<1>5. c.stmt \in Nat \ {0} /\ k \in Nat
  <2>1. Statements[d] \in Nat
    BY <1>4, MigrationsAssumption
  <2> QED
    BY <1>3, <2>1
<1>6. s \in S /\ s.name = c.file /\ s.stmt = c.stmt
  BY <1>4, <1>5 DEF Statement
<1>7. TxOrdered(c, ledger)
  BY <1>1 DEF OrderInv, CallsOrdered
<1>8. ASSUME NEW e \in Effects(c.applied)
      PROVE  Before(e, s)
  <2>1. CASE e \in FilesOf(c.ledger)
    <3>1. e.name \in Name /\ c.ledger[e.name] # NoContents
      BY <1>2, <2>1, FilesOfName
    <3>2. e.name \in Passed(c)
      BY <3>1, <1>2 DEF TxOK
    <3>3. e.name < c.file
      BY <3>2, <1>1 DEF Passed
    <3> QED
      BY <3>3, <1>6 DEF Before
  <2>2. CASE e \in InHand(c)
    <3>1. PICK i \in 1 .. c.stmt - 1 : e = [name |-> c.file, contents |-> d, stmt |-> i]
      BY <2>2, <1>1 DEF InHand, StatementsOf
    <3>2. e.name = c.file /\ e.stmt = i /\ i < c.stmt
      BY <3>1, <1>5
    <3> QED
      BY <3>2, <1>6 DEF Before
  <2> QED
    BY <2>1, <2>2, <1>2 DEF TxOK
<1>9. AppliedStatements = Seq(S)
  BY DEF AppliedStatements
<1> HIDE DEF s, S
<1>10. more \in AppliedStatements /\ Ordered(more)
  BY <1>2, <1>6, <1>7, <1>8, <1>9, OrderedAppend, AppendProperties DEF TxOrdered
<1>11. calls' = [calls EXCEPT ![p] = x] /\ UNCHANGED << ledger, applied >>
  BY DEF Apply, IndInv, TypeOK, s
<1> HIDE DEF more, k
<1>12. /\ x \in Call /\ x.file = c.file /\ x.ledger = c.ledger
       /\ x.applied = more /\ x.pc = "applying"
  BY <1>1, <1>2, <1>5, <1>10 DEF Call
<1> HIDE DEF x
<1>13. TxOrdered(x, ledger)
  BY <1>1, <1>7, <1>10, <1>12 DEF TxOrdered
<1> QED
  BY <1>11, <1>12, <1>13, OrderStep

LEMMA OrderRecord ==
    ASSUME IndInv, OrderInv, NEW p \in Process, Record(p)
    PROVE  OrderInv'
<1> DEFINE c == calls[p]
           d == c.files[c.file]
           l == [c.ledger EXCEPT ![c.file] = d]
           x == [c EXCEPT !.ledger = l, !.stmt = 0]
<1>1. c.pc = "applying" /\ c.pc \in OpenPcs
  BY DEF Record, OpenPcs
<1>2. /\ c \in Call /\ TxOK(c, ledger) /\ c.ledger \in Checksums
      /\ c.files \in Releases \cup {<< >>}
  BY <1>1, OpenCall
<1>3. c.file \in DOMAIN c.files
  BY <1>1, <1>2 DEF TxOK
<1>4. c.file \in Name /\ d \in Contents
  BY <1>2, <1>3, FilesType
<1>5. /\ l \in Checksums
      /\ \A n \in Name : n # c.file => l[n] = c.ledger[n]
  BY <1>2, <1>4 DEF Checksums
<1>6. Advance(p, x) /\ UNCHANGED << ledger, applied >>
  BY DEF Record
<1> HIDE DEF l
<1>7. x \in Call /\ x.ledger = l /\ x.applied = c.applied
  BY <1>2, <1>5 DEF Call
<1>8. TxOrdered(c, ledger)
  BY <1>1 DEF OrderInv, CallsOrdered
<1> HIDE DEF x
<1>9. ASSUME NEW n \in Name, NEW m \in Name, ledger[n] # NoContents,
             x.ledger[m] # NoContents
      PROVE  n < m
  <2>1. CASE m = c.file
    BY <2>1, <1>1, <1>8, <1>9 DEF TxOrdered
  <2>2. CASE m # c.file
    BY <2>2, <1>5, <1>7, <1>8, <1>9 DEF TxOrdered
  <2> QED
    BY <2>1, <2>2
<1>10. Ordered(x.applied)
  BY <1>7, <1>8 DEF TxOrdered
<1> QED
  BY <1>6, <1>7, <1>9, <1>10, OrderAdvance

LEMMA OrderCommit ==
    ASSUME ReleasesAppend, IndInv, OrderInv, NEW p \in Process, Commit(p)
    PROVE  OrderInv'
<1> DEFINE c == calls[p]
<1>1. c.pc = "committing" /\ c.pc \in OpenPcs
  BY DEF Commit, OpenPcs
<1>2. /\ c \in Call /\ TxOK(c, ledger) /\ lock = p /\ ledger \in Checksums
      /\ c.ledger \in Checksums /\ c.applied \in AppliedStatements
      /\ c.files \in Releases \cup {<< >>}
  BY <1>1, OpenCall
<1>3. TxOrdered(c, ledger)
  BY <1>1 DEF OrderInv, CallsOrdered
<1>4. applied' = applied \o c.applied /\ ledger' = Merged(c, ledger)
  BY DEF Commit, Merged
<1>5. AppliedInOrder'
  <2> DEFINE S == [name : Name, contents : Contents, stmt : Nat \ {0}]
  <2>1. AppliedStatements = Seq(S) /\ applied \in AppliedStatements
    BY DEF AppliedStatements, IndInv, TypeOK
  <2>2. Effects(applied) = FilesOf(ledger) /\ Effects(c.applied) = FilesOf(c.ledger)
    BY <1>1, <1>2 DEF IndInv, LedgerIsTrue, Effects, FilesOf, TxOK, InHand
  <2>3. ASSUME NEW a \in Effects(applied), NEW b \in Effects(c.applied)
        PROVE  Before(a, b)
    <3>1. /\ a.name \in Name /\ ledger[a.name] # NoContents
          /\ b.name \in Name /\ c.ledger[b.name] # NoContents
      BY <2>2, <1>2, FilesOfName
    <3> QED
      BY <3>1, <1>3 DEF TxOrdered, Before
  <2>4. Ordered(applied) /\ Ordered(c.applied)
    BY <1>3 DEF OrderInv, AppliedInOrder, Ordered, Before, TxOrdered
  <2> HIDE DEF S
  <2>5. Ordered(applied')
    BY <1>2, <1>4, <2>1, <2>3, <2>4, OrderedConcat
  <2> QED
    BY <2>5 DEF AppliedInOrder, Ordered, Before
<1>6. Closed(ledger')
  <2>1. ASSUME NEW f \in Releases, NEW n \in DOMAIN f, NEW m \in Name,
               ledger'[m] # NoContents, n < m
        PROVE  ledger'[n] # NoContents
    <3>1. n \in Name /\ n \in Nat /\ m \in Nat
      BY FilesType, NameIsNat
    <3>2. CASE ledger[m] # NoContents
      <4>1. ledger[n] # NoContents
        BY <3>2, <2>1 DEF OrderInv, Closed
      <4> QED
        BY <3>1, <4>1, <1>4 DEF Merged
    <3>3. CASE ledger[m] = NoContents
      <4>1. c.ledger[m] # NoContents
        BY <3>3, <2>1, <1>4 DEF Merged
      <4>2. m \in DOMAIN c.files
        BY <4>1, <1>2 DEF TxOK
      <4>3. c.files \in Releases
        BY <4>2, <1>2
      <4>4. n \in DOMAIN c.files
        BY <4>2, <4>3, <2>1 DEF ReleasesAppend
      <4>5. c.files[n] # NoContents
        BY <4>3, <4>4, FilesType, MigrationsAssumption
      <4> QED
        BY <4>4, <4>5, <3>1, <1>1, <1>2, <1>4 DEF TxOK, Passed
    <3> QED
      BY <3>2, <3>3
  <2> QED
    BY <2>1 DEF Closed
<1>7. CallsOrdered'
  <2>1. ASSUME NEW q \in Process
        PROVE  calls'[q].pc \notin OpenPcs
    BY CommitInv, MigrationsAssumption DEF IndInv, TypeOK, Open, OpenPcs, Commit
  <2> QED
    BY <2>1 DEF CallsOrdered
<1> QED
  BY <1>5, <1>6, <1>7 DEF OrderInv

LEMMA OrderInit == Init => OrderInv
<1> SUFFICES ASSUME Init
             PROVE  OrderInv
  OBVIOUS
<1>1. calls \in [Process -> {NoCall}]
  BY DEF Init
<1>2. \A p \in Process : calls[p].pc \notin OpenPcs
  BY <1>1, NoCallType DEF OpenPcs
<1> QED
  BY <1>2 DEF Init, OrderInv, AppliedInOrder, Closed, CallsOrdered, Empty

LEMMA OrderNext ==
    ReleasesAppend => (IndInv /\ OrderInv /\ [Next]_vars => OrderInv')
<1> SUFFICES ASSUME ReleasesAppend, IndInv, OrderInv, [Next]_vars
             PROVE  OrderInv'
  OBVIOUS
<1>1. CASE UNCHANGED vars
  BY <1>1 DEF vars, OrderInv, AppliedInOrder, CallsOrdered
<1>2. ASSUME NEW p \in Process, Begin(p) \/ Fail(p)
      PROVE  OrderInv'
  BY <1>2, OrderBegin, OrderFail
<1>3. ASSUME NEW p \in Process, Step(p)
      PROVE  OrderInv'
  BY <1>3, OrderLock, OrderPass, OrderMissing, OrderFail, OrderApply, OrderRecord,
     OrderCommit DEF Step, Mismatch
<1> QED
  BY <1>1, <1>2, <1>3 DEF Next

\* Statements take effect once and in order, across calls of processes of
\* several releases, when no release adds a file before one that another has.
THEOREM StatementsInOrder == ReleasesAppend => (Spec => []AppliedInOrder)
<1> SUFFICES ASSUME ReleasesAppend
             PROVE  Spec => []AppliedInOrder
  OBVIOUS
<1>1. Init => OrderInv
  BY OrderInit
<1>2. IndInv /\ OrderInv /\ [Next]_vars => OrderInv'
  BY OrderNext
<1>3. OrderInv => AppliedInOrder
  BY DEF OrderInv
<1> QED
  BY <1>1, <1>2, <1>3, Invariance, PTL DEF Spec
=============================================================================
