------------------------------ MODULE Migrations ------------------------------
(***************************************************************************)
(* MigrateWithConfig (src/postgres/migrate.go) on one schema: processes of *)
(* different releases of the program migrate at any time, fail at any      *)
(* statement and try again.                                                *)
(*                                                                         *)
(* A file name is a number, its place in the sorted order from 1 on.  A    *)
(* checksum tells contents apart, so it is the contents.                   *)
(***************************************************************************)
EXTENDS Integers, Sequences

CONSTANTS
    Process,
    NoProcess,
    Contents,    \* contents of migration files
    NoContents,
    Name,        \* names of migration files
    Releases,    \* the embedded files of each release, from name to contents
    Statements   \* of contents, how many statements splitStatements returns

ASSUME MigrationsAssumption ==
    /\ NoProcess \notin Process
    /\ NoContents \notin Contents
    /\ Name \subseteq Nat \ {0}
    /\ Releases \subseteq UNION { [S -> Contents] : S \in SUBSET Name }
    /\ Statements \in [Contents -> Nat]

VARIABLES
    created,   \* the schema and its ledger table exist
    ledger,    \* hookbound_schema_migrations: the checksum of each name
    applied,   \* history: the statements that took effect
    lock,      \* holder of the advisory lock
    calls      \* each process's call of MigrateWithConfig and its transaction

vars == << created, ledger, applied, lock, calls >>

\* No name's checksum.
Empty == [n \in Name |-> NoContents]

\* file is the file in hand, stmt its next statement; ledger and applied are
\* what the transaction has written.
NoCall ==
    [pc |-> "idle", files |-> << >>, file |-> 0, stmt |-> 0, ledger |-> Empty,
     applied |-> << >>]

Init ==
    /\ created = FALSE
    /\ ledger = Empty
    /\ applied = << >>
    /\ lock = NoProcess
    /\ calls = [p \in Process |-> NoCall]

-----------------------------------------------------------------------------
(* A call. *)

Open(p) == calls[p].pc \in {"preparing", "inspecting", "applying", "committing"}

\* A call begins, the first of its process or another, in any release.
Begin(p) ==
    /\ calls[p].pc \in {"idle", "failed"}
    /\ \E files \in Releases :
         calls' = [calls EXCEPT ![p] = [NoCall EXCEPT !.pc = "locking", !.files = files]]
    /\ UNCHANGED << created, ledger, applied, lock >>

\* Faulty: the lock is not waited for.
LockWithoutWaiting(p) ==
    /\ calls[p].pc = "locking"
    /\ lock' = p
    /\ calls' = [calls EXCEPT ![p].pc = "preparing"]
    /\ UNCHANGED << created, ledger, applied >>

\* pg_advisory_xact_lock
Lock(p) ==
    /\ calls[p].pc = "locking"
    /\ lock = NoProcess
    /\ lock' = p
    /\ calls' = [calls EXCEPT ![p].pc = "preparing"]
    /\ UNCHANGED << created, ledger, applied >>

\* Faulty: the names are taken from the last to the first.
LastFile(files, n) ==
    { m \in DOMAIN files : (n = 0 \/ m < n) /\ \A k \in DOMAIN files : n = 0 \/ k < n => k <= m }

\* The name after n in sorted order; none after the last.
NextFile(files, n) ==
    { m \in DOMAIN files : m > n /\ \A k \in DOMAIN files : k > n => m <= k }

\* On to the next file, or to COMMIT, with the call's record c.
Advance(p, c) ==
    LET next == NextFile(c.files, c.file) IN
    \/ /\ next = {}
       /\ calls' = [calls EXCEPT ![p] = [c EXCEPT !.pc = "committing"]]
    \/ \E n \in next :
         calls' = [calls EXCEPT ![p] = [c EXCEPT !.pc = "inspecting", !.file = n]]

\* CREATE SCHEMA, search_path, CREATE TABLE
Prepare(p) ==
    /\ calls[p].pc = "preparing"
    /\ Advance(p, calls[p])
    /\ UNCHANGED << created, ledger, applied, lock >>

\* SELECT checksum
Recorded(p) ==
    LET c == calls[p] IN
    IF c.ledger[c.file] # NoContents THEN c.ledger[c.file] ELSE ledger[c.file]

\* Faulty: a name in the ledger is taken as applied.
AnyChecksum(p) == Recorded(p) # NoContents

SameChecksum(p) == Recorded(p) = calls[p].files[calls[p].file]

\* Faulty: the file is inspected again.
SkipAgain(p) ==
    /\ calls[p].pc = "inspecting"
    /\ SameChecksum(p)
    /\ UNCHANGED vars

\* Already applied.
Skip(p) ==
    /\ calls[p].pc = "inspecting"
    /\ SameChecksum(p)
    /\ Advance(p, calls[p])
    /\ UNCHANGED << created, ledger, applied, lock >>

\* sql.ErrNoRows
Missing(p) ==
    /\ calls[p].pc = "inspecting"
    /\ Recorded(p) = NoContents
    /\ calls' = [calls EXCEPT ![p].pc = "applying", ![p].stmt = 1]
    /\ UNCHANGED << created, ledger, applied, lock >>

Statement(p) ==
    LET c == calls[p] IN
    [name |-> c.file, contents |-> c.files[c.file], stmt |-> c.stmt]

Remaining(p) == calls[p].stmt <= Statements[calls[p].files[calls[p].file]]

Apply(p) ==
    /\ calls[p].pc = "applying"
    /\ Remaining(p)
    /\ calls' = [calls EXCEPT ![p].applied = Append(@, Statement(p)), ![p].stmt = @ + 1]
    /\ UNCHANGED << created, ledger, applied, lock >>

\* INSERT of the checksum.  The lock keeps other inserts of the name away.
Record(p) ==
    LET c == calls[p] IN
    /\ c.pc = "applying"
    /\ ~Remaining(p)
    /\ Advance(p, [c EXCEPT !.ledger[c.file] = c.files[c.file], !.stmt = 0])
    /\ UNCHANGED << created, ledger, applied, lock >>

\* COMMIT, whose answer may be lost.
Commit(p) ==
    LET c == calls[p] IN
    /\ c.pc = "committing"
    /\ created' = TRUE
    /\ ledger' = [n \in Name |-> IF c.ledger[n] # NoContents THEN c.ledger[n] ELSE ledger[n]]
    /\ applied' = applied \o c.applied
    /\ lock' = NoProcess
    /\ \E pc \in {"done", "failed"} :
         calls' = [calls EXCEPT ![p] = [NoCall EXCEPT !.pc = pc, !.files = c.files]]

\* Faulty: what was applied stays.
FailKeepsStatements(p) ==
    /\ calls[p].pc = "locking" \/ Open(p)
    /\ lock' = IF lock = p THEN NoProcess ELSE lock
    /\ applied' = applied \o calls[p].applied
    /\ calls' = [calls EXCEPT ![p] = [NoCall EXCEPT !.pc = "failed"]]
    /\ UNCHANGED << created, ledger >>

\* A statement fails, the connection or the process is lost, the context ends,
\* or the checksum differs: the transaction is rolled back, and its lock goes.
Fail(p) ==
    /\ calls[p].pc = "locking" \/ Open(p)
    /\ lock' = IF lock = p THEN NoProcess ELSE lock
    /\ calls' = [calls EXCEPT ![p] = [NoCall EXCEPT !.pc = "failed"]]
    /\ UNCHANGED << created, ledger, applied >>

\* "applied migration changed"
Mismatch(p) ==
    /\ calls[p].pc = "inspecting"
    /\ ~SameChecksum(p)
    /\ Recorded(p) # NoContents
    /\ Fail(p)

-----------------------------------------------------------------------------
\* What a call does unless something goes wrong.
Step(p) ==
    \/ Lock(p) \/ Prepare(p) \/ Skip(p) \/ Missing(p) \/ Mismatch(p)
    \/ Apply(p) \/ Record(p) \/ Commit(p)

Next == \E p \in Process : Begin(p) \/ Step(p) \/ Fail(p)

Spec == Init /\ [][Next]_vars

\* Statements return, and PostgreSQL's lock queue serves a waiter.
Fairness == \A p \in Process : SF_vars(Step(p))

FairSpec == Spec /\ Fairness

-----------------------------------------------------------------------------
(* Properties. *)

Checksums == [Name -> Contents \cup {NoContents}]

AppliedStatements ==
    Seq([name : Name, contents : Contents, stmt : Nat \ {0}])

Call ==
    [pc : {"idle", "locking", "preparing", "inspecting", "applying", "committing",
           "done", "failed"},
     files : Releases \cup {<< >>},
     file : Name \cup {0},
     stmt : Nat,
     ledger : Checksums,
     applied : AppliedStatements]

\* Type invariant; the lock is held exactly by the open transaction.
TypeOK ==
    /\ created \in BOOLEAN
    /\ ledger \in Checksums
    /\ applied \in AppliedStatements
    /\ lock \in Process \cup {NoProcess}
    /\ calls \in [Process -> Call]
    /\ \A p \in Process : Open(p) <=> lock = p

\* The ledger tells the truth: exactly the files it records took effect, with
\* all of their statements and the contents it has the checksum of.  No
\* failure, at any statement, leaves part of a file behind.
LedgerIsTrue ==
    /\ { applied[i] : i \in 1 .. Len(applied) } =
         UNION { { [name |-> n, contents |-> ledger[n], stmt |-> i] :
                     i \in 1 .. Statements[ledger[n]] } :
                 n \in { m \in Name : ledger[m] # NoContents } }
    /\ (\E n \in Name : ledger[n] # NoContents) => created

\* Releases only append files: one that has a name has every smaller name that
\* any other has.  The order of the files is promised for such releases.
ReleasesAppend ==
    \A f, g \in Releases : \A n \in DOMAIN f, m \in DOMAIN g : n < m => n \in DOMAIN g

\* Every statement takes effect once, and after those it may depend on: files
\* in the order of their names, statements in their order in the file, across
\* calls of processes of several releases that append files.
AppliedInOrder ==
    \A i, j \in 1 .. Len(applied) : i < j =>
        \/ applied[i].name < applied[j].name
        \/ applied[i].name = applied[j].name /\ applied[i].stmt < applied[j].stmt

\* MigrateWithConfig returns nil only when the schema is that of its release:
\* every file is applied, by it or by another, with the contents it knows; and
\* it stays so, whatever older or newer releases do later.
DoneMeansMigrated ==
    \A p \in Process : calls[p].pc = "done" =>
        /\ created
        /\ \A n \in DOMAIN calls[p].files : ledger[n] = calls[p].files[n]

\* Every call ends: waiters get the lock after the holder commits, fails or
\* finds a changed file.
EveryCallEnds ==
    \A p \in Process : calls[p].pc = "locking" ~> calls[p].pc \in {"done", "failed"}
=============================================================================
