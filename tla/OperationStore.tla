--------------------------- MODULE OperationStore ---------------------------
(***************************************************************************)
(* The SQLite authority of one bound Plan leaf: workspace/operation_store.py *)
(* and the way benchmark/sqlite_storage.py enters it.  Each process opens    *)
(* the database file for one operation at a time under the flock() of the    *)
(* operations directory.                                                     *)
(*                                                                           *)
(* SQLite itself is external: a DELETE-mode commit saves the old pages in a  *)
(* rollback journal, overwrites the database file page by page and commits   *)
(* by deleting the journal.  A journal nobody is writing is hot: whoever     *)
(* opens the database for writing rolls it back, and whoever opens it        *)
(* read-only is refused.  SQLite's own file locks are never contended under  *)
(* the flock() and are left out.                                             *)
(***************************************************************************)
EXTENDS Integers, Sequences, FiniteSets

CONSTANTS
    Procs,          \* processes (and threads) that use the leaf
    Streams,        \* streams of the database
    Txs,            \* transaction identities
    Writes,         \* [Txs -> SUBSET Streams]: streams a transaction appends to
    Selects,        \* transactions that call select_first
    NoTx,           \* no transaction
    MaxCalls,       \* bound: number of operations explored
    Crashes,        \* bound: may a process die?
    Faults          \* bound: may a statement, COMMIT or rollback fail?

ASSUME StoreAssumption ==
    /\ Writes \in [Txs -> SUBSET Streams]
    /\ Selects \subseteq Txs
    /\ NoTx \notin Txs
    /\ MaxCalls \in Nat
    /\ Crashes \in BOOLEAN
    /\ Faults \in BOOLEAN

VARIABLES
    \* The operations directory (durable).
    created,        \* does operations.sqlite3 exist?
    file,           \* its pages
    journal,        \* {} or {the pages before the commit under way}
    \* flock() on .scnsim.lock, dropped by the kernel when its holder dies.
    exclusive,
    shared,
    \* One operation per process (volatile).
    pc,             \* where the operation is
    call,           \* initialize, transaction, read or recover
    tx,             \* transaction_id
    expected,       \* expected_revisions, a set of <<stream, revision>>
    work,           \* the pages as the open connection has changed them
    view,           \* what Snapshot.read_stream returned, <<stream, entries>>
    \* Observation.
    told,           \* transaction.outcome as the writer learns it, or "none"
    kept,           \* [Txs -> the expectations a transaction committed under]
    calls           \* number of operations started

diskVars == <<created, file, journal>>
lockVars == <<exclusive, shared>>
callVars == <<call, tx, expected>>
vars == <<diskVars, lockVars, pc, callVars, work, view, told, kept, calls>>

-----------------------------------------------------------------------------
(* The database *)

EmptyFile == [bound |-> FALSE, streams |-> [s \in Streams |-> <<>>],
              first |-> NoTx, markers |-> {}]

Hot == journal # {}

(* The last committed state: what a rollback restores, or the file itself. *)
Committed == IF Hot THEN CHOOSE pages \in journal : TRUE ELSE file

(* StoreTransaction.select_first *)
Selection(pages, t) == IF pages.first = NoTx /\ t \in Selects THEN t ELSE pages.first

(* StoreTransaction: everything the caller's block and the marker insert add. *)
Applied(pages, t) ==
    [bound   |-> pages.bound,
     streams |-> [s \in Streams |-> IF s \in Writes[t] THEN Append(pages.streams[s], t)
                                                       ELSE pages.streams[s]],
     first   |-> Selection(pages, t),
     markers |-> pages.markers \cup {t}]

(* Mutant: a stream that moved on is accepted. *)
KnowsRevision(pages, wanted) ==
    \A e \in wanted : Len(pages.streams[e[1]]) >= e[2]

RevisionsMatch(pages, wanted) ==
    \A e \in wanted : Len(pages.streams[e[1]]) = e[2]

(* Mutant: the marker is not consulted. *)
AlwaysFresh(pages, t) == TRUE

(* Snapshot.transaction_status(...) is not "committed" *)
NotReplayed(pages, t) == t \notin pages.markers

-----------------------------------------------------------------------------
(* Operations *)

Goto(p, label) == pc' = [pc EXCEPT ![p] = label]

(* Mutant: readers do not wait for the writer. *)
SharedAtOnce(p) == shared' = shared \cup {p} /\ UNCHANGED exclusive

TakeShared(p) == exclusive = {} /\ shared' = shared \cup {p} /\ UNCHANGED exclusive

TakeExclusive(p) == exclusive = {} /\ shared = {} /\ exclusive' = {p} /\ UNCHANGED shared

(* Mutant: an operation that fails keeps the lock. *)
KeepHold(p) == UNCHANGED lockVars

DropLock(p) == exclusive' = exclusive \ {p} /\ shared' = shared \ {p}

Forget(p) ==
    /\ call' = [call EXCEPT ![p] = "none"]
    /\ tx' = [tx EXCEPT ![p] = NoTx]
    /\ expected' = [expected EXCEPT ![p] = {}]
    /\ work' = [work EXCEPT ![p] = EmptyFile]
    /\ view' = [view EXCEPT ![p] = {}]

(* The connection is closed and the lock released. *)
Leave(p) == DropLock(p) /\ Forget(p) /\ Goto(p, "idle")

Tell(p, status) == told' = [told EXCEPT ![p] = status]

(* What a caller may expect was once the revision of the stream. *)
Expectations(t) ==
    {{}} \cup {{<<s, r>>} : s \in Writes[t], r \in UNION {0 .. Len(Committed.streams[q]) : q \in Streams}}

(* reader() leaves an absent database alone. *)
Call(p) ==
    /\ pc[p] = "idle" /\ calls < MaxCalls
    /\ calls' = calls + 1
    /\ \E kind \in {"initialize", "transaction", "read", "recover"} :
          /\ kind = "read" => created
          /\ call' = [call EXCEPT ![p] = kind]
          /\ IF kind = "transaction"
             THEN \E t \in Txs : /\ tx' = [tx EXCEPT ![p] = t]
                                 /\ \E e \in Expectations(t) : expected' = [expected EXCEPT ![p] = e]
             ELSE UNCHANGED <<tx, expected>>
    /\ told' = [told EXCEPT ![p] = "none"]
    /\ Goto(p, "lock")
    /\ UNCHANGED <<diskVars, lockVars, work, view, kept>>

Lock(p) ==
    /\ pc[p] = "lock"
    /\ IF call[p] = "read" THEN TakeShared(p) ELSE TakeExclusive(p)
    /\ Goto(p, "open")
    /\ UNCHANGED <<diskVars, callVars, work, view, told, kept, calls>>

(* initialize: connecting with mode=rwc creates the file, the schema and the *)
(* binding are written by a transaction of their own.                        *)
Create(p) ==
    /\ pc[p] = "open" /\ call[p] = "initialize" /\ ~created
    /\ created' = TRUE
    /\ work' = [work EXCEPT ![p] = [file EXCEPT !.bound = TRUE]]
    /\ Goto(p, "commit")
    /\ UNCHANGED <<file, journal, lockVars, callVars, view, told, kept, calls>>

(* _connect(mode="rw") and _verify_binding: SQLite rolls a hot journal back  *)
(* before the first read, which fails when there is nothing bound to verify. *)
OpenForWriting(p) ==
    /\ pc[p] = "open" /\ call[p] # "read" /\ created
    /\ file' = Committed
    /\ journal' = {}
    /\ IF Committed.bound /\ call[p] = "transaction"
       THEN Goto(p, "begin") /\ UNCHANGED <<lockVars, callVars, work, view>>
       ELSE Leave(p)
    /\ UNCHANGED <<created, told, kept, calls>>

(* mode=rw does not create a database. *)
OpenAbsent(p) ==
    /\ pc[p] = "open" /\ call[p] \in {"transaction", "recover"} /\ ~created
    /\ Leave(p)
    /\ UNCHANGED <<diskVars, told, kept, calls>>

(* BEGIN IMMEDIATE, then the replay and revision checks; the caller's block  *)
(* runs inside the transaction.                                              *)
Begin(p) ==
    /\ pc[p] = "begin"
    /\ NotReplayed(file, tx[p]) /\ RevisionsMatch(file, expected[p])
    /\ work' = [work EXCEPT ![p] = Applied(file, tx[p])]
    /\ Goto(p, "commit")
    /\ UNCHANGED <<diskVars, lockVars, callVars, view, told, kept, calls>>

(* Refused before the caller's block: no transaction object, no outcome. *)
Refuse(p) ==
    /\ pc[p] = "begin"
    /\ ~(NotReplayed(file, tx[p]) /\ RevisionsMatch(file, expected[p]))
    /\ Leave(p)
    /\ UNCHANGED <<diskVars, told, kept, calls>>

(* The caller's block raises (another attempt is current): the connection is *)
(* closed without COMMIT and the outcome keeps its initial value.            *)
BodyRaises(p) ==
    /\ Faults
    /\ pc[p] = "begin"
    /\ NotReplayed(file, tx[p]) /\ RevisionsMatch(file, expected[p])
    /\ Tell(p, "not_committed")
    /\ Leave(p)
    /\ UNCHANGED <<diskVars, kept, calls>>

(* COMMIT: the journal is synced before the first page is overwritten. *)
SaveJournal(p) ==
    /\ pc[p] = "commit"
    /\ journal' = {file}
    /\ Goto(p, "pages")
    /\ UNCHANGED <<created, file, lockVars, callVars, work, view, told, kept, calls>>

WritePage(p) ==
    /\ pc[p] = "pages"
    /\ \/ file' = [file EXCEPT !.bound = work[p].bound]
       \/ file' = [file EXCEPT !.first = work[p].first]
       \/ file' = [file EXCEPT !.markers = work[p].markers]
       \/ \E s \in Streams : file' = [file EXCEPT !.streams[s] = work[p].streams[s]]
    /\ file' # file
    /\ UNCHANGED <<created, journal, lockVars, pc, callVars, work, view, told, kept, calls>>

(* Deleting the journal is the commit. *)
DeleteJournal(p) ==
    /\ pc[p] = "pages" /\ file = work[p]
    /\ journal' = {}
    /\ kept' = IF call[p] = "transaction" THEN [kept EXCEPT ![tx[p]] = expected[p]] ELSE kept
    /\ Goto(p, "committed")
    /\ UNCHANGED <<created, file, lockVars, callVars, work, view, told, calls>>

Acknowledge(p) ==
    /\ pc[p] = "committed"
    /\ IF call[p] = "transaction" THEN Tell(p, "committed") ELSE UNCHANGED told
    /\ Leave(p)
    /\ UNCHANGED <<diskVars, kept, calls>>

(* COMMIT raises before or after its commit point.  Closing the connection   *)
(* rolls an uncommitted transaction back unless that fails as well.          *)
CommitRaises(p) ==
    /\ Faults
    /\ pc[p] \in {"commit", "pages", "committed"}
    /\ \/ file' = Committed /\ journal' = {}
       \/ UNCHANGED <<file, journal>>
    /\ IF call[p] = "transaction"
       THEN Goto(p, "reconcile") /\ UNCHANGED <<lockVars, callVars, work, view>>
       ELSE Leave(p)
    /\ UNCHANGED <<created, told, kept, calls>>

(* Mutant: a commit that raised is reported as rolled back. *)
AssumeRolledBack(t) == "not_committed"

(* _reconcile: an independent read-only connection looks for the marker. *)
MarkerStatus(t) ==
    IF Hot THEN "unknown" ELSE IF t \in file.markers THEN "committed" ELSE "not_committed"

Reconcile(p) ==
    /\ pc[p] = "reconcile"
    /\ \/ Tell(p, MarkerStatus(tx[p]))
       \/ Faults /\ Tell(p, "unknown")
    /\ Leave(p)
    /\ UNCHANGED <<diskVars, kept, calls>>

(* Mutant: an existing journal does not disturb a reader. *)
IgnoresJournal == file.bound

Readable == ~Hot /\ file.bound

(* reader(): WorkspaceRecoveryRequiredError, or no metadata to verify. *)
OpenForReading(p) ==
    /\ pc[p] = "open" /\ call[p] = "read"
    /\ IF Readable
       THEN Goto(p, "reading") /\ UNCHANGED <<lockVars, callVars, work, view>>
       ELSE Leave(p)
    /\ UNCHANGED <<diskVars, told, kept, calls>>

(* One statement on the open snapshot. *)
ReadStream(p) ==
    /\ pc[p] = "reading"
    /\ \E s \in Streams :
          /\ \A row \in view[p] : row[1] # s
          /\ view' = [view EXCEPT ![p] = @ \cup {<<s, file.streams[s]>>}]
    /\ UNCHANGED <<diskVars, lockVars, pc, callVars, work, told, kept, calls>>

EndRead(p) ==
    /\ pc[p] = "reading"
    /\ Leave(p)
    /\ UNCHANGED <<diskVars, told, kept, calls>>

Crash(p) ==
    /\ Crashes
    /\ pc[p] # "idle"
    /\ Leave(p)
    /\ UNCHANGED <<diskVars, told, kept, calls>>

-----------------------------------------------------------------------------
Init ==
    /\ created = FALSE
    /\ file = EmptyFile
    /\ journal = {}
    /\ exclusive = {}
    /\ shared = {}
    /\ pc = [p \in Procs |-> "idle"]
    /\ call = [p \in Procs |-> "none"]
    /\ tx = [p \in Procs |-> NoTx]
    /\ expected = [p \in Procs |-> {}]
    /\ work = [p \in Procs |-> EmptyFile]
    /\ view = [p \in Procs |-> {}]
    /\ told = [p \in Procs |-> "none"]
    /\ kept = [t \in Txs |-> {}]
    /\ calls = 0

(* The steps an operation takes on its own. *)
Progress(p) ==
    \/ Lock(p) \/ Create(p) \/ OpenForWriting(p) \/ OpenAbsent(p) \/ Begin(p) \/ Refuse(p)
    \/ SaveJournal(p) \/ WritePage(p) \/ DeleteJournal(p) \/ Acknowledge(p) \/ Reconcile(p)
    \/ OpenForReading(p) \/ EndRead(p)

Next ==
    \E p \in Procs :
        \/ Call(p) \/ Progress(p) \/ ReadStream(p)
        \/ BodyRaises(p) \/ CommitRaises(p) \/ Crash(p)

Spec == Init /\ [][Next]_vars

(* A live process executes its next statement, and flock() returns once the  *)
(* lock is free.                                                             *)
FairSpec == Spec /\ \A p \in Procs : WF_vars(Progress(p))
=============================================================================
