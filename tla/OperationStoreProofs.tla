------------------------ MODULE OperationStoreProofs ------------------------
(***************************************************************************)
(* The operation store for every set of processes, streams and transactions *)
(* and under every fault: what flock() and the rollback journal guarantee,  *)
(* and that the store implements AtomicStore.                               *)
(***************************************************************************)
EXTENDS OperationStoreProperties, TLAPS

-----------------------------------------------------------------------------
(* The inductive invariant *)

Writing == {"begin", "commit", "pages", "committed", "reconcile"}

(* Who works on what. *)
JobOK(p) ==
    /\ call[p] = "transaction" => tx[p] \in Txs /\ expected[p] \subseteq Writes[tx[p]] \X Nat
    /\ pc[p] \in {"begin", "reconcile"} => call[p] = "transaction"
    /\ pc[p] \in {"commit", "pages", "committed"} => call[p] \in {"initialize", "transaction"}
    /\ pc[p] \in {"reading"} => call[p] = "read"
    /\ view[p] # {} => pc[p] = "reading"

(* Who holds the lock. *)
HoldOK(p) ==
    /\ pc[p] \in Writing => p \in exclusive
    /\ pc[p] = "open" => IF call[p] = "read" THEN p \in shared ELSE p \in exclusive
    /\ pc[p] = "reading" => p \in shared

(* The pages a commit will leave behind. *)
Initialized(p) ==
    /\ call[p] = "initialize"
    /\ ~Committed.bound
    /\ work[p] = [Committed EXCEPT !.bound = TRUE]

Changed(p) ==
    /\ call[p] = "transaction"
    /\ Committed.bound
    /\ NotReplayed(Committed, tx[p])
    /\ RevisionsMatch(Committed, expected[p])
    /\ work[p] = Applied(Committed, tx[p])

(* What an operation that holds the lock knows of the disk. *)
PageOK(p) ==
    /\ pc[p] \in {"begin", "commit", "committed", "reading"} => journal = {}
    /\ pc[p] \in {"begin", "commit", "pages", "committed"} => created
    /\ pc[p] = "begin" => Committed.bound
    /\ pc[p] = "pages" => Hot
    /\ pc[p] \in {"commit", "pages"} => Initialized(p) \/ Changed(p)
    /\ pc[p] = "committed" /\ call[p] = "transaction" => tx[p] \in Committed.markers

Absent == ~created => file = EmptyFile /\ journal = {}

StoreInv ==
    /\ TypeOK
    /\ Absent
    /\ \A p \in Procs : JobOK(p) /\ HoldOK(p) /\ PageOK(p)
    /\ OptimisticOrder
    /\ ReaderStable


-----------------------------------------------------------------------------
(* Facts about the pages *)

LEMMA CommittedNow ==
    /\ journal = {} => Committed = file
    /\ journal # {} => Committed \in journal
BY DEF Committed, Hot

LEMMA CommittedNext ==
    /\ journal' = {} => Committed' = file'
    /\ journal' # {} => Committed' \in journal'
BY DEF Committed, Hot

LEMMA CommittedType == DiskTypes => Committed \in Pages
BY CommittedNow DEF DiskTypes

LEMMA EmptyType == EmptyFile \in Pages
BY DEF EmptyFile, Pages

(* What one transaction makes of the pages. *)
LEMMA AppliedIs ==
    ASSUME StoreAssumption, NEW pages \in Pages, NEW t \in Txs
    PROVE  LET after == Applied(pages, t) IN
           /\ after \in Pages
           /\ after.bound = pages.bound
           /\ after.first = Selection(pages, t)
           /\ after.markers = pages.markers \cup {t}
           /\ after.streams = [s \in Streams |-> IF s \in Writes[t] THEN Append(pages.streams[s], t)
                                                                   ELSE pages.streams[s]]
<1>1. Selection(pages, t) \in Txs \cup {NoTx}
  BY DEF Selection, Pages
<1>2. \A s \in Streams : pages.streams[s] \in Seq(Txs) /\ Append(pages.streams[s], t) \in Seq(Txs)
  BY DEF Pages
<1>3. [s \in Streams |-> IF s \in Writes[t] THEN Append(pages.streams[s], t) ELSE pages.streams[s]]
         \in [Streams -> Seq(Txs)]
  BY <1>2
<1> QED BY <1>1, <1>3 DEF Applied, Pages

LEMMA ExpectationType ==
    ASSUME StoreAssumption, DiskTypes, NEW t \in Txs, NEW e \in Expectations(t)
    PROVE  e \subseteq Writes[t] \X Nat /\ e \in SUBSET Expectation
<1>1. Writes[t] \subseteq Streams
  BY DEF StoreAssumption
<1>2. \A s \in Streams : Len(Committed.streams[s]) \in Nat
  BY CommittedType DEF Pages
<1>3. \A r \in UNION {0 .. Len(Committed.streams[s]) : s \in Streams} : r \in Nat
  BY <1>2
<1>4. e \subseteq Writes[t] \X Nat
  BY <1>3 DEF Expectations
<1> QED BY <1>1, <1>4 DEF Expectation

-----------------------------------------------------------------------------
(* Types *)

LEMMA CallType ==
    ASSUME StoreAssumption, StoreInv, NEW p \in Procs, Call(p)
    PROVE  TypeOK'
<1>1. \A t \in Txs : \A e \in Expectations(t) : e \in SUBSET Expectation
  BY ExpectationType DEF StoreInv, TypeOK
<1>2. DiskTypes'
  BY DEF Call, Goto, diskVars, lockVars, StoreInv, TypeOK, DiskTypes
<1>3. LockTypes'
  BY DEF Call, Goto, diskVars, lockVars, StoreInv, TypeOK, LockTypes
<1>4. CallTypes'
  BY <1>1 DEF Call, Goto, diskVars, lockVars, StoreInv, TypeOK, CallTypes
<1>5. WorkTypes'
  BY EmptyType DEF Call, Goto, diskVars, lockVars, StoreInv, TypeOK, WorkTypes
<1>6. NoteTypes'
  BY DEF Call, Goto, diskVars, lockVars, StoreAssumption, StoreInv, TypeOK, NoteTypes
<1> QED BY <1>2, <1>3, <1>4, <1>5, <1>6 DEF TypeOK

LEMMA LockType ==
    ASSUME StoreAssumption, StoreInv, NEW p \in Procs, Lock(p)
    PROVE  TypeOK'
<1>1. DiskTypes'
  BY DEF Lock, Goto, TakeShared, TakeExclusive, diskVars, callVars, StoreInv, TypeOK,
     DiskTypes
<1>2. LockTypes'
  BY DEF Lock, Goto, TakeShared, TakeExclusive, diskVars, callVars, StoreInv, TypeOK,
     LockTypes
<1>3. CallTypes'
  BY DEF Lock, Goto, TakeShared, TakeExclusive, diskVars, callVars, StoreInv, TypeOK,
     CallTypes
<1>4. WorkTypes'
  BY EmptyType DEF Lock, Goto, TakeShared, TakeExclusive, diskVars, callVars, StoreInv,
     TypeOK, WorkTypes
<1>5. NoteTypes'
  BY DEF Lock, Goto, TakeShared, TakeExclusive, diskVars, callVars, StoreInv, TypeOK,
     NoteTypes
<1> QED BY <1>1, <1>2, <1>3, <1>4, <1>5 DEF TypeOK

LEMMA CreateType ==
    ASSUME StoreAssumption, StoreInv, NEW p \in Procs, Create(p)
    PROVE  TypeOK'
<1>1. DiskTypes'
  BY DEF Create, Goto, lockVars, callVars, StoreInv, TypeOK, DiskTypes
<1>2. LockTypes'
  BY DEF Create, Goto, lockVars, callVars, StoreInv, TypeOK, LockTypes
<1>3. CallTypes'
  BY DEF Create, Goto, lockVars, callVars, StoreInv, TypeOK, CallTypes
<1>4. WorkTypes'
  BY EmptyType DEF Create, Goto, lockVars, callVars, StoreInv, TypeOK, WorkTypes, DiskTypes,
     Pages
<1>5. NoteTypes'
  BY DEF Create, Goto, lockVars, callVars, StoreInv, TypeOK, NoteTypes
<1> QED BY <1>1, <1>2, <1>3, <1>4, <1>5 DEF TypeOK

LEMMA OpenForWritingType ==
    ASSUME StoreAssumption, StoreInv, NEW p \in Procs, OpenForWriting(p)
    PROVE  TypeOK'
<1>1. DiskTypes'
  BY CommittedType DEF OpenForWriting, Leave, DropLock, Forget, Goto, lockVars, callVars,
     StoreInv, TypeOK, DiskTypes
<1>2. LockTypes'
  BY DEF OpenForWriting, Leave, DropLock, Forget, Goto, lockVars, callVars, StoreInv,
     TypeOK, LockTypes
<1>3. CallTypes'
  BY DEF OpenForWriting, Leave, DropLock, Forget, Goto, lockVars, callVars, StoreInv,
     TypeOK, CallTypes
<1>4. WorkTypes'
  BY EmptyType DEF OpenForWriting, Leave, DropLock, Forget, Goto, lockVars, callVars,
     StoreInv, TypeOK, WorkTypes
<1>5. NoteTypes'
  BY DEF OpenForWriting, Leave, DropLock, Forget, Goto, lockVars, callVars, StoreInv,
     TypeOK, NoteTypes
<1> QED BY <1>1, <1>2, <1>3, <1>4, <1>5 DEF TypeOK

LEMMA OpenAbsentType ==
    ASSUME StoreAssumption, StoreInv, NEW p \in Procs, OpenAbsent(p)
    PROVE  TypeOK'
<1>1. DiskTypes'
  BY DEF OpenAbsent, Leave, DropLock, Forget, Goto, diskVars, StoreInv, TypeOK, DiskTypes
<1>2. LockTypes'
  BY DEF OpenAbsent, Leave, DropLock, Forget, Goto, diskVars, StoreInv, TypeOK, LockTypes
<1>3. CallTypes'
  BY DEF OpenAbsent, Leave, DropLock, Forget, Goto, diskVars, StoreInv, TypeOK, CallTypes
<1>4. WorkTypes'
  BY EmptyType DEF OpenAbsent, Leave, DropLock, Forget, Goto, diskVars, StoreInv, TypeOK,
     WorkTypes
<1>5. NoteTypes'
  BY DEF OpenAbsent, Leave, DropLock, Forget, Goto, diskVars, StoreInv, TypeOK, NoteTypes
<1> QED BY <1>1, <1>2, <1>3, <1>4, <1>5 DEF TypeOK

LEMMA BeginType ==
    ASSUME StoreAssumption, StoreInv, NEW p \in Procs, Begin(p)
    PROVE  TypeOK'
<1>1. tx[p] \in Txs /\ file \in Pages
  BY DEF Begin, StoreInv, JobOK, TypeOK, DiskTypes
<1>2. Applied(file, tx[p]) \in Pages
  BY <1>1, AppliedIs
<1>3. DiskTypes'
  BY DEF Begin, Goto, diskVars, lockVars, callVars, StoreInv, TypeOK, DiskTypes
<1>4. LockTypes'
  BY DEF Begin, Goto, diskVars, lockVars, callVars, StoreInv, TypeOK, LockTypes
<1>5. CallTypes'
  BY DEF Begin, Goto, diskVars, lockVars, callVars, StoreInv, TypeOK, CallTypes
<1>6. WorkTypes'
  BY <1>2, EmptyType DEF Begin, Goto, diskVars, lockVars, callVars, StoreInv, TypeOK,
     WorkTypes
<1>7. NoteTypes'
  BY DEF Begin, Goto, diskVars, lockVars, callVars, StoreInv, TypeOK, NoteTypes
<1> QED BY <1>3, <1>4, <1>5, <1>6, <1>7 DEF TypeOK

LEMMA RefuseType ==
    ASSUME StoreAssumption, StoreInv, NEW p \in Procs, Refuse(p)
    PROVE  TypeOK'
<1>1. DiskTypes'
  BY DEF Refuse, Leave, DropLock, Forget, Goto, diskVars, StoreInv, TypeOK, DiskTypes
<1>2. LockTypes'
  BY DEF Refuse, Leave, DropLock, Forget, Goto, diskVars, StoreInv, TypeOK, LockTypes
<1>3. CallTypes'
  BY DEF Refuse, Leave, DropLock, Forget, Goto, diskVars, StoreInv, TypeOK, CallTypes
<1>4. WorkTypes'
  BY EmptyType DEF Refuse, Leave, DropLock, Forget, Goto, diskVars, StoreInv, TypeOK,
     WorkTypes
<1>5. NoteTypes'
  BY DEF Refuse, Leave, DropLock, Forget, Goto, diskVars, StoreInv, TypeOK, NoteTypes
<1> QED BY <1>1, <1>2, <1>3, <1>4, <1>5 DEF TypeOK

LEMMA BodyRaisesType ==
    ASSUME StoreAssumption, StoreInv, NEW p \in Procs, BodyRaises(p)
    PROVE  TypeOK'
<1>1. DiskTypes'
  BY DEF BodyRaises, Leave, DropLock, Forget, Goto, Tell, diskVars, StoreInv, TypeOK,
     DiskTypes
<1>2. LockTypes'
  BY DEF BodyRaises, Leave, DropLock, Forget, Goto, Tell, diskVars, StoreInv, TypeOK,
     LockTypes
<1>3. CallTypes'
  BY DEF BodyRaises, Leave, DropLock, Forget, Goto, Tell, diskVars, StoreInv, TypeOK,
     CallTypes
<1>4. WorkTypes'
  BY EmptyType DEF BodyRaises, Leave, DropLock, Forget, Goto, Tell, diskVars, StoreInv,
     TypeOK, WorkTypes
<1>5. NoteTypes'
  BY DEF BodyRaises, Leave, DropLock, Forget, Goto, Tell, diskVars, StoreInv, TypeOK,
     NoteTypes
<1> QED BY <1>1, <1>2, <1>3, <1>4, <1>5 DEF TypeOK

LEMMA SaveJournalType ==
    ASSUME StoreAssumption, StoreInv, NEW p \in Procs, SaveJournal(p)
    PROVE  TypeOK'
<1>1. DiskTypes'
  BY DEF SaveJournal, Goto, lockVars, callVars, StoreInv, TypeOK, DiskTypes
<1>2. LockTypes'
  BY DEF SaveJournal, Goto, lockVars, callVars, StoreInv, TypeOK, LockTypes
<1>3. CallTypes'
  BY DEF SaveJournal, Goto, lockVars, callVars, StoreInv, TypeOK, CallTypes
<1>4. WorkTypes'
  BY EmptyType DEF SaveJournal, Goto, lockVars, callVars, StoreInv, TypeOK, WorkTypes
<1>5. NoteTypes'
  BY DEF SaveJournal, Goto, lockVars, callVars, StoreInv, TypeOK, NoteTypes
<1> QED BY <1>1, <1>2, <1>3, <1>4, <1>5 DEF TypeOK

LEMMA WritePageType ==
    ASSUME StoreAssumption, StoreInv, NEW p \in Procs, WritePage(p)
    PROVE  TypeOK'
<1>1. DiskTypes'
  <2>1. file \in Pages /\ work[p] \in Pages
    BY DEF StoreInv, TypeOK, DiskTypes, WorkTypes
  <2>2. CASE file' = [file EXCEPT !.bound = work[p].bound]
    BY <2>1, <2>2 DEF WritePage, StoreInv, TypeOK, DiskTypes, Pages
  <2>3. CASE file' = [file EXCEPT !.first = work[p].first]
    BY <2>1, <2>3 DEF WritePage, StoreInv, TypeOK, DiskTypes, Pages
  <2>4. CASE file' = [file EXCEPT !.markers = work[p].markers]
    BY <2>1, <2>4 DEF WritePage, StoreInv, TypeOK, DiskTypes, Pages
  <2>5. ASSUME NEW s \in Streams, file' = [file EXCEPT !.streams[s] = work[p].streams[s]]
        PROVE  DiskTypes'
    <3>1. [file.streams EXCEPT ![s] = work[p].streams[s]] \in [Streams -> Seq(Txs)]
      BY <2>1 DEF Pages
    <3> QED BY <2>1, <2>5, <3>1 DEF WritePage, StoreInv, TypeOK, DiskTypes, Pages
  <2> QED BY <2>2, <2>3, <2>4, <2>5 DEF WritePage
<1>2. LockTypes'
  BY DEF WritePage, lockVars, callVars, StoreInv, TypeOK, LockTypes
<1>3. CallTypes'
  BY DEF WritePage, lockVars, callVars, StoreInv, TypeOK, CallTypes
<1>4. WorkTypes'
  BY EmptyType DEF WritePage, lockVars, callVars, StoreInv, TypeOK, WorkTypes
<1>5. NoteTypes'
  BY DEF WritePage, lockVars, callVars, StoreInv, TypeOK, NoteTypes
<1> QED BY <1>1, <1>2, <1>3, <1>4, <1>5 DEF TypeOK

LEMMA DeleteJournalType ==
    ASSUME StoreAssumption, StoreInv, NEW p \in Procs, DeleteJournal(p)
    PROVE  TypeOK'
<1>1. DiskTypes'
  BY DEF DeleteJournal, Goto, lockVars, callVars, StoreInv, TypeOK, DiskTypes
<1>2. LockTypes'
  BY DEF DeleteJournal, Goto, lockVars, callVars, StoreInv, TypeOK, LockTypes
<1>3. CallTypes'
  BY DEF DeleteJournal, Goto, lockVars, callVars, StoreInv, TypeOK, CallTypes
<1>4. WorkTypes'
  BY EmptyType DEF DeleteJournal, Goto, lockVars, callVars, StoreInv, TypeOK, WorkTypes
<1>5. NoteTypes'
  BY DEF DeleteJournal, Goto, lockVars, callVars, StoreInv, TypeOK, NoteTypes, CallTypes
<1> QED BY <1>1, <1>2, <1>3, <1>4, <1>5 DEF TypeOK

LEMMA AcknowledgeType ==
    ASSUME StoreAssumption, StoreInv, NEW p \in Procs, Acknowledge(p)
    PROVE  TypeOK'
<1>1. DiskTypes'
  BY DEF Acknowledge, Leave, DropLock, Forget, Goto, Tell, diskVars, StoreInv, TypeOK,
     DiskTypes
<1>2. LockTypes'
  BY DEF Acknowledge, Leave, DropLock, Forget, Goto, Tell, diskVars, StoreInv, TypeOK,
     LockTypes
<1>3. CallTypes'
  BY DEF Acknowledge, Leave, DropLock, Forget, Goto, Tell, diskVars, StoreInv, TypeOK,
     CallTypes
<1>4. WorkTypes'
  BY EmptyType DEF Acknowledge, Leave, DropLock, Forget, Goto, Tell, diskVars, StoreInv,
     TypeOK, WorkTypes
<1>5. NoteTypes'
  BY DEF Acknowledge, Leave, DropLock, Forget, Goto, Tell, diskVars, StoreInv, TypeOK,
     NoteTypes
<1> QED BY <1>1, <1>2, <1>3, <1>4, <1>5 DEF TypeOK

LEMMA CommitRaisesType ==
    ASSUME StoreAssumption, StoreInv, NEW p \in Procs, CommitRaises(p)
    PROVE  TypeOK'
<1>1. DiskTypes'
  BY CommittedType DEF CommitRaises, Leave, DropLock, Forget, Goto, lockVars, callVars,
     StoreInv, TypeOK, DiskTypes
<1>2. LockTypes'
  BY DEF CommitRaises, Leave, DropLock, Forget, Goto, lockVars, callVars, StoreInv, TypeOK,
     LockTypes
<1>3. CallTypes'
  BY DEF CommitRaises, Leave, DropLock, Forget, Goto, lockVars, callVars, StoreInv, TypeOK,
     CallTypes
<1>4. WorkTypes'
  BY EmptyType DEF CommitRaises, Leave, DropLock, Forget, Goto, lockVars, callVars,
     StoreInv, TypeOK, WorkTypes
<1>5. NoteTypes'
  BY DEF CommitRaises, Leave, DropLock, Forget, Goto, lockVars, callVars, StoreInv, TypeOK,
     NoteTypes
<1> QED BY <1>1, <1>2, <1>3, <1>4, <1>5 DEF TypeOK

LEMMA ReconcileType ==
    ASSUME StoreAssumption, StoreInv, NEW p \in Procs, Reconcile(p)
    PROVE  TypeOK'
<1>1. DiskTypes'
  BY DEF Reconcile, Leave, DropLock, Forget, Goto, Tell, diskVars, StoreInv, TypeOK,
     DiskTypes
<1>2. LockTypes'
  BY DEF Reconcile, Leave, DropLock, Forget, Goto, Tell, diskVars, StoreInv, TypeOK,
     LockTypes
<1>3. CallTypes'
  BY DEF Reconcile, Leave, DropLock, Forget, Goto, Tell, diskVars, StoreInv, TypeOK,
     CallTypes
<1>4. WorkTypes'
  BY EmptyType DEF Reconcile, Leave, DropLock, Forget, Goto, Tell, diskVars, StoreInv,
     TypeOK, WorkTypes
<1>5. NoteTypes'
  BY DEF Reconcile, Leave, DropLock, Forget, Goto, Tell, diskVars, StoreInv, TypeOK,
     NoteTypes, MarkerStatus
<1> QED BY <1>1, <1>2, <1>3, <1>4, <1>5 DEF TypeOK

LEMMA OpenForReadingType ==
    ASSUME StoreAssumption, StoreInv, NEW p \in Procs, OpenForReading(p)
    PROVE  TypeOK'
<1>1. DiskTypes'
  BY DEF OpenForReading, Leave, DropLock, Forget, Goto, diskVars, lockVars, callVars,
     StoreInv, TypeOK, DiskTypes
<1>2. LockTypes'
  BY DEF OpenForReading, Leave, DropLock, Forget, Goto, diskVars, lockVars, callVars,
     StoreInv, TypeOK, LockTypes
<1>3. CallTypes'
  BY DEF OpenForReading, Leave, DropLock, Forget, Goto, diskVars, lockVars, callVars,
     StoreInv, TypeOK, CallTypes
<1>4. WorkTypes'
  BY EmptyType DEF OpenForReading, Leave, DropLock, Forget, Goto, diskVars, lockVars,
     callVars, StoreInv, TypeOK, WorkTypes
<1>5. NoteTypes'
  BY DEF OpenForReading, Leave, DropLock, Forget, Goto, diskVars, lockVars, callVars,
     StoreInv, TypeOK, NoteTypes
<1> QED BY <1>1, <1>2, <1>3, <1>4, <1>5 DEF TypeOK

LEMMA ReadStreamType ==
    ASSUME StoreAssumption, StoreInv, NEW p \in Procs, ReadStream(p)
    PROVE  TypeOK'
<1>1. DiskTypes'
  BY DEF ReadStream, diskVars, lockVars, callVars, StoreInv, TypeOK, DiskTypes
<1>2. LockTypes'
  BY DEF ReadStream, diskVars, lockVars, callVars, StoreInv, TypeOK, LockTypes
<1>3. CallTypes'
  BY DEF ReadStream, diskVars, lockVars, callVars, StoreInv, TypeOK, CallTypes
<1>4. WorkTypes'
  BY EmptyType DEF ReadStream, diskVars, lockVars, callVars, StoreInv, TypeOK, WorkTypes,
     DiskTypes, Pages
<1>5. NoteTypes'
  BY DEF ReadStream, diskVars, lockVars, callVars, StoreInv, TypeOK, NoteTypes
<1> QED BY <1>1, <1>2, <1>3, <1>4, <1>5 DEF TypeOK

LEMMA EndReadType ==
    ASSUME StoreAssumption, StoreInv, NEW p \in Procs, EndRead(p)
    PROVE  TypeOK'
<1>1. DiskTypes'
  BY DEF EndRead, Leave, DropLock, Forget, Goto, diskVars, StoreInv, TypeOK, DiskTypes
<1>2. LockTypes'
  BY DEF EndRead, Leave, DropLock, Forget, Goto, diskVars, StoreInv, TypeOK, LockTypes
<1>3. CallTypes'
  BY DEF EndRead, Leave, DropLock, Forget, Goto, diskVars, StoreInv, TypeOK, CallTypes
<1>4. WorkTypes'
  BY EmptyType DEF EndRead, Leave, DropLock, Forget, Goto, diskVars, StoreInv, TypeOK,
     WorkTypes
<1>5. NoteTypes'
  BY DEF EndRead, Leave, DropLock, Forget, Goto, diskVars, StoreInv, TypeOK, NoteTypes
<1> QED BY <1>1, <1>2, <1>3, <1>4, <1>5 DEF TypeOK

LEMMA CrashType ==
    ASSUME StoreAssumption, StoreInv, NEW p \in Procs, Crash(p)
    PROVE  TypeOK'
<1>1. DiskTypes'
  BY DEF Crash, Leave, DropLock, Forget, Goto, diskVars, StoreInv, TypeOK, DiskTypes
<1>2. LockTypes'
  BY DEF Crash, Leave, DropLock, Forget, Goto, diskVars, StoreInv, TypeOK, LockTypes
<1>3. CallTypes'
  BY DEF Crash, Leave, DropLock, Forget, Goto, diskVars, StoreInv, TypeOK, CallTypes
<1>4. WorkTypes'
  BY EmptyType DEF Crash, Leave, DropLock, Forget, Goto, diskVars, StoreInv, TypeOK,
     WorkTypes
<1>5. NoteTypes'
  BY DEF Crash, Leave, DropLock, Forget, Goto, diskVars, StoreInv, TypeOK, NoteTypes
<1> QED BY <1>1, <1>2, <1>3, <1>4, <1>5 DEF TypeOK

-----------------------------------------------------------------------------
(* What a step of one process does to the others, the lock and the disk *)

Others(p) ==
    \A q \in Procs \ {p} :
        /\ pc'[q] = pc[q] /\ call'[q] = call[q] /\ tx'[q] = tx[q] /\ expected'[q] = expected[q]
        /\ work'[q] = work[q] /\ view'[q] = view[q] /\ told'[q] = told[q]

HoldMove(p) ==
    \/ UNCHANGED lockVars
    \/ exclusive = {} /\ exclusive' = exclusive /\ shared' = shared \cup {p}
    \/ exclusive = {} /\ shared = {} /\ exclusive' = {p} /\ shared' = shared
    \/ exclusive' = exclusive \ {p} /\ shared' = shared \ {p}

DiskMove(p) == UNCHANGED diskVars \/ p \in exclusive

(* Deleting the journal is the only step that changes the committed state. *)
Keeps == Committed' = Committed /\ kept' = kept

Commits(p) ==
    /\ pc[p] = "pages"
    /\ Committed' = work[p]
    /\ kept' = IF call[p] = "transaction" THEN [kept EXCEPT ![tx[p]] = expected[p]] ELSE kept

ReadsOK(p) == \A row \in view[p] : row[2] = Committed.streams[row[1]]

Own(p) == JobOK(p) /\ HoldOK(p) /\ PageOK(p) /\ ReadsOK(p)

Move(p) == Others(p) /\ HoldMove(p) /\ DiskMove(p) /\ (Keeps \/ Commits(p)) /\ Own(p)' /\ Absent'

(* Leaving gives everything up. *)
LEMMA LeaveMove ==
    ASSUME TypeOK, NEW p \in Procs, Leave(p)
    PROVE  HoldMove(p) /\ Own(p)'
<1>1. pc'[p] = "idle" /\ call'[p] = "none" /\ view'[p] = {}
  BY DEF Leave, Forget, Goto, TypeOK, CallTypes, WorkTypes
<1>2. HoldMove(p)
  BY DEF Leave, DropLock, HoldMove
<1>3. JobOK(p)' /\ HoldOK(p)'
  BY <1>1 DEF JobOK, HoldOK, Writing
<1>4. PageOK(p)' /\ ReadsOK(p)'
  BY <1>1 DEF PageOK, ReadsOK
<1> QED BY <1>2, <1>3, <1>4 DEF Own

LEMMA CallMove ==
    ASSUME StoreAssumption, StoreInv, TypeOK', NEW p \in Procs, Call(p)
    PROVE  Move(p)
<1>1. Others(p)
  BY DEF Call, Goto, diskVars, lockVars, Others, StoreInv, TypeOK, CallTypes, WorkTypes,
     NoteTypes
<1>2. DiskMove(p)
  BY DEF Call, Goto, diskVars, lockVars, DiskMove, StoreInv, HoldOK, Writing
<1>3. Keeps \/ Commits(p)
  BY DEF Call, Goto, diskVars, lockVars, Keeps, Commits, Committed, Hot, StoreInv, PageOK
<1>4. HoldMove(p)
  BY DEF Call, Goto, diskVars, lockVars, HoldMove
<1>5. JobOK(p)'
  BY ExpectationType DEF Call, Goto, diskVars, lockVars, JobOK, StoreInv, TypeOK, CallTypes,
     WorkTypes
<1>6. HoldOK(p)'
  BY DEF Call, Goto, diskVars, lockVars, HoldOK, Writing, JobOK, StoreInv, TypeOK,
     CallTypes, LockTypes
<1>7. PageOK(p)'
  BY CommittedNow, CommittedNext DEF Call, Goto, diskVars, lockVars, PageOK, Hot,
     Initialized, Changed, JobOK, HoldOK, Writing, StoreInv, TypeOK, CallTypes, WorkTypes
<1>8. ReadsOK(p)'
  BY CommittedNow, CommittedNext DEF Call, Goto, diskVars, lockVars, ReadsOK, StoreInv,
     TypeOK, JobOK, PageOK, WorkTypes
<1>9. Absent'
  BY CommittedNow, CommittedNext DEF Call, Goto, diskVars, lockVars, Absent, StoreInv,
     PageOK
<1> QED BY <1>1, <1>2, <1>3, <1>4, <1>5, <1>6, <1>7, <1>8, <1>9 DEF Own, Move

LEMMA LockMove ==
    ASSUME StoreAssumption, StoreInv, TypeOK', NEW p \in Procs, Lock(p)
    PROVE  Move(p)
<1>1. Others(p)
  BY DEF Lock, Goto, TakeShared, TakeExclusive, diskVars, callVars, Others, StoreInv,
     TypeOK, CallTypes, WorkTypes, NoteTypes
<1>2. DiskMove(p)
  BY DEF Lock, Goto, TakeShared, TakeExclusive, diskVars, callVars, DiskMove, StoreInv,
     HoldOK, Writing
<1>3. Keeps \/ Commits(p)
  BY DEF Lock, Goto, TakeShared, TakeExclusive, diskVars, callVars, Keeps, Commits,
     Committed, Hot, StoreInv, PageOK
<1>4. HoldMove(p)
  BY DEF Lock, Goto, TakeShared, TakeExclusive, diskVars, callVars, HoldMove
<1>5. JobOK(p)'
  BY DEF Lock, Goto, TakeShared, TakeExclusive, diskVars, callVars, JobOK, StoreInv, TypeOK,
     CallTypes, WorkTypes
<1>6. HoldOK(p)'
  BY DEF Lock, Goto, TakeShared, TakeExclusive, diskVars, callVars, HoldOK, Writing, JobOK,
     StoreInv, TypeOK, CallTypes, LockTypes
<1>7. PageOK(p)'
  BY CommittedNow, CommittedNext DEF Lock, Goto, TakeShared, TakeExclusive, diskVars,
     callVars, PageOK, Hot, Initialized, Changed, JobOK, HoldOK, Writing, StoreInv, TypeOK,
     CallTypes, WorkTypes
<1>8. ReadsOK(p)'
  BY CommittedNow, CommittedNext DEF Lock, Goto, TakeShared, TakeExclusive, diskVars,
     callVars, ReadsOK, StoreInv, TypeOK, JobOK, PageOK, WorkTypes
<1>9. Absent'
  BY CommittedNow, CommittedNext DEF Lock, Goto, TakeShared, TakeExclusive, diskVars,
     callVars, Absent, StoreInv, PageOK
<1> QED BY <1>1, <1>2, <1>3, <1>4, <1>5, <1>6, <1>7, <1>8, <1>9 DEF Own, Move

LEMMA CreateMove ==
    ASSUME StoreAssumption, StoreInv, TypeOK', NEW p \in Procs, Create(p)
    PROVE  Move(p)
<1>1. Others(p)
  BY DEF Create, Goto, lockVars, callVars, Others, StoreInv, TypeOK, CallTypes, WorkTypes,
     NoteTypes
<1>2. DiskMove(p)
  BY DEF Create, Goto, lockVars, callVars, DiskMove, StoreInv, HoldOK, Writing
<1>3. Keeps \/ Commits(p)
  BY DEF Create, Goto, lockVars, callVars, Keeps, Commits, Committed, Hot, StoreInv, PageOK
<1>4. HoldMove(p)
  BY DEF Create, Goto, lockVars, callVars, HoldMove
<1>5. JobOK(p)'
  BY DEF Create, Goto, lockVars, callVars, JobOK, StoreInv, TypeOK, CallTypes, WorkTypes
<1>6. HoldOK(p)'
  BY DEF Create, Goto, lockVars, callVars, HoldOK, Writing, JobOK, StoreInv, TypeOK,
     CallTypes, LockTypes
<1>7. PageOK(p)'
  <2>1. journal = {} /\ journal' = {} /\ file' = file /\ ~file.bound /\ created'
    BY DEF Create, Absent, EmptyFile, StoreInv
  <2>2. Committed' = file /\ work'[p] = [file EXCEPT !.bound = TRUE]
    BY <2>1, CommittedNext DEF Create, StoreInv, TypeOK, WorkTypes
  <2>3. pc'[p] = "commit" /\ call'[p] = "initialize"
    BY DEF Create, Goto, callVars, StoreInv, TypeOK, CallTypes
  <2> QED BY <2>1, <2>2, <2>3 DEF PageOK, Initialized
<1>8. ReadsOK(p)'
  BY CommittedNow, CommittedNext DEF Create, Goto, lockVars, callVars, ReadsOK, StoreInv,
     TypeOK, JobOK, PageOK, WorkTypes
<1>9. Absent'
  BY CommittedNow, CommittedNext DEF Create, Goto, lockVars, callVars, Absent, StoreInv,
     PageOK
<1> QED BY <1>1, <1>2, <1>3, <1>4, <1>5, <1>6, <1>7, <1>8, <1>9 DEF Own, Move

LEMMA OpenForWritingMove ==
    ASSUME StoreAssumption, StoreInv, TypeOK', NEW p \in Procs, OpenForWriting(p)
    PROVE  Move(p)
<1>1. Others(p)
  BY DEF OpenForWriting, Leave, DropLock, Forget, Goto, lockVars, callVars, Others,
     StoreInv, TypeOK, CallTypes, WorkTypes, NoteTypes
<1>2. DiskMove(p)
  BY DEF OpenForWriting, Leave, DropLock, Forget, Goto, lockVars, callVars, DiskMove,
     StoreInv, HoldOK, Writing
<1>3. Keeps \/ Commits(p)
  BY CommittedNow, CommittedNext DEF OpenForWriting, Leave, DropLock, Forget, Goto,
     lockVars, callVars, Keeps, Commits, Committed, Hot, StoreInv, PageOK
<1>4. HoldMove(p) /\ Own(p)'
  <2>1. CASE Leave(p)
    BY <2>1, LeaveMove DEF StoreInv
  <2>2. CASE ~Leave(p)
    <3>1. HoldMove(p)
      BY <2>2 DEF OpenForWriting, Leave, DropLock, Forget, Goto, lockVars, callVars,
         HoldMove
    <3>2. JobOK(p)'
      BY <2>2 DEF OpenForWriting, Leave, DropLock, Forget, Goto, lockVars, callVars, JobOK,
         StoreInv, TypeOK, CallTypes, WorkTypes
    <3>3. HoldOK(p)'
      BY <2>2 DEF OpenForWriting, Leave, DropLock, Forget, Goto, lockVars, callVars, HoldOK,
         Writing, JobOK, StoreInv, TypeOK, CallTypes, LockTypes
    <3>4. PageOK(p)'
      BY <2>2, CommittedNow, CommittedNext DEF OpenForWriting, Leave, DropLock, Forget,
         Goto, lockVars, callVars, PageOK, Hot, Initialized, Changed, JobOK, HoldOK,
         Writing, StoreInv, TypeOK, CallTypes, WorkTypes
    <3>5. ReadsOK(p)'
      BY <2>2, CommittedNow, CommittedNext DEF OpenForWriting, Leave, DropLock, Forget,
         Goto, lockVars, callVars, ReadsOK, StoreInv, TypeOK, JobOK, PageOK, WorkTypes
    <3> QED BY <3>1, <3>2, <3>3, <3>4, <3>5 DEF Own
  <2> QED BY <2>1, <2>2
<1>5. Absent'
  BY CommittedNow, CommittedNext DEF OpenForWriting, Leave, DropLock, Forget, Goto,
     lockVars, callVars, Absent, StoreInv
<1> QED BY <1>1, <1>2, <1>3, <1>4, <1>5 DEF Move

LEMMA OpenAbsentMove ==
    ASSUME StoreAssumption, StoreInv, TypeOK', NEW p \in Procs, OpenAbsent(p)
    PROVE  Move(p)
<1>1. Others(p)
  BY DEF OpenAbsent, Leave, DropLock, Forget, Goto, diskVars, Others, StoreInv, TypeOK,
     CallTypes, WorkTypes, NoteTypes
<1>2. DiskMove(p)
  BY DEF OpenAbsent, Leave, DropLock, Forget, Goto, diskVars, DiskMove, StoreInv, HoldOK,
     Writing
<1>3. Keeps \/ Commits(p)
  BY DEF OpenAbsent, Leave, DropLock, Forget, Goto, diskVars, Keeps, Commits, Committed,
     Hot, StoreInv, PageOK
<1>4. HoldMove(p) /\ Own(p)'
  BY LeaveMove DEF OpenAbsent, StoreInv
<1>5. Absent'
  BY DEF OpenAbsent, Leave, DropLock, Forget, Goto, diskVars, Absent, StoreInv
<1> QED BY <1>1, <1>2, <1>3, <1>4, <1>5 DEF Move

LEMMA BeginMove ==
    ASSUME StoreAssumption, StoreInv, TypeOK', NEW p \in Procs, Begin(p)
    PROVE  Move(p)
<1>1. Others(p)
  BY DEF Begin, Goto, diskVars, lockVars, callVars, Others, StoreInv, TypeOK, CallTypes,
     WorkTypes, NoteTypes
<1>2. DiskMove(p)
  BY DEF Begin, Goto, diskVars, lockVars, callVars, DiskMove, StoreInv, HoldOK, Writing
<1>3. Keeps \/ Commits(p)
  BY DEF Begin, Goto, diskVars, lockVars, callVars, Keeps, Commits, Committed, Hot,
     StoreInv, PageOK
<1>4. HoldMove(p)
  BY DEF Begin, Goto, diskVars, lockVars, callVars, HoldMove
<1>5. JobOK(p)'
  BY DEF Begin, Goto, diskVars, lockVars, callVars, JobOK, StoreInv, TypeOK, CallTypes,
     WorkTypes
<1>6. HoldOK(p)'
  BY DEF Begin, Goto, diskVars, lockVars, callVars, HoldOK, Writing, JobOK, StoreInv,
     TypeOK, CallTypes, LockTypes
<1>7. PageOK(p)'
  BY CommittedNow, CommittedNext DEF Begin, Goto, diskVars, lockVars, callVars, PageOK, Hot,
     Initialized, Changed, JobOK, HoldOK, Writing, StoreInv, TypeOK, CallTypes, WorkTypes
<1>8. ReadsOK(p)'
  BY CommittedNow, CommittedNext DEF Begin, Goto, diskVars, lockVars, callVars, ReadsOK,
     StoreInv, TypeOK, JobOK, PageOK, WorkTypes
<1>9. Absent'
  BY CommittedNow, CommittedNext DEF Begin, Goto, diskVars, lockVars, callVars, Absent,
     StoreInv, PageOK
<1> QED BY <1>1, <1>2, <1>3, <1>4, <1>5, <1>6, <1>7, <1>8, <1>9 DEF Own, Move

LEMMA RefuseMove ==
    ASSUME StoreAssumption, StoreInv, TypeOK', NEW p \in Procs, Refuse(p)
    PROVE  Move(p)
<1>1. Others(p)
  BY DEF Refuse, Leave, DropLock, Forget, Goto, diskVars, Others, StoreInv, TypeOK,
     CallTypes, WorkTypes, NoteTypes
<1>2. DiskMove(p)
  BY DEF Refuse, Leave, DropLock, Forget, Goto, diskVars, DiskMove, StoreInv, HoldOK,
     Writing
<1>3. Keeps \/ Commits(p)
  BY DEF Refuse, Leave, DropLock, Forget, Goto, diskVars, Keeps, Commits, Committed, Hot,
     StoreInv, PageOK
<1>4. HoldMove(p) /\ Own(p)'
  BY LeaveMove DEF Refuse, StoreInv
<1>5. Absent'
  BY DEF Refuse, Leave, DropLock, Forget, Goto, diskVars, Absent, StoreInv
<1> QED BY <1>1, <1>2, <1>3, <1>4, <1>5 DEF Move

LEMMA BodyRaisesMove ==
    ASSUME StoreAssumption, StoreInv, TypeOK', NEW p \in Procs, BodyRaises(p)
    PROVE  Move(p)
<1>1. Others(p)
  BY DEF BodyRaises, Leave, DropLock, Forget, Goto, Tell, diskVars, Others, StoreInv,
     TypeOK, CallTypes, WorkTypes, NoteTypes
<1>2. DiskMove(p)
  BY DEF BodyRaises, Leave, DropLock, Forget, Goto, Tell, diskVars, DiskMove, StoreInv,
     HoldOK, Writing
<1>3. Keeps \/ Commits(p)
  BY DEF BodyRaises, Leave, DropLock, Forget, Goto, Tell, diskVars, Keeps, Commits,
     Committed, Hot, StoreInv, PageOK
<1>4. HoldMove(p) /\ Own(p)'
  BY LeaveMove DEF BodyRaises, StoreInv
<1>5. Absent'
  BY DEF BodyRaises, Leave, DropLock, Forget, Goto, Tell, diskVars, Absent, StoreInv
<1> QED BY <1>1, <1>2, <1>3, <1>4, <1>5 DEF Move

LEMMA SaveJournalMove ==
    ASSUME StoreAssumption, StoreInv, TypeOK', NEW p \in Procs, SaveJournal(p)
    PROVE  Move(p)
<1>1. Others(p)
  BY DEF SaveJournal, Goto, lockVars, callVars, Others, StoreInv, TypeOK, CallTypes,
     WorkTypes, NoteTypes
<1>2. DiskMove(p)
  BY DEF SaveJournal, Goto, lockVars, callVars, DiskMove, StoreInv, HoldOK, Writing
<1>3. Keeps \/ Commits(p)
  BY CommittedNow, CommittedNext DEF SaveJournal, Goto, lockVars, callVars, Keeps, Commits,
     Committed, Hot, StoreInv, PageOK
<1>4. HoldMove(p)
  BY DEF SaveJournal, Goto, lockVars, callVars, HoldMove
<1>5. JobOK(p)'
  BY DEF SaveJournal, Goto, lockVars, callVars, JobOK, StoreInv, TypeOK, CallTypes,
     WorkTypes
<1>6. HoldOK(p)'
  BY DEF SaveJournal, Goto, lockVars, callVars, HoldOK, Writing, JobOK, StoreInv, TypeOK,
     CallTypes, LockTypes
<1>7. PageOK(p)'
  BY CommittedNow, CommittedNext DEF SaveJournal, Goto, lockVars, callVars, PageOK, Hot,
     Initialized, Changed, JobOK, HoldOK, Writing, StoreInv, TypeOK, CallTypes, WorkTypes
<1>8. ReadsOK(p)'
  BY CommittedNow, CommittedNext DEF SaveJournal, Goto, lockVars, callVars, ReadsOK,
     StoreInv, TypeOK, JobOK, PageOK, WorkTypes
<1>9. Absent'
  BY CommittedNow, CommittedNext DEF SaveJournal, Goto, lockVars, callVars, Absent,
     StoreInv, PageOK
<1> QED BY <1>1, <1>2, <1>3, <1>4, <1>5, <1>6, <1>7, <1>8, <1>9 DEF Own, Move

LEMMA WritePageMove ==
    ASSUME StoreAssumption, StoreInv, TypeOK', NEW p \in Procs, WritePage(p)
    PROVE  Move(p)
<1>1. Others(p)
  BY DEF WritePage, lockVars, callVars, Others, StoreInv, TypeOK, CallTypes, WorkTypes,
     NoteTypes
<1>2. DiskMove(p)
  BY DEF WritePage, lockVars, callVars, DiskMove, StoreInv, HoldOK, Writing
<1>3. Keeps \/ Commits(p)
  BY DEF WritePage, lockVars, callVars, Keeps, Commits, Committed, Hot, StoreInv, PageOK
<1>4. HoldMove(p)
  BY DEF WritePage, lockVars, callVars, HoldMove
<1>5. JobOK(p)'
  BY DEF WritePage, lockVars, callVars, JobOK, StoreInv, TypeOK, CallTypes, WorkTypes
<1>6. HoldOK(p)'
  BY DEF WritePage, lockVars, callVars, HoldOK, Writing, JobOK, StoreInv, TypeOK, CallTypes,
     LockTypes
<1>7. PageOK(p)'
  <2>1. Committed' = Committed /\ journal' = journal /\ created' = created
    BY DEF WritePage, Committed, Hot, StoreInv, PageOK
  <2>2. pc'[p] = "pages" /\ call' = call /\ tx' = tx /\ expected' = expected /\ work' = work
    BY DEF WritePage, callVars
  <2>3. Initialized(p)' <=> Initialized(p)
    BY <2>1, <2>2 DEF Initialized
  <2>4. Changed(p)' <=> Changed(p)
    BY <2>1, <2>2 DEF Changed, NotReplayed, RevisionsMatch
  <2> QED BY <2>1, <2>2, <2>3, <2>4 DEF WritePage, PageOK, Hot, StoreInv
<1>8. ReadsOK(p)'
  BY CommittedNow, CommittedNext DEF WritePage, lockVars, callVars, ReadsOK, StoreInv,
     TypeOK, JobOK, PageOK, WorkTypes
<1>9. Absent'
  BY CommittedNow, CommittedNext DEF WritePage, lockVars, callVars, Absent, StoreInv, PageOK
<1> QED BY <1>1, <1>2, <1>3, <1>4, <1>5, <1>6, <1>7, <1>8, <1>9 DEF Own, Move

LEMMA DeleteJournalMove ==
    ASSUME StoreAssumption, StoreInv, TypeOK', NEW p \in Procs, DeleteJournal(p)
    PROVE  Move(p)
<1>1. Others(p)
  BY DEF DeleteJournal, Goto, lockVars, callVars, Others, StoreInv, TypeOK, CallTypes,
     WorkTypes, NoteTypes
<1>2. DiskMove(p)
  BY DEF DeleteJournal, Goto, lockVars, callVars, DiskMove, StoreInv, HoldOK, Writing
<1>3. Keeps \/ Commits(p)
  BY CommittedNow, CommittedNext DEF DeleteJournal, Goto, lockVars, callVars, Keeps,
     Commits, Committed, Hot, StoreInv, PageOK
<1>4. HoldMove(p)
  BY DEF DeleteJournal, Goto, lockVars, callVars, HoldMove
<1>5. JobOK(p)'
  BY DEF DeleteJournal, Goto, lockVars, callVars, JobOK, StoreInv, TypeOK, CallTypes,
     WorkTypes
<1>6. HoldOK(p)'
  BY DEF DeleteJournal, Goto, lockVars, callVars, HoldOK, Writing, JobOK, StoreInv, TypeOK,
     CallTypes, LockTypes
<1>7. PageOK(p)'
  <2>1. journal' = {} /\ Committed' = work[p] /\ created' = created
    BY CommittedNext DEF DeleteJournal
  <2>2. pc'[p] = "committed" /\ call' = call /\ tx' = tx
    BY DEF DeleteJournal, Goto, callVars, StoreInv, TypeOK, CallTypes
  <2>3. call[p] = "transaction" => Changed(p) /\ tx[p] \in Txs
    BY DEF DeleteJournal, StoreInv, PageOK, JobOK, Initialized
  <2>4. call[p] = "transaction" => tx[p] \in work[p].markers
    <3> HAVE call[p] = "transaction"
    <3>1. work[p] = Applied(Committed, tx[p]) /\ Committed \in Pages
      BY <2>3, CommittedType DEF Changed, StoreInv, TypeOK
    <3>2. Applied(Committed, tx[p]).markers = Committed.markers \cup {tx[p]}
      BY <2>3, <3>1, AppliedIs
    <3> QED BY <3>1, <3>2
  <2> QED BY <2>1, <2>2, <2>4 DEF DeleteJournal, PageOK, StoreInv
<1>8. ReadsOK(p)'
  BY CommittedNow, CommittedNext DEF DeleteJournal, Goto, lockVars, callVars, ReadsOK,
     StoreInv, TypeOK, JobOK, PageOK, WorkTypes
<1>9. Absent'
  BY CommittedNow, CommittedNext DEF DeleteJournal, Goto, lockVars, callVars, Absent,
     StoreInv, PageOK
<1> QED BY <1>1, <1>2, <1>3, <1>4, <1>5, <1>6, <1>7, <1>8, <1>9 DEF Own, Move

LEMMA AcknowledgeMove ==
    ASSUME StoreAssumption, StoreInv, TypeOK', NEW p \in Procs, Acknowledge(p)
    PROVE  Move(p)
<1>1. Others(p)
  BY DEF Acknowledge, Leave, DropLock, Forget, Goto, Tell, diskVars, Others, StoreInv,
     TypeOK, CallTypes, WorkTypes, NoteTypes
<1>2. DiskMove(p)
  BY DEF Acknowledge, Leave, DropLock, Forget, Goto, Tell, diskVars, DiskMove, StoreInv,
     HoldOK, Writing
<1>3. Keeps \/ Commits(p)
  BY DEF Acknowledge, Leave, DropLock, Forget, Goto, Tell, diskVars, Keeps, Commits,
     Committed, Hot, StoreInv, PageOK
<1>4. HoldMove(p) /\ Own(p)'
  BY LeaveMove DEF Acknowledge, StoreInv
<1>5. Absent'
  BY DEF Acknowledge, Leave, DropLock, Forget, Goto, Tell, diskVars, Absent, StoreInv
<1> QED BY <1>1, <1>2, <1>3, <1>4, <1>5 DEF Move

LEMMA CommitRaisesMove ==
    ASSUME StoreAssumption, StoreInv, TypeOK', NEW p \in Procs, CommitRaises(p)
    PROVE  Move(p)
<1>1. Others(p)
  BY DEF CommitRaises, Leave, DropLock, Forget, Goto, lockVars, callVars, Others, StoreInv,
     TypeOK, CallTypes, WorkTypes, NoteTypes
<1>2. DiskMove(p)
  BY DEF CommitRaises, Leave, DropLock, Forget, Goto, lockVars, callVars, DiskMove,
     StoreInv, HoldOK, Writing
<1>3. Keeps \/ Commits(p)
  BY CommittedNow, CommittedNext DEF CommitRaises, Leave, DropLock, Forget, Goto, lockVars,
     callVars, Keeps, Commits, Committed, Hot, StoreInv, PageOK
<1>4. HoldMove(p) /\ Own(p)'
  <2>1. CASE Leave(p)
    BY <2>1, LeaveMove DEF StoreInv
  <2>2. CASE ~Leave(p)
    <3>1. HoldMove(p)
      BY <2>2 DEF CommitRaises, Leave, DropLock, Forget, Goto, lockVars, callVars, HoldMove
    <3>2. JobOK(p)'
      BY <2>2 DEF CommitRaises, Leave, DropLock, Forget, Goto, lockVars, callVars, JobOK,
         StoreInv, TypeOK, CallTypes, WorkTypes
    <3>3. HoldOK(p)'
      BY <2>2 DEF CommitRaises, Leave, DropLock, Forget, Goto, lockVars, callVars, HoldOK,
         Writing, JobOK, StoreInv, TypeOK, CallTypes, LockTypes
    <3>4. PageOK(p)'
      BY <2>2, CommittedNow, CommittedNext DEF CommitRaises, Leave, DropLock, Forget, Goto,
         lockVars, callVars, PageOK, Hot, Initialized, Changed, JobOK, HoldOK, Writing,
         StoreInv, TypeOK, CallTypes, WorkTypes
    <3>5. ReadsOK(p)'
      BY <2>2, CommittedNow, CommittedNext DEF CommitRaises, Leave, DropLock, Forget, Goto,
         lockVars, callVars, ReadsOK, StoreInv, TypeOK, JobOK, PageOK, WorkTypes
    <3> QED BY <3>1, <3>2, <3>3, <3>4, <3>5 DEF Own
  <2> QED BY <2>1, <2>2
<1>5. Absent'
  BY CommittedNow, CommittedNext DEF CommitRaises, Leave, DropLock, Forget, Goto, lockVars,
     callVars, Absent, StoreInv
<1> QED BY <1>1, <1>2, <1>3, <1>4, <1>5 DEF Move

LEMMA ReconcileMove ==
    ASSUME StoreAssumption, StoreInv, TypeOK', NEW p \in Procs, Reconcile(p)
    PROVE  Move(p)
<1>1. Others(p)
  BY DEF Reconcile, Leave, DropLock, Forget, Goto, Tell, diskVars, Others, StoreInv, TypeOK,
     CallTypes, WorkTypes, NoteTypes
<1>2. DiskMove(p)
  BY DEF Reconcile, Leave, DropLock, Forget, Goto, Tell, diskVars, DiskMove, StoreInv,
     HoldOK, Writing
<1>3. Keeps \/ Commits(p)
  BY DEF Reconcile, Leave, DropLock, Forget, Goto, Tell, diskVars, Keeps, Commits,
     Committed, Hot, StoreInv, PageOK
<1>4. HoldMove(p) /\ Own(p)'
  BY LeaveMove DEF Reconcile, StoreInv
<1>5. Absent'
  BY DEF Reconcile, Leave, DropLock, Forget, Goto, Tell, diskVars, Absent, StoreInv
<1> QED BY <1>1, <1>2, <1>3, <1>4, <1>5 DEF Move

LEMMA OpenForReadingMove ==
    ASSUME StoreAssumption, StoreInv, TypeOK', NEW p \in Procs, OpenForReading(p)
    PROVE  Move(p)
<1>1. Others(p)
  BY DEF OpenForReading, Leave, DropLock, Forget, Goto, diskVars, lockVars, callVars,
     Others, StoreInv, TypeOK, CallTypes, WorkTypes, NoteTypes
<1>2. DiskMove(p)
  BY DEF OpenForReading, Leave, DropLock, Forget, Goto, diskVars, lockVars, callVars,
     DiskMove, StoreInv, HoldOK, Writing
<1>3. Keeps \/ Commits(p)
  BY DEF OpenForReading, Leave, DropLock, Forget, Goto, diskVars, lockVars, callVars, Keeps,
     Commits, Committed, Hot, StoreInv, PageOK
<1>4. HoldMove(p) /\ Own(p)'
  <2>1. CASE Leave(p)
    BY <2>1, LeaveMove DEF StoreInv
  <2>2. CASE ~Leave(p)
    <3>1. HoldMove(p)
      BY <2>2 DEF OpenForReading, Leave, DropLock, Forget, Goto, diskVars, lockVars,
         callVars, HoldMove
    <3>2. JobOK(p)'
      BY <2>2 DEF OpenForReading, Leave, DropLock, Forget, Goto, diskVars, lockVars,
         callVars, JobOK, StoreInv, TypeOK, CallTypes, WorkTypes
    <3>3. HoldOK(p)'
      BY <2>2 DEF OpenForReading, Leave, DropLock, Forget, Goto, diskVars, lockVars,
         callVars, HoldOK, Writing, JobOK, StoreInv, TypeOK, CallTypes, LockTypes
    <3>4. PageOK(p)'
      <4>1. Readable /\ pc' = [pc EXCEPT ![p] = "reading"] /\ UNCHANGED <<diskVars, callVars>>
        BY <2>2 DEF OpenForReading, Goto
      <4>2. journal' = {} /\ pc'[p] = "reading"
        BY <4>1 DEF Readable, Hot, diskVars, StoreInv, TypeOK, CallTypes
      <4> QED BY <4>2 DEF PageOK
    <3>5. ReadsOK(p)'
      BY <2>2, CommittedNow, CommittedNext DEF OpenForReading, Leave, DropLock, Forget,
         Goto, diskVars, lockVars, callVars, ReadsOK, StoreInv, TypeOK, JobOK, PageOK,
         WorkTypes
    <3> QED BY <3>1, <3>2, <3>3, <3>4, <3>5 DEF Own
  <2> QED BY <2>1, <2>2
<1>5. Absent'
  BY CommittedNow, CommittedNext DEF OpenForReading, Leave, DropLock, Forget, Goto,
     diskVars, lockVars, callVars, Absent, StoreInv
<1> QED BY <1>1, <1>2, <1>3, <1>4, <1>5 DEF Move

LEMMA ReadStreamMove ==
    ASSUME StoreAssumption, StoreInv, TypeOK', NEW p \in Procs, ReadStream(p)
    PROVE  Move(p)
<1>1. Others(p)
  BY DEF ReadStream, diskVars, lockVars, callVars, Others, StoreInv, TypeOK, CallTypes,
     WorkTypes, NoteTypes
<1>2. DiskMove(p)
  BY DEF ReadStream, diskVars, lockVars, callVars, DiskMove, StoreInv, HoldOK, Writing
<1>3. Keeps \/ Commits(p)
  BY DEF ReadStream, diskVars, lockVars, callVars, Keeps, Commits, Committed, Hot, StoreInv,
     PageOK
<1>4. HoldMove(p)
  BY DEF ReadStream, diskVars, lockVars, callVars, HoldMove
<1>5. JobOK(p)'
  BY DEF ReadStream, diskVars, lockVars, callVars, JobOK, StoreInv, TypeOK, CallTypes,
     WorkTypes
<1>6. HoldOK(p)'
  BY DEF ReadStream, diskVars, lockVars, callVars, HoldOK, Writing, JobOK, StoreInv, TypeOK,
     CallTypes, LockTypes
<1>7. PageOK(p)'
  BY CommittedNow, CommittedNext DEF ReadStream, diskVars, lockVars, callVars, PageOK, Hot,
     Initialized, Changed, JobOK, HoldOK, Writing, StoreInv, TypeOK, CallTypes, WorkTypes
<1>8. ReadsOK(p)'
  <2>1. journal = {} /\ Committed = file /\ Committed' = Committed
    BY CommittedNow DEF ReadStream, diskVars, Committed, Hot, StoreInv, PageOK
  <2>2. PICK s \in Streams : view'[p] = view[p] \cup {<<s, file.streams[s]>>}
    BY DEF ReadStream, StoreInv, TypeOK, WorkTypes
  <2>3. \A row \in view[p] : row[2] = Committed.streams[row[1]]
    BY DEF StoreInv, ReaderStable
  <2> QED BY <2>1, <2>2, <2>3 DEF ReadsOK
<1>9. Absent'
  BY CommittedNow, CommittedNext DEF ReadStream, diskVars, lockVars, callVars, Absent,
     StoreInv, PageOK
<1> QED BY <1>1, <1>2, <1>3, <1>4, <1>5, <1>6, <1>7, <1>8, <1>9 DEF Own, Move

LEMMA EndReadMove ==
    ASSUME StoreAssumption, StoreInv, TypeOK', NEW p \in Procs, EndRead(p)
    PROVE  Move(p)
<1>1. Others(p)
  BY DEF EndRead, Leave, DropLock, Forget, Goto, diskVars, Others, StoreInv, TypeOK,
     CallTypes, WorkTypes, NoteTypes
<1>2. DiskMove(p)
  BY DEF EndRead, Leave, DropLock, Forget, Goto, diskVars, DiskMove, StoreInv, HoldOK,
     Writing
<1>3. Keeps \/ Commits(p)
  BY DEF EndRead, Leave, DropLock, Forget, Goto, diskVars, Keeps, Commits, Committed, Hot,
     StoreInv, PageOK
<1>4. HoldMove(p) /\ Own(p)'
  BY LeaveMove DEF EndRead, StoreInv
<1>5. Absent'
  BY DEF EndRead, Leave, DropLock, Forget, Goto, diskVars, Absent, StoreInv
<1> QED BY <1>1, <1>2, <1>3, <1>4, <1>5 DEF Move

LEMMA CrashMove ==
    ASSUME StoreAssumption, StoreInv, TypeOK', NEW p \in Procs, Crash(p)
    PROVE  Move(p)
<1>1. Others(p)
  BY DEF Crash, Leave, DropLock, Forget, Goto, diskVars, Others, StoreInv, TypeOK,
     CallTypes, WorkTypes, NoteTypes
<1>2. DiskMove(p)
  BY DEF Crash, Leave, DropLock, Forget, Goto, diskVars, DiskMove, StoreInv, HoldOK, Writing
<1>3. Keeps \/ Commits(p)
  BY DEF Crash, Leave, DropLock, Forget, Goto, diskVars, Keeps, Commits, Committed, Hot,
     StoreInv, PageOK
<1>4. HoldMove(p) /\ Own(p)'
  BY LeaveMove DEF Crash, StoreInv
<1>5. Absent'
  BY DEF Crash, Leave, DropLock, Forget, Goto, diskVars, Absent, StoreInv
<1> QED BY <1>1, <1>2, <1>3, <1>4, <1>5 DEF Move

-----------------------------------------------------------------------------
(* The invariant *)

Step(p) ==
    \/ Call(p) \/ Progress(p) \/ ReadStream(p)
    \/ BodyRaises(p) \/ CommitRaises(p) \/ Crash(p)

LEMMA StepType ==
    ASSUME StoreAssumption, StoreInv, NEW p \in Procs, Step(p)
    PROVE  TypeOK'
BY CallType, LockType, CreateType, OpenForWritingType, OpenAbsentType, BeginType, RefuseType,
   BodyRaisesType, SaveJournalType, WritePageType, DeleteJournalType, AcknowledgeType,
   CommitRaisesType, ReconcileType, OpenForReadingType, ReadStreamType, EndReadType, CrashType
   DEF Step, Progress

LEMMA StepMove ==
    ASSUME StoreAssumption, StoreInv, NEW p \in Procs, Step(p)
    PROVE  Move(p)
<1>1. TypeOK'
  BY StepType
<1> QED
  BY <1>1, CallMove, LockMove, CreateMove, OpenForWritingMove, OpenAbsentMove, BeginMove,
     RefuseMove, BodyRaisesMove, SaveJournalMove, WritePageMove, DeleteJournalMove,
     AcknowledgeMove, CommitRaisesMove, ReconcileMove, OpenForReadingMove, ReadStreamMove,
     EndReadMove, CrashMove
     DEF Step, Progress

(* What the others know stays true: they hold no lock, or the disk is as it   *)
(* was.                                                                       *)
LEMMA OthersKeep ==
    ASSUME StoreInv, NEW p \in Procs, Move(p), NEW q \in Procs, q # p
    PROVE  Own(q)'
<1>1. /\ pc'[q] = pc[q] /\ call'[q] = call[q] /\ tx'[q] = tx[q] /\ expected'[q] = expected[q]
      /\ work'[q] = work[q] /\ view'[q] = view[q]
  BY DEF Move, Others
<1>2. JobOK(q)'
  BY <1>1 DEF StoreInv, JobOK
<1>3. HoldOK(q)'
  BY <1>1 DEF StoreInv, HoldOK, Move, HoldMove, lockVars, TypeOK, LockTypes
<1>4. CASE UNCHANGED diskVars
  <2>1. Committed' = Committed /\ (Hot' <=> Hot) /\ journal' = journal /\ created' = created
    BY <1>4 DEF diskVars, Committed, Hot
  <2>2. Initialized(q)' <=> Initialized(q)
    BY <1>1, <2>1 DEF Initialized
  <2>3. Changed(q)' <=> Changed(q)
    BY <1>1, <2>1 DEF Changed, NotReplayed, RevisionsMatch
  <2>4. PageOK(q)'
    BY <1>1, <2>1, <2>2, <2>3 DEF StoreInv, PageOK
  <2>5. ReadsOK(q)'
    BY <1>1, <2>1 DEF StoreInv, ReaderStable, ReadsOK
  <2> QED BY <1>2, <1>3, <2>4, <2>5 DEF Own
<1>5. CASE p \in exclusive
  <2>1. q \notin exclusive /\ q \notin shared
    BY <1>5 DEF StoreInv, TypeOK, LockTypes
  <2>2. pc[q] \notin Writing \cup {"reading"} /\ view[q] = {}
    BY <2>1 DEF StoreInv, HoldOK, JobOK, Writing
  <2>3. PageOK(q)' /\ ReadsOK(q)'
    BY <1>1, <2>2 DEF PageOK, ReadsOK, Writing
  <2> QED BY <1>2, <1>3, <2>3 DEF Own
<1> QED BY <1>4, <1>5 DEF Move, DiskMove

(* A commit appends to every stream the transaction writes, so that what was  *)
(* there keeps its place.                                                     *)
LEMMA CommitKeepsOrder ==
    ASSUME StoreAssumption, StoreInv, NEW p \in Procs, Commits(p)
    PROVE  OptimisticOrder'
<1>1. Committed \in Pages /\ (Initialized(p) \/ Changed(p))
  BY CommittedType DEF Commits, StoreInv, TypeOK, PageOK
<1>2. CASE Initialized(p)
  <2>1. /\ Committed'.streams = Committed.streams /\ Committed'.markers = Committed.markers
        /\ kept' = kept
    BY <1>1, <1>2 DEF Initialized, Commits, Pages
  <2> QED BY <2>1 DEF StoreInv, OptimisticOrder
<1>3. CASE Changed(p)
  <2> DEFINE t == tx[p]
  <2>1. t \in Txs /\ expected[p] \subseteq Writes[t] \X Nat /\ Writes[t] \subseteq Streams
    BY <1>3 DEF Changed, StoreInv, JobOK, StoreAssumption
  <2>2. Committed' = Applied(Committed, t)
    BY <1>3 DEF Changed, Commits
  <2>3. /\ Committed'.markers = Committed.markers \cup {t}
        /\ Committed'.streams = [s \in Streams |-> IF s \in Writes[t] THEN Append(Committed.streams[s], t)
                                                                    ELSE Committed.streams[s]]
    BY <1>1, <2>1, <2>2, AppliedIs
  <2>4. kept' = [kept EXCEPT ![t] = expected[p]] /\ t \notin Committed.markers
    BY <1>3 DEF Changed, Commits, NotReplayed
  <2>5. \A s \in Streams : Committed.streams[s] \in Seq(Txs)
    BY <1>1 DEF Pages
  <2>6. Committed.markers \subseteq Txs /\ kept \in [Txs -> SUBSET Expectation]
    BY <1>1 DEF Pages, StoreInv, TypeOK, NoteTypes
  <2>7. ASSUME NEW u \in Committed.markers, NEW e \in kept'[u]
        PROVE  Len(Committed'.streams[e[1]]) > e[2] /\ Committed'.streams[e[1]][e[2] + 1] = u
    <3>1. u # t /\ e \in kept[u] /\ e \in Streams \X Nat
      BY <2>4, <2>6, <2>7 DEF Expectation
    <3>2. e[1] \in Streams /\ e[2] \in Nat /\ Committed.streams[e[1]] \in Seq(Txs)
      BY <2>5, <3>1
    <3>3. Len(Committed.streams[e[1]]) > e[2] /\ Committed.streams[e[1]][e[2] + 1] = u
      BY <3>1 DEF StoreInv, OptimisticOrder
    <3>4. CASE e[1] \in Writes[t]
      <4>1. Committed'.streams[e[1]] = Append(Committed.streams[e[1]], t)
        BY <2>3, <3>2, <3>4
      <4> QED BY <2>1, <3>2, <3>3, <4>1
    <3>5. CASE e[1] \notin Writes[t]
      <4>1. Committed'.streams[e[1]] = Committed.streams[e[1]]
        BY <2>3, <3>2, <3>5
      <4> QED BY <3>3, <4>1
    <3> QED BY <3>4, <3>5
  <2>8. ASSUME NEW e \in kept'[t]
        PROVE  Len(Committed'.streams[e[1]]) > e[2] /\ Committed'.streams[e[1]][e[2] + 1] = t
    <3>1. e \in expected[p] /\ e[1] \in Writes[t] /\ e[2] \in Nat
      BY <2>1, <2>4, <2>6, <2>8
    <3>2. e[1] \in Streams /\ Len(Committed.streams[e[1]]) = e[2]
      BY <1>3, <2>1, <3>1 DEF Changed, RevisionsMatch
    <3>3. Committed'.streams[e[1]] = Append(Committed.streams[e[1]], t)
      BY <2>3, <3>1, <3>2
    <3> QED BY <2>1, <2>5, <3>1, <3>2, <3>3
  <2> QED BY <2>3, <2>7, <2>8 DEF OptimisticOrder
<1> QED BY <1>1, <1>2, <1>3

LEMMA StepInv ==
    ASSUME StoreAssumption, StoreInv, NEW p \in Procs, Step(p)
    PROVE  StoreInv'
<1>1. Move(p) /\ TypeOK'
  BY StepMove, StepType
<1>2. \A q \in Procs : Own(q)'
  BY <1>1, OthersKeep DEF Move
<1>3. OptimisticOrder'
  <2>1. CASE Keeps
    BY <2>1 DEF Keeps, StoreInv, OptimisticOrder
  <2>2. CASE Commits(p)
    BY <2>2, CommitKeepsOrder
  <2> QED BY <1>1, <2>1, <2>2 DEF Move
<1>4. ReaderStable'
  BY <1>2 DEF Own, ReadsOK, ReaderStable
<1> QED BY <1>1, <1>2, <1>3, <1>4 DEF StoreInv, Own, Move

LEMMA StutterInv ==
    ASSUME StoreInv, UNCHANGED vars
    PROVE  StoreInv'
<1>1. /\ UNCHANGED <<created, file, journal, exclusive, shared, pc, call, tx, expected, work, view>>
      /\ UNCHANGED <<told, kept, calls>>
  BY DEF vars, diskVars, lockVars, callVars
<1>2. TypeOK'
  BY <1>1 DEF StoreInv, TypeOK, DiskTypes, LockTypes, CallTypes, WorkTypes, NoteTypes
<1>3. Committed' = Committed /\ (Hot' <=> Hot)
  BY <1>1 DEF Committed, Hot
<1>4. ASSUME NEW p \in Procs PROVE JobOK(p)' /\ HoldOK(p)' /\ PageOK(p)'
  <2>1. JobOK(p)' /\ HoldOK(p)'
    BY <1>1 DEF StoreInv, JobOK, HoldOK
  <2>2. (Initialized(p)' <=> Initialized(p)) /\ (Changed(p)' <=> Changed(p))
    BY <1>1, <1>3 DEF Initialized, Changed, NotReplayed, RevisionsMatch
  <2>3. PageOK(p)'
    BY <1>1, <1>3, <2>2 DEF StoreInv, PageOK
  <2> QED BY <2>1, <2>3
<1>5. OptimisticOrder' /\ ReaderStable' /\ Absent'
  BY <1>1, <1>3 DEF StoreInv, OptimisticOrder, ReaderStable, Absent
<1> QED BY <1>2, <1>4, <1>5 DEF StoreInv

LEMMA InitInv ==
    ASSUME StoreAssumption, Init
    PROVE  StoreInv
<1>1. TypeOK
  <2>1. DiskTypes /\ LockTypes
    BY EmptyType DEF Init, DiskTypes, LockTypes
  <2>2. CallTypes
    BY DEF Init, CallTypes
  <2>3. WorkTypes
    BY EmptyType DEF Init, WorkTypes
  <2>4. NoteTypes
    BY DEF Init, StoreAssumption, NoteTypes
  <2> QED BY <2>1, <2>2, <2>3, <2>4 DEF TypeOK
<1>2. Committed = EmptyFile
  BY DEF Init, Committed, Hot
<1>3. \A p \in Procs : JobOK(p) /\ HoldOK(p) /\ PageOK(p)
  BY DEF Init, JobOK, HoldOK, PageOK, Writing
<1>4. OptimisticOrder /\ ReaderStable /\ Absent
  BY <1>2 DEF Init, OptimisticOrder, ReaderStable, Absent, EmptyFile
<1> QED BY <1>1, <1>3, <1>4 DEF StoreInv

LEMMA NextInv == StoreAssumption /\ StoreInv /\ [Next]_vars => StoreInv'
BY StepInv, StutterInv DEF Next, Step

-----------------------------------------------------------------------------
(* The theorems *)

(* StoreInv holds in every reachable state: the store's state is well typed,  *)
(* one writer or some readers hold the lock, and who holds it knows the disk. *)
THEOREM StoreCorrect == Spec => []StoreInv
<1>1. Init => StoreInv
  BY StoreAssumption, InitInv
<1>2. StoreInv /\ [Next]_vars => StoreInv'
  BY StoreAssumption, NextInv
<1> QED BY <1>1, <1>2, PTL DEF Spec

(* Every state of the operation store is well typed, whoever crashed.         *)
THEOREM StoreTypeCorrect == Spec => []TypeOK
<1>1. StoreInv => TypeOK
  BY DEF StoreInv
<1> QED BY <1>1, StoreCorrect, PTL

(* A transaction that committed under an expected revision is the next entry  *)
(* of that stream after it, whatever ran, failed, crashed or was recovered.   *)
THEOREM OrderKept == Spec => []OptimisticOrder
<1>1. StoreInv => OptimisticOrder
  BY DEF StoreInv
<1> QED BY <1>1, StoreCorrect, PTL

(* One Snapshot reads one committed state.                                    *)
THEOREM ReadersSeeOneState == Spec => []ReaderStable
<1>1. StoreInv => ReaderStable
  BY DEF StoreInv
<1> QED BY <1>1, StoreCorrect, PTL

(* What a step tells its own writer. *)
LEMMA TellsTruth ==
    ASSUME StoreAssumption, StoreInv, NEW p \in Procs, Step(p), told'[p] # told[p]
    PROVE  /\ told'[p] = "committed" => tx[p] \in Committed'.markers
           /\ told'[p] = "not_committed" => tx[p] \notin Committed'.markers
<1> USE DEF diskVars, lockVars, callVars
<1>1. CASE Call(p)
  BY <1>1 DEF Call, StoreInv, TypeOK, NoteTypes
<1>2. CASE Acknowledge(p)
  <2>1. Committed' = Committed
    BY <1>2 DEF Acknowledge, Committed, Hot
  <2>2. told'[p] = "committed" /\ call[p] = "transaction"
    BY <1>2 DEF Acknowledge, Tell, StoreInv, TypeOK, NoteTypes
  <2> QED BY <1>2, <2>1, <2>2 DEF Acknowledge, StoreInv, PageOK
<1>3. CASE BodyRaises(p)
  <2>1. Committed' = Committed /\ Committed = file
    BY <1>3, CommittedNow DEF BodyRaises, Committed, Hot, StoreInv, PageOK
  <2>2. told'[p] = "not_committed"
    BY <1>3 DEF BodyRaises, Tell, StoreInv, TypeOK, NoteTypes
  <2> QED BY <1>3, <2>1, <2>2 DEF BodyRaises, NotReplayed
<1>4. CASE Reconcile(p)
  <2>1. Committed' = Committed
    BY <1>4 DEF Reconcile, Committed, Hot
  <2>2. told'[p] \in {MarkerStatus(tx[p]), "unknown"}
    BY <1>4 DEF Reconcile, Tell, StoreInv, TypeOK, NoteTypes
  <2>3. ~Hot => Committed = file
    BY CommittedNow DEF Hot
  <2> QED BY <2>1, <2>2, <2>3 DEF MarkerStatus
<1>5. CASE UNCHANGED told
  BY <1>5
<1> QED
  BY <1>1, <1>2, <1>3, <1>4, <1>5
     DEF Step, Progress, Lock, Create, OpenForWriting, OpenAbsent, Begin, Refuse, SaveJournal,
         WritePage, DeleteJournal, CommitRaises, OpenForReading, ReadStream, EndRead, Crash

(* The outcome a writer is told is never a guess.                             *)
THEOREM OutcomesAreTrue == Spec => OutcomeTruthful
<1>1. StoreInv /\ [Next]_vars =>
        [\A p \in Procs : told'[p] # told[p] =>
            /\ told'[p] = "committed" => tx[p] \in Committed'.markers
            /\ told'[p] = "not_committed" => tx[p] \notin Committed'.markers]_vars
  <2> SUFFICES ASSUME StoreInv, Next, NEW p \in Procs, told'[p] # told[p]
               PROVE  /\ told'[p] = "committed" => tx[p] \in Committed'.markers
                      /\ told'[p] = "not_committed" => tx[p] \notin Committed'.markers
    OBVIOUS
  <2>1. PICK q \in Procs : Step(q)
    BY DEF Next, Step
  <2>2. q = p
    BY <2>1, StoreAssumption, StepMove DEF Move, Others
  <2> QED BY <2>1, <2>2, StoreAssumption, TellsTruth
<1> QED BY <1>1, StoreCorrect, PTL DEF Spec, OutcomeTruthful

-----------------------------------------------------------------------------
(* Refinement *)

LEMMA InitRefines == Init => Abstract!AtomicInit
<1> SUFFICES ASSUME Init PROVE Abstract!AtomicInit
  OBVIOUS
<1>1. Committed = EmptyFile
  BY DEF Init, Committed, Hot
<1> QED BY <1>1 DEF EmptyFile, Abstract!AtomicInit

LEMMA CommitRefines ==
    ASSUME StoreAssumption, StoreInv, NEW p \in Procs, Commits(p)
    PROVE  Abstract!AtomicNext
<1>1. Committed \in Pages /\ (Initialized(p) \/ Changed(p))
  BY CommittedType DEF Commits, StoreInv, TypeOK, PageOK
<1>2. CASE Initialized(p)
  <2>1. /\ ~Committed.bound /\ Committed'.bound
        /\ Committed'.streams = Committed.streams
        /\ Committed'.first = Committed.first /\ Committed'.markers = Committed.markers
    BY <1>1, <1>2 DEF Initialized, Commits, Pages
  <2>2. Abstract!BindStore
    BY <2>1 DEF Abstract!BindStore
  <2> QED BY <2>2 DEF Abstract!AtomicNext
<1>3. CASE Changed(p)
  <2>1. tx[p] \in Txs /\ Committed' = Applied(Committed, tx[p])
    BY <1>3 DEF Changed, Commits, StoreInv, JobOK
  <2>2. /\ Committed'.bound = Committed.bound
        /\ Committed'.first = Selection(Committed, tx[p])
        /\ Committed'.markers = Committed.markers \cup {tx[p]}
        /\ Committed'.streams =
              [s \in Streams |-> IF s \in Writes[tx[p]] THEN Append(Committed.streams[s], tx[p])
                                                       ELSE Committed.streams[s]]
    BY <1>1, <2>1, AppliedIs
  <2>3. Abstract!Apply(tx[p])
    BY <1>3, <2>2 DEF Abstract!Apply, Changed, NotReplayed, Selection
  <2> QED BY <2>1, <2>3 DEF Abstract!AtomicNext
<1> QED BY <1>1, <1>2, <1>3

LEMMA NextRefines ==
    StoreAssumption /\ StoreInv /\ [Next]_vars => [Abstract!AtomicNext]_(Abstract!atomicStore)
<1> SUFFICES ASSUME StoreAssumption, StoreInv, [Next]_vars
             PROVE  [Abstract!AtomicNext]_(Abstract!atomicStore)
  OBVIOUS
<1>1. CASE UNCHANGED vars
  <2>1. Committed' = Committed
    BY <1>1 DEF vars, diskVars, Committed, Hot
  <2> QED BY <2>1 DEF Abstract!atomicStore
<1>2. ASSUME NEW p \in Procs, Step(p)
      PROVE  [Abstract!AtomicNext]_(Abstract!atomicStore)
  <2>1. Keeps \/ Commits(p)
    BY <1>2, StepMove DEF Move
  <2>2. CASE Keeps
    BY <2>2 DEF Keeps, Abstract!atomicStore
  <2>3. CASE Commits(p)
    BY <2>3, CommitRefines
  <2> QED BY <2>1, <2>2, <2>3
<1> QED BY <1>1, <1>2 DEF Next, Step

(* Pages, journal, locks and reconciliation together behave as a store of     *)
(* whole transactions, each applied at most once.                             *)
THEOREM StoreRefines == Spec => ImplementsAtomicStore
<1>1. Init => Abstract!AtomicInit
  BY InitRefines
<1>2. StoreInv /\ [Next]_vars => [Abstract!AtomicNext]_(Abstract!atomicStore)
  BY StoreAssumption, NextRefines
<1> QED BY <1>1, <1>2, StoreCorrect, PTL DEF Spec, ImplementsAtomicStore, Abstract!AtomicSpec
=============================================================================
