---------------------- MODULE OperationStoreProperties ----------------------
(* What the operation store must guarantee, over the states of OperationStore. *)
EXTENDS OperationStore

Pages == [bound: BOOLEAN, streams: [Streams -> Seq(Txs)],
          first: Txs \cup {NoTx}, markers: SUBSET Txs]

Expectation == Streams \X Nat

DiskTypes ==
    /\ created \in BOOLEAN
    /\ file \in Pages
    /\ journal \subseteq Pages /\ \A x, y \in journal : x = y

LockTypes ==
    /\ exclusive \subseteq Procs /\ \A p, q \in exclusive : p = q
    /\ shared \subseteq Procs /\ (exclusive = {} \/ shared = {})

CallTypes ==
    /\ pc \in [Procs -> {"idle", "lock", "open", "begin", "commit", "pages",
                         "committed", "reconcile", "reading"}]
    /\ call \in [Procs -> {"none", "initialize", "transaction", "read", "recover"}]
    /\ tx \in [Procs -> Txs \cup {NoTx}]
    /\ expected \in [Procs -> SUBSET Expectation]

WorkTypes ==
    /\ work \in [Procs -> Pages]
    /\ view \in [Procs -> SUBSET (Streams \X Seq(Txs))]

NoteTypes ==
    /\ told \in [Procs -> {"none", "committed", "not_committed", "unknown"}]
    /\ kept \in [Txs -> SUBSET Expectation]
    /\ calls \in 0 .. MaxCalls

TypeOK == DiskTypes /\ LockTypes /\ CallTypes /\ WorkTypes /\ NoteTypes

-----------------------------------------------------------------------------
(* A transaction that committed under an expected revision is the very next   *)
(* entry after it, for good: no other writer, no rollback and no recovery     *)
(* came in between (OperationStore.transaction).                              *)
OptimisticOrder ==
    \A t \in Committed.markers : \A e \in kept[t] :
        /\ Len(Committed.streams[e[1]]) > e[2]
        /\ Committed.streams[e[1]][e[2] + 1] = t

(* Everything one Snapshot reads belongs to one committed state: no stream    *)
(* moves on while it is open, and a half-written commit is never read         *)
(* (OperationStore.reader under flock()).                                     *)
ReaderStable ==
    \A p \in Procs : \A row \in view[p] : row[2] = Committed.streams[row[1]]

(* The outcome a writer learns is the truth at that moment: "committed" and   *)
(* "not_committed" are never guesses, whatever COMMIT raised; only "unknown"  *)
(* leaves it open (OperationStore.transaction and _reconcile).                *)
OutcomeTruthful ==
    [][\A p \in Procs : told'[p] # told[p] =>
           /\ told'[p] = "committed" => tx[p] \in Committed'.markers
           /\ told'[p] = "not_committed" => tx[p] \notin Committed'.markers]_vars

(* Once the leaf's recovery has run, the readers that a journal turned away   *)
(* can read: recover_workspace, then retry (OperationStore.recover).          *)
RecoveryRestoresReading ==
    [][\A p \in Procs : Hot /\ call[p] = "recover" /\ pc[p] = "open" /\ pc'[p] = "idle"
                            /\ ~Hot' => file'.bound]_vars

-----------------------------------------------------------------------------
(* Every operation on the store ends: whoever holds the lock, and however it  *)
(* leaves, the others get their turn (OperationStore._lock).                  *)
EveryOperationEnds == \A p \in Procs : pc[p] # "idle" ~> pc[p] = "idle"

-----------------------------------------------------------------------------
Abstract == INSTANCE AtomicStore WITH
    bound <- Committed.bound,
    log   <- Committed.streams,
    first <- Committed.first,
    done  <- Committed.markers

(* The pages, the journal, the locks and the reconciliation together are a    *)
(* store of whole transactions, each applied at most once.                    *)
ImplementsAtomicStore == Abstract!AtomicSpec
=============================================================================
