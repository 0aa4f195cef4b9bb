----------------------------- MODULE AtomicStore -----------------------------
(***************************************************************************)
(* What OperationStore promises to the writers of one Plan leaf: an append- *)
(* only set of streams and one first-winner pointer, changed by whole       *)
(* transactions, each of them at most once.                                 *)
(***************************************************************************)
EXTENDS Integers, Sequences

CONSTANTS
    Streams,    \* streams of the leaf's evidence
    Txs,        \* transaction identities
    Writes,     \* [Txs -> SUBSET Streams]: the streams a transaction appends to
    Selects,    \* the transactions that offer a selection
    NoTx        \* no transaction

VARIABLES
    bound,      \* has the leaf's database been initialized?
    log,        \* log[s]: the transactions whose entries the stream holds
    first,      \* the transaction that made the selection, or NoTx
    done        \* transactions that have committed

atomicStore == <<bound, log, first, done>>

AtomicInit ==
    /\ bound = FALSE
    /\ log = [s \in Streams |-> <<>>]
    /\ first = NoTx
    /\ done = {}

BindStore ==
    /\ ~bound
    /\ bound' = TRUE
    /\ UNCHANGED <<log, first, done>>

(* All of a transaction at once; the first selection offered stays. *)
Apply(tx) ==
    /\ bound
    /\ tx \notin done
    /\ log' = [s \in Streams |-> IF s \in Writes[tx] THEN Append(log[s], tx) ELSE log[s]]
    /\ first' = IF first = NoTx /\ tx \in Selects THEN tx ELSE first
    /\ done' = done \cup {tx}
    /\ UNCHANGED bound

AtomicNext == BindStore \/ \E tx \in Txs : Apply(tx)

AtomicSpec == AtomicInit /\ [][AtomicNext]_atomicStore
=============================================================================
