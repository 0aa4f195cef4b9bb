# A TLA+ verification of SCNSim's durable state

SCNSim simulates superconducting circuits. Its numerics are ordinary library
code. Hard to test is the part around them: a *workspace* on disk in which
several processes bind circuit Plans, run long optimizations, are interrupted,
crash, resume, and read back evidence that must never be half written, counted
twice or lost. This project models that part, checks it with TLC and proves its
central claims with TLAPS. Paths below are relative to `src/src/scnsim/` unless
they start with `docs/` (`src/docs/`).

Contents: [the system](#the-system) · [modules](#modules-and-what-they-model) ·
[runs](#runs-what-is-checked) · [proofs](#proofs) ·
[disagreements with the documentation](#where-code-and-documentation-disagree) ·
[limits](#what-is-not-modelled) · [plan](#plan)

## The system

### Components, their state and their operations

| Component | State it keeps | Operations that change state | Here |
|---|---|---|---|
| JAX operation driver, `execution/jax_operation.py` | the call under way: writer, `completed` flag, trace | `execute_jax_operation`: reuse, claim, resume, calculate, complete, fail, interrupt | `TaskWriter` |
| Generation writer, `benchmark/sqlite_storage.py` (class `TaskWriter`) | open generation, staged groups, evidence links, optimizer state; in the store: attempts, history, checkpoints, selection | `begin_task_writer`, `event`, `commit_barrier`, `flush`, `complete_operation`, `fail`, `publish_task_transition` | `TaskWriter` |
| CMA-ES loop, `benchmark/optimization.py` | mean, covariance, RNG, generation | `ask`, evaluate, `tell`, checkpoint restore | order of its steps in `TaskWriter`, numbers left out |
| Task materialisation, `benchmark/storage.py` | none (reads) | attempt status, ancestor limits, projection of observations | operators of `TaskWriterProperties` |
| SQLite operation store, `workspace/operation_store.py` | `operations.sqlite3` (streams, pointers, markers), its journal, `.scnsim.lock` | `initialize`, `transaction`, `_reconcile`, `reader`, `recover` | `OperationStore` |
| Workspace root, `workspace/store.py`, `storage.py` | `workspace.json`, `leaves/<id>`, `iterationNN`, the root lock | `bind_workspace` (create, reuse, replace, adopt, upgrade, extend), retired-leaf maintenance, `writer`, `reader` | `WorkspaceRoot` |
| Requests and attempts of a leaf, `workspace/store.py`, `workspace/validation/`, `execution/coordinator.py` | `requests/<sha>/`, `attempts/NNNNNN`, baseline and point checkpoints, hidden staging, generation ledgers | `find_success`, `ensure_request`, `allocate_attempt`, `seal_attempt`, `promote_attempt`, `publish_*_checkpoint`, `resume_ledger_sha256`, `seal_protocol_failure`, `seal_interruption`, `_cleanup_staging` | `RequestLeaf` |
| Julia execution protocol, `execution/process.py`, `protocol.py`, `coordinator.py` | a child process, two pipes, two reader threads, a queue of lines | bootstrap, authorization, recovery, point and checkpoint frames with their acknowledgements, progress, `outcome.json`, interrupt, termination of the group | `JuliaProtocol` |
| Evidence validation, `workspace/validation/` | none (reads) | how attempts, ledgers, checkpoints and points must fit together | operators of `RequestLeaf`; the checks inside one document are left out |
| Julia backend, `_julia/src/` | the staging directory | `terminal.jl`, `batch_v2.jl`, `optimization.jl`: frames, ledgers, replay, outcome | its side in `JuliaProtocol` and `RequestLeaf`, numerics left out |
| Operation trace, `benchmark/operations.py`, `timing.py` | open spans, pending rows | open, close, flush | first and last transaction in `TaskWriter`, rest planned |
| Authoring, `authoring/` | an editable circuit, sealed once | assembly, capture, seal | editing token planned |
| Runtime facade, `runtime.py` | a Run: its Plan and its binding | builds requests, `recover_workspace` | through the modules above |
| Execution preparation, specs, canonical forms, results | none that outlives a call | pure functions over documents | not modelled |
| Benchmark compiler and backends, mesh, Julia solvers | none shared | floating-point kernels | out of TLC's reach |
| Visualization, schemas, docs, examples, scripts | none | rendering, publication tooling | not modelled |

### How they interact

```
 run.optimize()  --calls-->  execute_jax_operation --callbacks--> user code
        |                          |  generations
   CircuitRun                 TaskWriter (staged groups in memory)
        | bind_workspace           |  one transaction per group
        v                          v
 workspace root  <--writer()--  Plan leaf: OperationStore (SQLite)
   flock(root)                     flock(operations directory)

 other requests  -->  coordinator  -->  requests/<sha>/attempts   (RequestLeaf)
                          |  stdin, stdout of a child process
                          v
                     Julia backend, writes into hidden staging    (JuliaProtocol)
```

* Processes share nothing but files. The root `flock()` orders binds, replacements
  and durable operations of a leaf; a second `flock()` in the leaf's operations
  directory orders SQLite transactions and readers. Locks die with their holder.
* A call takes the root lock for each durable step and gives it back between the
  steps, to calculate. So everything read in one step may be outdated in the next:
  attempts are *fenced* by their ordinal, bindings are re-checked on each entry.
* A request that the Julia backend computes holds the exclusive root lock for the
  whole attempt; only the look for an earlier success, before it, does not. Parent and
  child talk over two pipes and share the staging directory. The child runs in a session
  of its own and survives the death of its parent.
* Callbacks of `TaskWriter` run outside the locks, those of the coordinator inside;
  both may raise.

### What is hard here

Interleavings of callers that hold a lock only part of the time; crashes between
any two durable steps, including the page writes inside a SQLite commit; a
COMMIT that raises although it was applied; `KeyboardInterrupt` between two
statements; a resumed attempt that continues the evidence of an interrupted one,
which may itself be a continuation; a child that crashes, sends frames out of turn or
blocks on a pipe nobody reads; a child that outlives its parent and writes where the
next writer has cleaned up; a workspace in which another process has
replaced or upgraded the topology a Run was bound to. `PROJECT.json` lists each
hazard at its line, with the properties that watch it.

### What makes each component correct

* *Writer*: a published checkpoint is exactly the state after the generation it
  names; an attempt publishes each generation once and in order; a superseded
  attempt publishes nothing more; a failure loses no completed generation; a
  selected success stays readable and complete.
* *Store*: transactions are whole, happen at most once, and honour their expected
  revisions; readers see one committed state; the outcome a writer is told is true.
* *Root*: `workspace.json` lists only what is there; a bind is one step of the
  topology history or none; an interrupted bind can be repeated; a Run never works
  on a leaf that is not its own.
* *Leaf*: one success, after which nothing is appended; sealed history stays
  verifiable; a generation has one ledger and is evaluated once; what a cut leaves
  behind costs nothing that is sealed, and makes a later call fail in named cases only.
* *Protocol*: progress and outcomes rest on what is sealed; both sides agree on it;
  a run that ends unsealed loses no work; neither side waits for ever, and one interrupt
  of the protocol leaves no child behind.

## Modules and what they model

Every definition's source lines are in the `map` of `PROJECT.json`.

### `TaskWriter`: one optimization task and its callers

One caller is one process (or thread) inside `run.optimize()`. `pc` names the
place in `execute_jax_operation` or inside the writer, `job` what the writer is
about to publish and where to return afterwards.

| State | Code |
|---|---|
| `history`, `nextSeq`, `attempts`, `checkpoints`, `selected` (durable) | task stream, `event_sequence` pointer, attempts, checkpoint streams, success pointer of the store |
| `hot` | a rollback journal left behind by a torn COMMIT |
| `planLock` | the exclusive Plan lock of `writer()` |
| `attempt`, `resume`, `gen` (volatile) | own attempt, the checkpoint it resumes, `optimizer.generation` |
| `pending`, `completed`, `latest`, `chain`, `uncertain` (volatile) | buffered evaluations, staged barriers, `latest_state`, `generation_block`, `publication_uncertain` |
| `snap` | revision and sequence that `_publish` read before its transaction |
| `notes` | what the progress callback has been told |

| Actions | Code |
|---|---|
| `Start`, `Lookup`, `Reuse`, `Begin`, `Open`, `Announce` | find a success, else claim an attempt and resume it |
| `Evaluate`, `Tell`, `EnterBarrier`, `Stage`, `Flush` | the CMA loop and `commit_barrier` |
| `EnterEvent`, `Snapshot`, `Commit`, `Reject`, `CommitError`, `Clear`, `Notify` | `_publish`: snapshot, transaction, reconciliation, clearing the staged groups, callback |
| `Record`, `Fault`, `FactError`, `Interrupt`, `CallbackRaises`, `GiveUp`, `Finish` | the failure path and the closing transaction |
| `Crash`, `Recover` | death of the process, `recover_workspace` |

A calculation or a callback may raise between any two steps (`Faults`), COMMIT
may report an error whether or not it was applied (`CommitFaults`), a process may
die anywhere (`Crashes`), and an interrupt may hit between two statements of the
writer (`AsyncSignals`). A caller whose leaf another process has replaced fails
when it enters `writer()`; for the writer that is one more `Fault`.

`GenerationLedger` is the abstract promise: per task a list of attempts of which
only the newest advances, by whole groups, from its baseline or a published
resume point; one winner, for good. `TaskWriterProperties` states the
properties and the refinement mapping. It also models how a reader materialises
the history: `Status` is the rule of `_task_document_from_chain` (a terminal
update waits for the terminal event of its attempt and then overrides it),
`Ancestors` and `Projected` are the limits of `_project_python_observations`.

### `OperationStore`: SQLite below the writer

Opens up the atomic steps of `TaskWriter`'s store. A process opens the database for
one operation (initialize, transaction, read, recover) under the `flock()`.
`file` is the database as its pages are on disk, `work` as the open connection
sees it, `journal` the rollback journal. SQLite itself is external code and is
modelled by its documented DELETE-mode protocol: save the old pages, overwrite
the file page by page, delete the journal. A death between any two of these steps
leaves a hot journal. `CommitRaises` and `Reconcile` are the code's answer to a
COMMIT that raised: it looks for its own transaction marker through a second
connection. `AtomicStore` is the abstract promise.

### `WorkspaceRoot`: Plans come and go

`pointer` is `workspace.json` (kind, listed leaves, the leaf awaiting removal),
`dirs` the directories that exist, each reduced to whether it can be identified
(`workspace.json` and `plan.json` in it) and whether it holds the evidence
written to it. Leaves are numbered as they are created. A `bind` looks, finishes
the pending removal, decides, creates or copies a leaf, writes a temporary
pointer, swaps it in, confirms it, seals the Plan (`Seal` is `commit()`), and
tries the removal once more, now swallowing errors. `writer()` and `reader()` are
`EnterRun`; `place` is where the Run looks for its leaf and moves with an upgrade.

Each label in `FailAt` is a step at which the process may raise (`Raise`) or die
(`Die`); removal and copy are interruptible between any two files.
`TopologyHistory` is the abstract promise: one replaceable topology, or a history
of different Plans that only grows.

### `RequestLeaf`: attempts at one request

One process is inside `execute_prepared` at the place `pc`: it looks for a success
(`Look`), prepares the runtime without a lock, takes the writer lock and removes old
staging (`Lock`), looks again (`Recheck`), makes the request directory
(`Ensure` .. `WriteFirstIndex`), selects what to resume (`Select`), allocates an
attempt, runs the child and seals what it left.

| State | Code |
|---|---|
| `request` | directory, `request.json`, point anchor, point index, points and the hidden staging of a point |
| `baseline` | `baseline-checkpoint`, by the attempt that published it |
| `finals` | `attempts/NNNNNN`, each with its ledgers, receipt and verdict |
| `staging`, `stray` | `.staging-<uuid>` of the running attempt; one that an orphan has made again |
| `owner` | the writer lock |
| `child`, `orphan` | what the owner's child is doing; a child whose parent has died |

| Actions | Code |
|---|---|
| `Allocate`, `Launch`, `LaunchFails`, `Authorize`, `SealCut` | a staging directory, the launch of the child, `attempt.json` sealed or not |
| `PublishBaseline`, `LoadBaseline`, `ReplayRefused`, `OpenReplayed`, `CloseReplayed`, `Evolve`, `OpenLedger`, `CloseLedger` | an optimization: baseline, replayed ledgers, new generations |
| `StartSweep`, `ComputePoint`, `RenewPointRoot`, `StagePoint`, `RenamePoint`, `ListPoint`, `PublishRaises` | a sweep: one point after the other, published by the parent |
| `ChildSucceeds`, `ChildFails`, `ChildBreaks` | `outcome.json`, or none |
| `Validate`, `SealProtocolFailure`, `Interrupt`, `Promote` | validation, discard of untrusted output, receipt, `os.replace` |
| `Stop`, `OrphanWrites`, `OrphanEnds` | death of the process, and its child afterwards |

A ledger is reduced to the attempt that produced it and a chain of ledgers to the
sequence of their producers, since each ledger carries its producer and the hash of its
predecessor. `Verified` is what `_verify_attempt` demands of an attempt, given those
before it. `RequestHistory` is the abstract promise: attempts are appended, sealed
units of work are never taken back, and a success is complete, comes once and is last.

### `JuliaProtocol`: one run of the child

Opens up the step `run` of `RequestLeaf`. `pc` is the place of `run_terminal`, `child`
the place of the Julia program, `stdin` the lines on the way to the child, `queue` those
on the way from it (pipe, reader thread and queue are one sequence, as the queue is
unbounded), `broken` the reader threads that have died. An exception is in
`raising` while the handlers terminate the group and close the streams. A line that
could not be written stays `unflushed` in the stream's buffer and makes the closing raise.

The child follows its program (`Child`), but may die anywhere, emit frames out of turn or
undecodable bytes (`EmitRogue`, `EmitUndecodable`), claim a success it has not earned
(`ClaimSuccess`) and block on the pipe of a dead reader (`BlockOnPipe`). The parent's storage
may fail while it seals the attempt or publishes what the child has staged
(`AuthorizeFails`, `PublishFails`), and it may be interrupted anywhere (`Interrupt`): before
the try block, in the handlers, and in the finally clause before or while it terminates the child.

### How the modules compose

`TaskWriter` uses the store's contract (whole transactions, checked revisions,
a commit with uncertain outcome that reconciliation resolves), and
`OperationStore` is shown to implement `AtomicStore`, which states this contract.
`TaskWriter` and `WorkspaceRoot` share the root lock: a call between `writer()`
and its release is a `use` in `WorkspaceRoot`, and `RunStaysBound` is what
entitles `TaskWriter` to keep one leaf for the whole call. `RequestLeaf` takes the same
root lock for the whole attempt; what it demands of a child, that it
publishes only what it has staged and that a typed outcome comes from a child
that ended well, is what `JuliaProtocol` checks as `InStep` and `ReturnedOutcome`.

## Runs: what is checked

| Run | Shows | Bounds, and why they are enough |
|---|---|---|
| `writer` | `TypeOK`, `CheckpointExact`, `AttemptOrder`, `FencedHistory`, `SnapshotFresh`, `FailureKeepsTail`, `SelectedReadable`, `SelectedComplete`, `ImplementsLedger` | two calls among two callers of one task (groups of two, checkpoints) and one of another (no groups, policy "off"), three generations. Groups of two in three generations give a baseline commit, a full group and a shorter tail; two calls give a concurrent, superseding or resuming pair. No interrupts inside the writer. About 236,000 states |
| `signals` | `EvidenceContiguous`, `CallbackDurable`, `CallbackOrder`, `EveryCallEnds` | two calls of two processes for one task, with interrupts between any two statements and fair scheduling; two generations make one group, and a call can wait for the other at every lock and meet its journal. About 440,000 states |
| `checkpoint_signal`, `selected_signal` | one violation each, below | one caller, one interrupt |
| `store` | `TypeOK`, `OptimisticOrder`, `ReaderStable`, `OutcomeTruthful`, `ImplementsAtomicStore`, `EveryOperationEnds` | four operations of three processes, two transactions on two streams that both offer the selection: a commit with two page writes, a competitor, a reader and a recovery can all meet. About 253,000 states |
| `store_recovery` | one violation, below | three operations of two processes |
| `root` | `TypeOK`, `ListedIntact`, `RunRefusedForCause`, `RunStaysBound`, `OutcomeTruthful`, `RetryAccepted`, `ImplementsHistory` | five calls of two processes with three Plans and a failure at any step of any call that can leave something unfinished (at the others nothing has changed yet): A, B, A and an upgrade fit, as do three iterations, or a bind, its death, another call, its repetition, and a use. About 1.6 million states |
| `root_plan`, `root_evidence` | one violation each, below | three calls without failures; four calls that fail only inside the copy |
| `leaf` | `TypeOK`, `OneSuccess`, `LedgersAgree`, `HistoryReadable`, `NoGenerationTwice`, `IntegrityErrorsKnown`, `ImplementsHistory` | four calls of two processes for one request of each kind, two generations or points: a chain of ledgers can be cut, resumed and resumed again, a sweep half published and completed; two processes can race to the lock. A call may be cut short at every step that writes evidence (at the others a cut changes nothing). About 1.4 million states |
| `double_resume` | one violation, below | three calls of one process, no deaths |
| `julia` | `TypeOK`, `ProgressCommitted`, `ReturnedOutcome`, `InStep`, `UnsealedLosesNothing`, `ChildGone`, `EveryRunEnds` | one run of each operation, two points or generations, two frames out of turn and two interrupts: one for the body and one for the handlers. About 561,000 states |

Bounds are named: `MaxCalls` (calls or operations), `MaxGen` (generations),
`Size` (points or generations of a request), `Kinds`, `Ops` (kinds of request explored),
`MaxRogue` (frames out of turn), `MaxInterrupts`, `Crashes`, `Faults`, `CommitFaults`,
`AsyncSignals`, `FailAt` (kinds and places of failure).
Symmetry is used only where processes (and Plans) are interchangeable and no
liveness is checked. Deadlock checking is off because a behaviour ends when the
allowed calls are used up; `signals`, `store` and `julia` check that none hangs.

**Fairness.** Weak fairness of `Progress(p)` for each process: a process that can
take the next step of its call takes it. It excludes new calls, crashes, faults
and interrupts, which need not happen. The code justifies it: the steps are
straight-line code of a scheduled thread, `flock()` waiters get the lock since each
holder releases it in a `finally` or dies, and the calls under consideration are
finitely many, so weak fairness suffices and no lock queue is assumed. In
`JuliaProtocol` the parent and the child are scheduled, `WF(Parent)` and `WF(Child)`: two
processes of the operating system, the child's computations being finite. Deaths,
rogue frames and interrupts need not happen. `EveryRunEnds` excepts a dead
reader thread: then the child may block for ever and the parent waits for it
without a timeout (see the observations).

`RetryAccepted` makes three exceptions, each real: after a death inside the
removal of a retired leaf (`workspace/storage.py:129`) or inside the copy of an upgrade
before both identifying files are there (`store.py:1593`), and after a death with
a `.workspace.json.tmp-*` in a root that has no pointer yet (`store.py:1345-1369`
recognises no such entry), every later bind is refused until somebody repairs
the directory by hand. The first also refuses every Run that writes, however
sound its leaf: `ListedIntact` says that no *listed* leaf is damaged, and
`RunRefusedForCause` that nothing but such a leftover refuses a Run of a listed leaf.
`IntegrityErrorsKnown` names the four ways in which a cut makes a later call (or its own)
raise `EvidenceIntegrityError`. `HistoryReadable` says what the history keeps in spite of
them: `_verify_attempt` accepts every sealed attempt, but for points of a sweep that are half
published, and `inventory_document` refuses, besides those, only requests in which nothing is
sealed. `ChildGone` names the interrupts that leave a child.

Each property has a mutant (`PROJECT.json`): a change of one definition, as a
plausible bug would make it, under which the run finds the property violated.

## Proofs

TLC shows the properties on the instances above; TLAPS proves these for every
value of the constants that satisfies the named assumptions
(`ConstantAssumption`, `StoreAssumption`, `RootAssumption`, `LeafAssumption`,
`ProtocolAssumption`): any number of processes, tasks, Plans and generations, any streams,
any size and kind of request, any number of calls, cuts, rogue frames and interrupts, and
each switch on or off.

| Theorem | Module | States |
|---|---|---|
| `TypeCorrect` | `TaskWriterProofs` | `TypeOK` |
| `MutualExclusion`, `SnapshotStaysFresh` | `TaskWriterProofs` | who is inside the lock is its only holder; `SnapshotFresh` |
| `HistoryFenced` | `TaskWriterProofs` | `FencedHistory` |
| `CheckpointsExact` | `TaskWriterExact` | `CheckpointExact`, if `AsyncSignals` is false |
| `EventsContiguous`, `CallbacksDurable`, `CallbacksOrdered` | `TaskWriterEvidence` | `EvidenceContiguous`, `CallbackDurable`, `CallbackOrder`, under every fault and interrupt |
| `SelectionReadable`, `AttemptsOrdered`, `TailKept` | `TaskWriterOutcome` | `SelectedReadable`, `AttemptOrder`, `FailureKeepsTail`, if `AsyncSignals` is false |
| `LedgerImplemented` | `TaskWriterOutcome` | the writer implements `GenerationLedger`, if `AsyncSignals` is false |
| `SelectionComplete` | `TaskWriterOutcome` | `SelectedComplete`, if `AsyncSignals` is false |
| `StoreTypeCorrect`, `OrderKept`, `ReadersSeeOneState`, `OutcomesAreTrue` | `OperationStoreProofs` | the properties of `store` |
| `StoreRefines` | `OperationStoreProofs` | the store implements `AtomicStore` |
| `RootTypes`, `RootListed`, `RootRunsBound`, `RootTruthful`, `RootRetries`, `RootRefusals` | `WorkspaceRootProofs` | the properties of `root` |
| `RootRefines` | `WorkspaceRootProofs` | the root implements `TopologyHistory` |
| `LeafTypeCorrect`, `SuccessOnce`, `LedgersNeverDisagree`, `NothingTwice` | `RequestLeafProofs` | `TypeOK`, `OneSuccess`, `LedgersAgree`, `NoGenerationTwice` |
| `HistoryStaysReadable`, `IntegrityErrorsHaveCauses` | `RequestLeafProofs` | `HistoryReadable`, `IntegrityErrorsKnown` |
| `LeafImplementsHistory` | `RequestLeafProofs` | the leaf implements `RequestHistory` |
| `ProtocolTypeCorrect`, `ProgressFollowsCommit`, `OutcomesAreClean`, `SidesAgree`, `NothingLostUnsealed`, `NoChildLeft` | `JuliaProtocolProofs` | the safety properties of `julia` |

The arguments:

* **Types** (`TypeInv`): `TypeOK` is not inductive, because what a call publishes
  depends on where it is; `JobOK` adds for each place which `job` may be under way.
* **Fresh snapshots** (`FreshInv`): `LockOK` says that a call between taking and
  releasing the lock is the only one, through exceptions and crashes; every other
  process then leaves the task's stream alone, so a snapshot ages only by its own call.
* **Fencing** (`FenceInv`): `Bounded` says that every event names an allocated
  attempt and that an append comes from the newest one; so attempts in a history
  never decrease.
* **Exact checkpoints** (`ExactInv`): what a call has staged, and how far its
  optimizer is ahead of what is published, follows from its place; the evidence
  links it would have after publishing (`Reached`) always end at the generation of
  its latest state, and a resume point is one of the published checkpoints. The
  one step that would break it is an interrupt between storing the state and
  staging the generation, hence `~AsyncSignals`, and hence the violation below.
* **Contiguous evidence** (`ContiguousInv`): a publication numbers its events from the
  `next_seq` of its snapshot; `FreshInv` says that this is still the stream's, and the
  count of events it adds is the one it advances `next_seq` by. Proved with the shapes of
  the three publications (one baseline, groups of pairs, one event after its buffered
  diagnostics) as lemmas about sequences.
* **Callbacks** (`StageInv`, `CallbackInv`): `StageAt` ties the place of a call to what it
  has staged, to its optimizer state and to the links of its last group. On top of it,
  `AnnouncedOK` says that what is about to be told is already in the history (or was refused
  as empty, `Silent`), and `NewsOK` that everything told so far lies below what is staged:
  this is what a resumed attempt, a failure flush after an exception in a callback, and
  a second flush have to respect. Both are proved under `AsyncSignals`.
* **Selected successes** (`CompletedInv`): `CompletedLast` says that the change after a
  `completed` event is its success, that no later change is of that attempt, and that
  whoever still runs the attempt is past its publication or uncertain of it. Without
  the last part a failure could be appended; an interrupt does just that, hence
  `~AsyncSignals` and the violation below.
* **The ledger** (`LedgerInv`): none of `AttemptOrder`, `FailureKeepsTail` and the
  refinement is inductive, since what is published next depends on what is staged.
  `PointOK` says that what the history has of an attempt is exactly the generations
  from its resume point to `Published(p)` (two values after an uncertain commit, which
  may have happened or not), each with its checkpoint; `ReachOK` that the optimizer is at
  most one generation ahead of what would then be linked; `BaselineOK` that a fresh
  attempt has its baseline exactly once it is past it; `OriginOK` that it started at a
  published checkpoint. For `FailureKeepsTail`, `Buffered` says which generation is staged
  at which place, and `TailOK` that from the failure on the last completed generation is
  published or still staged, so that emptying the staged segments needs their publication. The exactness of the links comes from `ExactInv`.
* **The observed result** (`ObservedInv`): `SelectedComplete` speaks of a projection over
  all the attempts a success was resumed from, each up to the checkpoint resumed. `Whole`
  says of such an observation that it has one baseline, one evaluation of every
  generation up to some `n`, and none above. It holds at three places: up to every published checkpoint, for its
  generation (`PointsWhole`), which is where the next attempt takes over; for every
  attempt under way that is certain of its last commit, up to what it has published
  (`WholeAt`); and up to every `completed` event, for `MaxGen` (`CompletedWhole`). A step adds to the
  observations of its own attempt and to no other that is already closed (`SeenKeeps`), since the
  attempts that are resumed never change (`AncestorsStay`) and new events have larger
  numbers (`ContiguousInv`); a new attempt observes what its checkpoint does
  (`AncestorsNew`); a group extends the observation by its generations (`GroupWhole`).
  A failing attempt that archives the evaluation of its unfinished generation shows one too
  many, so it is left out from there on (`Diagnosed`); it can complete no more, and nobody
  resumes beyond its last checkpoint.
* **The store** (`StoreInv`): types; an absent database is empty (`Absent`); per
  process, what its open connection holds is the committed state plus at most
  its own transaction (`JobOK`); the lock excludes writers from readers
  (`HoldOK`); while the file is being overwritten the journal is exactly the
  committed state (`PageOK`); and the two properties themselves. `Committed` (the
  journal if there is one, else the file) is what `AtomicStore` sees, and changes
  only when a journal is deleted.
* **The root** (`RootInv`): that the listed leaves are there is not inductive, because it
  depends on what the call in progress is about to publish. `CallOK` says per process what
  its place implies (who holds the lock, that the pointer it has read is the one on disk, that
  the directory it publishes is finished, that the leaf its Run is bound to stays listed);
  `PointerOK` and `DirsOK` describe pointer, listed and retired leaves, orphans and half-made
  copies; `CountOK` bounds what dead calls leave behind by the calls made; `CutOK` says of
  a bind that was cut off that its repetition would accept what it finds, for `RootRetries`.
  Only the holder of the exclusive lock changes anything below the root, so each step
  leaves the calls of all others undisturbed.
* **The leaf** (`Inv` of `RequestLeafProofs`): whoever is past the lock is its owner
  (`LockOK`), so of two processes only one touches attempts; past the second look there
  is no success (`DoneOK`), which is why the promotion appends the first. For the ledgers,
  `LedgerOK`: any two sealed chains agree where both have a ledger; the chain selected for
  resumption covers every sealed one; the attempt's own ledgers agree with it, and the
  child evolves only when all of it has been replayed (`EvolveOK`). `StepMoves` shows that
  each of the steps of a process is one of six shapes, most of them quiet, so the
  invariant is proved once per shape and not once per step.
* **Reading the leaf again** (`ReadInv`): `HistoryReadable` is not inductive, because an
  attempt is verified against evidence that is published before and after it. `SoundOK`
  says what never expires of a verified attempt (`VerifiedApart`: its resume bundle, its use
  of the baseline, its ledgers, its completeness), with the points it counted still listed;
  `PointsOK` that a point is in place at most one ahead of the list, and only at the
  two places that have just put it there or are about to list it; `AttemptOK` that the
  attempt under way resumes what an attempt before it has sealed, has the other ledgers
  from itself, and knows the baseline whenever it has a ledger. An `EvidenceIntegrityError`
  needs a reader that finds a fault in what is published, a
  resume chain that cannot be replayed or a receipt that does not fit; the three parts
  exclude each but in the exceptions `IntegrityErrorsKnown` names. The same invariant shows
  that what `RequestHistory` calls sealed (the list of points, or the longest
  chain, which exists by `LongestOK`) only grows, and is complete when a success is promoted.
* **The protocol** (`Inv` of `JuliaProtocolProofs`): the child's place tells which
  operation it performs (`PlaceOK`) and, with the lines still in the pipes, what is durable
  (`AgreeOK`, `LinesOK`); `committed` is set by the one acknowledgement of a sealed
  baseline and by nothing else (`CommitOK`); the end mark of a reader is the last line
  (`EndOK`); an accepted outcome stays what it was when it was accepted (`OutcomeOK`). What ends a
  run unsealed comes before the commit of a baseline is known to the child (`FailureOK`), and a
  child that has not been told works on nothing (`KnownOK`, with what is in its input), so
  nothing is lost with it. Every way to the end but the named interrupts has passed a
  termination of the group (`GoneOK`). Rogue frames are
  lines like any other, so the argument never assumes that the child behaves.

Model-checked only: everything under fairness (`EveryCallEnds`,
`EveryOperationEnds`, `EveryRunEnds`), which the prover cannot do. Every other invariant, action property and refinement of a passing run has
a theorem. Where a theorem
about `TaskWriter` carries `~AsyncSignals`, an interrupt inside the writer breaks the
property or the invariant it rests on: `checkpoint_signal` shows `CheckpointExact` violated,
`selected_signal` shows `SelectedReadable`.
Definitions of the modules with proofs use recursive
functions and library folds instead of RECURSIVE operators.

## Where code and documentation disagree

Each is a run with one property that TLC finds violated.

1. **A checkpoint newer than its name** (`checkpoint_signal`,
   `benchmark/sqlite_storage.py:423`). `commit_barrier` stores the optimizer state
   before it stages the generation. An interrupt in between makes the failure flush
   publish a checkpoint of generation *n* with the state of *n+1*; the resumed
   attempt skips a generation. docs/guides/benchmark.qmd:72-73 promises an atomic pair.
2. **A selected success taken back** (`selected_signal`,
   `execution/jax_operation.py:266`). An interrupt after the success is committed and
   selected but before `completed = True` appends a failure to the selected attempt,
   which no reader accepts any more.
3. **Recovery of nothing** (`store_recovery`, `workspace/operation_store.py:205`). A
   death inside the first transaction leaves a database that recovery rolls back
   to an empty file; it can then be neither read, recovered nor initialized.
4. **A Run on another Plan's leaf** (`root_plan`, `workspace/store.py:1233`).
   `versioned=True` with a new Plan on a replaceable root upgrades the root and
   returns the old Plan's leaf; the Plan is sealed, and the first request of its
   Run is refused (`store.py:245`).
5. **An upgrade that loses requests** (`root_evidence`, `workspace/store.py:1593`). A
   copy that was interrupted, or is older than the original by now, is accepted by the next
   upgrade, and the original is removed.
6. **A request that cannot be resumed twice** (`double_resume`,
   `_julia/src/optimization.jl:1044`). Replayed ledgers keep the identity of the attempt
   that produced them; Python verifies and selects them so, the child of the third attempt
   accepts only ledgers of the sibling itself, and the request can never complete.
   docs/implementation/workspace-attempts-and-artifacts.qmd:193-195 promises a replay of the
   greatest verified generation.

The models contain these disagreements as well, as exceptions of the properties that
name them:

* **A run that ends unsealed.** A line that could not be written makes the closing of stdin
  raise `BrokenPipeError` in place of the protocol error (`execution/process.py:684-687`); a
  staged baseline that storage or an older checkpoint contradicts raises a plain
  `EvidenceIntegrityError` (`workspace/store.py:418-461`), as may the sealing of the attempt
  (`store.py:497-520`). `execute_prepared` handles neither (`execution/coordinator.py:240-258`)
  and leaves the attempt in hidden staging.
  docs/implementation/julia-runtime-preparation.qmd:41-43 says "every later transport failure
  are attempt-backed `BackendProtocolError` outcomes", python-julia-protocol.qmd:97-101 that
  failure after the launch "seals a launched protocol-failure receipt". `UnsealedLosesNothing`
  bounds the damage.
* **An interrupt that leaves the child.** The process group is terminated by the handlers and
  by the finally clause; a `KeyboardInterrupt` between the start of the child and the try block
  (`process.py:371-398`), in the finally clause before `killpg()` (676-678), or on top of an
  earlier one leaves it running, though docs/implementation/python-julia-protocol.qmd:54-56
  says "interruption cannot leave a child backend running" (`ChildGone`).
* A reader thread that dies of undecodable bytes lets the child block, and
  `process.wait()` has no timeout (`broken` in `EveryRunEnds`, `process.py:104`).
* A retired leaf that is removed half-way (`workspace/store.py:1305`) is refused by its own
  identification, and with it every later bind and writer of the root (`HalfRemoved` in
  `RunRefusedForCause`, `RetryAccepted`).
* A death while a point is published: what is staged is met by the next reader before
  the writer that would remove it (`workspace/store.py:341-355`), and what is renamed but
  not listed is never listed (355-362); every later look at the request raises
  `EvidenceIntegrityError`, in the first case until another request takes the writer lock
  (`HalfPublished` in `IntegrityErrorsKnown`).
* An interrupt while a ledger is written, new or replayed, leaves its temporary file, which
  the sealing of the interruption refuses (`_julia/src/result_artifacts.jl:7-14`).
* An interrupt between the `os.replace()` of `attempt.json` and the assignment of its hash
  (`store.py:515-520`) makes the handler seal the attempt again, which is refused (`SealCut`).
* The orphaned child of a dead process makes its staging directory again, and the next
  allocation refuses it; or the cleanup of the next writer fails (`stray`, `CleanupRaises`).
* A typed failure of a sweep that has points in its staging is refused and sealed as a
  protocol failure (`workspace/validation/optimization.py:165-166`, `Acceptable`).
* A request directory without `request.json` is refused by every later call
  (`workspace/store.py:256`, outcome `exists`), and the inventory of the whole leaf refuses it
  (628), as it does a request with neither attempt nor checkpoint (645-661); both are
  left by a death before the first attempt is sealed (`NothingSealed` in `HistoryReadable`).

## What is not modelled

* Numbers: candidates, costs, spectra, the CMA update, root continuation; and what
  documents say beyond what the control flow tells apart.
* Damage from outside: edited or truncated documents, symbolic links. The code
  refuses them; a refusal changes nothing.
* Power loss that reorders `fsync`ed writes. A crash here is the death of a
  process; renames are durable in the order they are made.
* `TaskWriter`: requests of other kinds (they publish no generations), spans of the
  trace between its first and last transaction, artifacts, legacy file journals.
* `OperationStore`: the operation and span indexes (data of a transaction); SQLite's
  own file locks, uncontended under the `flock()`.
* `WorkspaceRoot`: hidden staging directories, which decide nothing;
  `_cleanup_upgrade_duplicate`, whose case the maintenance before it has always
  removed; interrupts between the publication and `commit()`.
* `RequestLeaf`: recovered points copied into a new attempt, retries of
  other requests of the same leaf, which differ only in their directory.
* `JuliaProtocol`: limits on the length of a line and on kept stderr; what a
  frame says beyond its kind and ordinal (a malformed one is a `stray` or a refused one).
* The components listed as such in the table above.

## Plan

| Step | Module | Covers | Properties and proofs in view |
|---|---|---|---|
| 1, done | `TaskWriter`, `GenerationLedger` | writer, driver | the ledger refinement and all safety properties proved |
| 2, done | `OperationStore`, `AtomicStore` | SQLite store | safety and refinement proved |
| 3, done | `WorkspaceRoot`, `TopologyHistory` | root and leaves | safety and refinement proved |
| 4, done | `RequestLeaf`, `RequestHistory` | requests, attempts, checkpoints, staging, `find_success` | safety and refinement proved |
| 5, done | `JuliaProtocol` | the child process, its frames, interrupts and termination | all safety properties proved, liveness checked |
| 6 | `SpanTrace` | operation and span records of the trace | every opened span is closed or abandoned exactly once |
| 7 | `PlanSeal` | editing token between capture, bind and seal | sealed exactly when the bind committed or is indeterminate |
| 8 | `PointSweep`, `Continuation` | sweep points, dyadic root continuation, `NetworkView` grammar | pure algorithms against reference definitions |

The order follows risk: evidence that is written once and read for ever comes first.
A superseded attempt of `TaskWriter` keeps the status "running", an observation for `SpanTrace`.
