----------------------------- MODULE TaskWriter -----------------------------
(***************************************************************************)
(* One generation-checkpointed JAX optimization task and the callers that   *)
(* run it: execution/jax_operation.py drives a call, the TaskWriter class   *)
(* of benchmark/sqlite_storage.py stages completed generations and          *)
(* publishes them in groups, and the leaf's SQLite operation store keeps    *)
(* what was committed.                                                      *)
(*                                                                          *)
(* A caller is a process (or thread) inside run.optimize().  Callers share  *)
(* nothing but the Plan-leaf writer lock and the store.  Callers of         *)
(* different tasks (another checkpoint policy or commit interval) compete   *)
(* for the one success selection of their common request.                   *)
(***************************************************************************)
EXTENDS Integers, Sequences, FiniteSets

CONSTANTS
    Procs,          \* callers of run.optimize() on one request
    Tasks,          \* task identities of that request
    TaskOf,         \* [Procs -> Tasks]: the task a caller's options select
    Every,          \* [Tasks -> positive Nat]: commit_every_generations
    Checkpointed,   \* [Tasks -> BOOLEAN]: checkpoint_policy = "generation"
    MaxGen,         \* controls["complete_generations"]
    MaxCalls,       \* bound: number of calls explored
    Crashes,        \* bound: may a caller's process die?
    CommitFaults,   \* bound: may COMMIT report an error?
    Faults,         \* bound: may a calculation or a callback raise between two
                    \* steps of the writer?
    AsyncSignals    \* may KeyboardInterrupt arrive inside commit_barrier?

ASSUME ConstantAssumption ==
    /\ TaskOf \in [Procs -> Tasks]
    /\ Every \in [Tasks -> Nat \ {0}]
    /\ Checkpointed \in [Tasks -> BOOLEAN]
    /\ MaxGen \in Nat
    /\ MaxCalls \in Nat
    /\ Crashes \in BOOLEAN
    /\ CommitFaults \in BOOLEAN
    /\ Faults \in BOOLEAN
    /\ AsyncSignals \in BOOLEAN

VARIABLES
    \* The operation store (durable).
    history,        \* stream task/<task>/history, a sequence of changes
    nextSeq,        \* pointer event_sequence/<task>
    attempts,       \* attempt_begin facts; the last one is current_attempt/<task>
    checkpoints,    \* streams checkpoints/<task>/<attempt>, merged in commit order
    selected,       \* pointer success/<request>: {} or one selection
    hot,            \* a rollback journal is left behind by a torn COMMIT
    \* The Plan-leaf lock (binding.writer()).
    planLock,       \* {} or {holder}
    \* One call of execute_jax_operation per process (volatile).
    pc,             \* where the call is
    job,            \* which publication it is in
    attempt,        \* attempt_id, 0 before begin_attempt
    resume,         \* the checkpoint it resumes from, or Fresh
    gen,            \* optimizer.generation
    pending,        \* TaskWriter.pending: generations of buffered evaluations
    completed,      \* TaskWriter.completed: staged barriers not yet published
    latest,         \* TaskWriter.latest_state: generation of the CMA state, or NoState
    chain,          \* TaskWriter.generation_block, as the generations it links
    uncertain,      \* TaskWriter.publication_uncertain
    snap,           \* revision and sequence read before the transaction
    \* Observation.
    notes,          \* progress notifications delivered to users
    calls           \* number of calls started

storeVars  == <<history, nextSeq, attempts, checkpoints, selected>>
writerVars == <<pending, completed, latest, chain, uncertain>>
callVars   == <<attempt, resume, gen>>
vars == <<storeVars, hot, planLock, pc, job, callVars, writerVars, snap, notes, calls>>

-----------------------------------------------------------------------------
(* Data *)

NoState == -1

Fresh == [attempt |-> 0, gen |-> 0, cma |-> 0, chain |-> <<>>, seq |-> -1]

NoSnap == [rev |-> 0, seq |-> 0]

BarrierJobs == {"baseline_ready", "generation_ready"}
FlushJobs   == {"flush_terminal", "flush_failure"}
SegmentJobs == BarrierJobs \cup FlushJobs
EventJobs   == {"resumed", "failed", "completed"}

Change(kind, a, g, s) == [kind |-> kind, attempt |-> a, gen |-> g, seq |-> s]

(* update_attempt() and attempt_begin change the history without an event. *)
NoEvent == -1

IsEvent(change) == change.seq # NoEvent

Events(t) == {i \in DOMAIN history[t] : IsEvent(history[t][i])}

Current(t) == Len(attempts[t])

LastOf(s) == s[Len(s)]

-----------------------------------------------------------------------------
(* Publication: TaskWriter._publish *)

(* Mutant: the baseline does not restart the evidence chain. *)
ChainKeepsBaseline(links, segments) == links \o segments

(* Evidence links after the staged barriers: a baseline barrier starts a new *)
(* chain, a generation barrier links to the previous block.                  *)
ChainAfter(links, segments) ==
    IF segments = <<>> THEN links
    ELSE IF segments[1] = 0 THEN Tail(segments)
    ELSE links \o segments

(* The buffered evaluation of a generation precedes its barrier event. *)
SegmentChanges(a, segments, from) ==
    IF segments # <<>> /\ segments[1] = 0
    THEN << Change("baseline_ready", a, 0, from) >>
         \o [i \in 1 .. 2 * (Len(segments) - 1) |->
               Change(IF i % 2 = 1 THEN "evaluation" ELSE "generation_ready",
                      a, segments[1 + ((i + 1) \div 2)], from + i)]
    ELSE [i \in 1 .. 2 * Len(segments) |->
            Change(IF i % 2 = 1 THEN "evaluation" ELSE "generation_ready",
                   a, segments[(i + 1) \div 2], from + i - 1)]

(* Extra events archive the buffered diagnostics before the event itself;    *)
(* a completion also records the success update of its attempt.              *)
EventChanges(kind, a, buffered, g, from) ==
    [i \in 1 .. Len(buffered) |-> Change("evaluation", a, buffered[i], from + i - 1)]
    \o << Change(kind, a, g, from + Len(buffered)) >>
    \o (IF kind = "completed" THEN << Change("success", a, g, NoEvent) >> ELSE <<>>)

PublishedSegments(p) == IF job[p] \in SegmentJobs THEN completed[p] ELSE <<>>

NewChanges(p) ==
    IF job[p] \in SegmentJobs
    THEN SegmentChanges(attempt[p], completed[p], snap[p].seq)
    ELSE EventChanges(job[p], attempt[p], pending[p], gen[p], snap[p].seq)

(* Mutant: the archived diagnostics take no sequence numbers. *)
CountsOnlyTheEvent(p) ==
    IF job[p] \in SegmentJobs
    THEN IF completed[p][1] = 0 THEN 2 * Len(completed[p]) - 1 ELSE 2 * Len(completed[p])
    ELSE 1

NewEventCount(p) ==
    IF job[p] \in SegmentJobs
    THEN IF completed[p][1] = 0 THEN 2 * Len(completed[p]) - 1 ELSE 2 * Len(completed[p])
    ELSE Len(pending[p]) + 1

(* Mutant: a checkpoint is made although the policy keeps no state. *)
AlwaysMakesCheckpoint(p) == job[p] \in SegmentJobs

(* A checkpoint accompanies the last staged barrier when the policy kept a   *)
(* CMA state; its generation is the barrier's, its state the latest one.     *)
MakesCheckpoint(p) == job[p] \in SegmentJobs /\ latest[p] # NoState

(* Mutant: the checkpoint is bound to the event after its barrier. *)
CheckpointBoundLate(p) ==
    [attempt |-> attempt[p], gen |-> LastOf(completed[p]), cma |-> latest[p],
     chain |-> ChainAfter(chain[p], completed[p]),
     seq |-> snap[p].seq + NewEventCount(p)]

NewCheckpoint(p) ==
    [attempt |-> attempt[p], gen |-> LastOf(completed[p]), cma |-> latest[p],
     chain |-> ChainAfter(chain[p], completed[p]),
     seq |-> snap[p].seq + NewEventCount(p) - 1]

(* Mutant: an attempt that is not current may still publish. *)
AcceptsAnyAttempt(p) == Len(history[TaskOf[p]]) = snap[p].rev

PublishAccepted(p) ==
    /\ Len(history[TaskOf[p]]) = snap[p].rev
    /\ attempt[p] = Current(TaskOf[p])

(* Mutant: the last success replaces the selected one. *)
SelectLast(p) ==
    IF job[p] = "completed" THEN {[task |-> TaskOf[p], attempt |-> attempt[p]]} ELSE selected

(* tx.select_first("success/<request>") *)
Selection(p) ==
    IF job[p] = "completed" /\ selected = {}
    THEN {[task |-> TaskOf[p], attempt |-> attempt[p]]}
    ELSE selected

(* The store effects of one committed _publish transaction. *)
Publish(p) ==
    LET t == TaskOf[p] IN
    /\ history' = [history EXCEPT ![t] = @ \o NewChanges(p)]
    /\ nextSeq' = [nextSeq EXCEPT ![t] = snap[p].seq + NewEventCount(p)]
    /\ checkpoints' = IF MakesCheckpoint(p)
                      THEN [checkpoints EXCEPT ![t] = Append(@, NewCheckpoint(p))]
                      ELSE checkpoints
    /\ selected' = Selection(p)
    /\ UNCHANGED attempts
-----------------------------------------------------------------------------
(* Calls *)

(* Mutant: the writer lock does not exclude. *)
LockWithoutWaiting(p) == planLock' = {p}

(* binding.writer(): the Plan-leaf lock is held from here until Unlock. *)
Lock(p) == planLock = {} /\ planLock' = {p}

(* Mutant: the lock is not released. *)
KeepLock == planLock' = planLock

Unlock == planLock' = {}

Goto(p, label) == pc' = [pc EXCEPT ![p] = label]

(* Nothing volatile survives the end of execute_jax_operation. *)
Forget(p) ==
    /\ job' = [job EXCEPT ![p] = "none"]
    /\ attempt' = [attempt EXCEPT ![p] = 0]
    /\ resume' = [resume EXCEPT ![p] = Fresh]
    /\ gen' = [gen EXCEPT ![p] = 0]
    /\ pending' = [pending EXCEPT ![p] = <<>>]
    /\ completed' = [completed EXCEPT ![p] = <<>>]
    /\ latest' = [latest EXCEPT ![p] = NoState]
    /\ chain' = [chain EXCEPT ![p] = <<>>]
    /\ uncertain' = [uncertain EXCEPT ![p] = "none"]
    /\ snap' = [snap EXCEPT ![p] = NoSnap]

(* The call returns or raises: only its recorder is still to be closed. *)
End(p) == Forget(p) /\ Goto(p, "finish")

(* OperationRecorder.__enter__ opens the store for writing, which rolls back *)
(* any journal; the user may name any committed checkpoint of the task.      *)
Start(p) ==
    /\ pc[p] = "idle" /\ calls < MaxCalls
    /\ planLock = {}
    /\ hot' = FALSE
    /\ \E c \in {Fresh} \cup {checkpoints[TaskOf[p]][i] : i \in DOMAIN checkpoints[TaskOf[p]]} :
           resume' = [resume EXCEPT ![p] = c]
    /\ calls' = calls + 1
    /\ Goto(p, "lookup")
    /\ UNCHANGED <<storeVars, planLock, job, attempt, gen, writerVars, snap, notes>>

(* A read under the shared lock; resume_from is never a cache lookup. *)
Lookup(p) ==
    /\ pc[p] = "lookup" /\ planLock = {}
    /\ \/ /\ hot                        \* WorkspaceRecoveryRequiredError
          /\ End(p)
       \/ /\ ~hot
          /\ Goto(p, IF resume[p] = Fresh /\ selected # {} THEN "reuse" ELSE "begin")
          /\ UNCHANGED <<job, callVars, writerVars, snap>>
    /\ UNCHANGED <<storeVars, hot, planLock, notes, calls>>

(* The cache hit records an operation event, then notifies result_reuse. *)
Reuse(p) ==
    /\ pc[p] = "reuse" /\ planLock = {}
    /\ hot' = FALSE
    /\ notes' = notes \cup {[kind |-> "result_reuse", task |-> s.task, attempt |-> s.attempt,
                             gen |-> MaxGen] : s \in selected}
    /\ End(p)
    /\ UNCHANGED <<storeVars, planLock, calls>>

Begin(p) ==
    LET t == TaskOf[p]
        a == Len(attempts[t]) + 1 IN
    /\ pc[p] = "begin" /\ planLock = {}
    /\ hot' = FALSE
    /\ attempts' = [attempts EXCEPT ![t] =
                       Append(@, [from |-> resume[p].attempt, limit |-> resume[p].seq,
                                  base |-> resume[p].gen])]
    /\ history' = [history EXCEPT ![t] = Append(@, Change("attempt_begin", a, 0, NoEvent))]
    /\ attempt' = [attempt EXCEPT ![p] = a]
    /\ Goto(p, "open")
    /\ UNCHANGED <<nextSeq, checkpoints, selected, planLock, job, resume, gen, writerVars,
                   snap, notes, calls>>

(* begin_task_writer reads the store; when it fails there is no writer to    *)
(* record the failure with, and the attempt stays allocated.                 *)
Open(p) ==
    LET t == TaskOf[p] IN
    /\ pc[p] = "open" /\ planLock = {}
    /\ \/ /\ hot
          /\ End(p)
          /\ UNCHANGED history
       \/ /\ ~hot
          /\ history' = [history EXCEPT ![t] = Append(@, Change("running", attempt[p], 0, NoEvent))]
          /\ chain' = [chain EXCEPT ![p] = resume[p].chain]
          /\ gen' = [gen EXCEPT ![p] = resume[p].cma]
          /\ Goto(p, IF resume[p] = Fresh THEN "baseline" ELSE "announce")
          /\ UNCHANGED <<job, attempt, resume, pending, completed, latest, uncertain, snap>>
    /\ UNCHANGED <<nextSeq, attempts, checkpoints, selected, hot, planLock, notes, calls>>

(* append_event(kind="resumed", force=True) *)
Announce(p) ==
    /\ pc[p] = "announce" /\ Lock(p)
    /\ job' = [job EXCEPT ![p] = "resumed"]
    /\ Goto(p, "snapshot")
    /\ UNCHANGED <<storeVars, hot, callVars, writerVars, snap, notes, calls>>

(* One population is asked for and evaluated: diagnostics stay buffered. *)
Evaluate(p) ==
    /\ pc[p] = "generate" /\ gen[p] < MaxGen
    /\ pending' = [pending EXCEPT ![p] = Append(@, gen[p] + 1)]
    /\ Goto(p, "evaluated")
    /\ UNCHANGED <<storeVars, hot, planLock, job, callVars, completed, latest, chain, uncertain,
                   snap, notes, calls>>

Tell(p) ==
    /\ pc[p] = "evaluated"
    /\ gen' = [gen EXCEPT ![p] = @ + 1]
    /\ Goto(p, "barrier")
    /\ UNCHANGED <<storeVars, hot, planLock, job, attempt, resume, writerVars, snap, notes, calls>>

(* commit_barrier, first statement that matters: the new CMA state replaces  *)
(* the staged one before its own segment is staged.                          *)
EnterBarrier(p) ==
    /\ pc[p] \in {"baseline", "barrier"} /\ Lock(p)
    /\ job' = [job EXCEPT ![p] = IF pc[p] = "baseline" THEN "baseline_ready" ELSE "generation_ready"]
    /\ latest' = [latest EXCEPT ![p] = IF Checkpointed[TaskOf[p]] THEN gen[p] ELSE NoState]
    /\ Goto(p, "staged")
    /\ UNCHANGED <<storeVars, hot, callVars, pending, completed, chain, uncertain, snap, notes, calls>>

Stage(p) ==
    /\ pc[p] = "staged"
    /\ completed' = [completed EXCEPT ![p] = Append(@, gen[p])]
    /\ pending' = [pending EXCEPT ![p] = <<>>]
    /\ IF job[p] = "baseline_ready" \/ Len(completed[p]) + 1 >= Every[TaskOf[p]]
       THEN Goto(p, "snapshot") /\ UNCHANGED planLock
       ELSE Goto(p, "generate") /\ Unlock
    /\ UNCHANGED <<storeVars, hot, job, callVars, latest, chain, uncertain, snap, notes, calls>>

(* Mutant: the tail is flushed at the normal end only. *)
FlushesAtEnd(p) == completed[p] # <<>> /\ pc[p] # "failing"

FlushesTail(p) == completed[p] # <<>>

(* flush_completed: at the normal end, and first thing after a failure. *)
Flush(p) ==
    /\ \/ pc[p] = "generate" /\ gen[p] >= MaxGen
       \/ pc[p] = "failing" /\ uncertain[p] = "none"
    /\ planLock = {}
    /\ IF FlushesTail(p)
       THEN /\ Lock(p)
            /\ job' = [job EXCEPT ![p] = IF pc[p] = "failing" THEN "flush_failure" ELSE "flush_terminal"]
            /\ Goto(p, "snapshot")
       ELSE /\ Goto(p, IF pc[p] = "failing" THEN "fail_event" ELSE "complete")
            /\ UNCHANGED <<job, planLock>>
    /\ UNCHANGED <<storeVars, hot, callVars, writerVars, snap, notes, calls>>

(* complete_operation, and the forced failed/interrupted event. *)
EnterEvent(p) ==
    /\ pc[p] \in {"complete", "fail_event"} /\ Lock(p)
    /\ job' = [job EXCEPT ![p] = IF pc[p] = "complete" THEN "completed" ELSE "failed"]
    /\ Goto(p, "snapshot")
    /\ UNCHANGED <<storeVars, hot, callVars, writerVars, snap, notes, calls>>

(* Any exception leaves the critical section and is handled by the same      *)
(* call; a second one while failing is only added as a note, and the attempt *)
(* is not recorded.                                                          *)
Escape(p, outcome, buffered, links) ==
    /\ Unlock
    /\ IF job[p] \in {"flush_failure", "failed"}
       THEN End(p)
       ELSE /\ Goto(p, "failing")
            /\ uncertain' = [uncertain EXCEPT ![p] = outcome]
            /\ pending' = [pending EXCEPT ![p] = buffered]
            /\ chain' = [chain EXCEPT ![p] = links]
            /\ UNCHANGED <<job, callVars, completed, latest, snap>>

Raise(p, outcome) == Escape(p, outcome, pending[p], chain[p])

(* The committed snapshot read at the head of _publish; a journal left by    *)
(* another caller makes it fail before the publication is marked uncertain.  *)
Snapshot(p) ==
    LET t == TaskOf[p] IN
    /\ pc[p] = "snapshot"
    /\ \/ hot /\ Raise(p, "none")
       \/ /\ ~hot
          /\ snap' = [snap EXCEPT ![p] = [rev |-> Len(history[t]), seq |-> nextSeq[t]]]
          /\ Goto(p, "commit")
          /\ UNCHANGED <<planLock, job, callVars, writerVars>>
    /\ UNCHANGED <<storeVars, hot, notes, calls>>

(* The transaction commits and is acknowledged. *)
Commit(p) ==
    /\ pc[p] = "commit" /\ PublishAccepted(p)
    /\ Publish(p)
    /\ hot' = FALSE
    /\ Goto(p, "clear")
    /\ UNCHANGED <<planLock, job, callVars, writerVars, snap, notes, calls>>

(* Another attempt became current, or the stream moved. *)
Reject(p) ==
    /\ pc[p] = "commit" /\ ~PublishAccepted(p)
    /\ Raise(p, "not_committed")
    /\ hot' = FALSE
    /\ UNCHANGED <<storeVars, notes, calls>>

(* COMMIT raises.  The marker read back decides what the writer is told; a   *)
(* journal that needs rollback makes the outcome unknowable.                 *)
CommitError(p) ==
    /\ CommitFaults
    /\ pc[p] = "commit" /\ PublishAccepted(p)
    /\ \E outcome \in {"committed", "not_committed", "unknown"}, applied \in BOOLEAN :
          /\ outcome = "committed" => applied
          /\ outcome = "not_committed" => ~applied
          /\ IF applied THEN Publish(p) ELSE UNCHANGED storeVars
          /\ hot' = (outcome = "unknown" /\ ~applied)
          /\ Raise(p, outcome)
    /\ UNCHANGED <<notes, calls>>

(* Mutant: the published segments stay staged. *)
KeepStaged(p) == UNCHANGED <<completed, latest>>

EmptyStaged(p) ==
    /\ completed' = [completed EXCEPT ![p] = <<>>]
    /\ latest' = [latest EXCEPT ![p] = NoState]

(* After the acknowledgement the writer adopts the new evidence links and    *)
(* its staged part is emptied.                                               *)
Clear(p) ==
    /\ pc[p] = "clear"
    /\ chain' = [chain EXCEPT ![p] = ChainAfter(@, PublishedSegments(p))]
    /\ IF job[p] \in SegmentJobs
       THEN EmptyStaged(p) /\ UNCHANGED pending
       ELSE /\ pending' = [pending EXCEPT ![p] = <<>>]
            /\ UNCHANGED <<completed, latest>>
    /\ IF job[p] = "failed"
       THEN Goto(p, "record") /\ UNCHANGED planLock
       ELSE Goto(p, "notify") /\ Unlock
    /\ UNCHANGED <<storeVars, hot, job, callVars, uncertain, snap, notes, calls>>

(* update_attempt(status="failure" | "interrupted"): not guarded by currency. *)
Record(p) ==
    LET t == TaskOf[p] IN
    /\ pc[p] = "record"
    /\ history' = [history EXCEPT ![t] = Append(@, Change("failure", attempt[p], gen[p], NoEvent))]
    /\ hot' = FALSE
    /\ Unlock
    /\ End(p)
    /\ UNCHANGED <<nextSeq, attempts, checkpoints, selected, notes, calls>>

(* Mutant: the callback reports the generation the optimizer is at. *)
NotifyOptimizerGen(p) == IF job[p] = "resumed" THEN resume[p].gen ELSE gen[p]

(* A flushed tail that holds only the baseline has no generation to notify. *)
NotifyGen(p) ==
    IF job[p] = "resumed" THEN resume[p].gen
    ELSE IF job[p] = "completed" THEN gen[p]
    ELSE IF job[p] = "baseline_ready" \/ chain[p] = <<>> THEN 0
    ELSE LastOf(chain[p])

(* The user's callback runs outside every lock. *)
Deliver(p) ==
    notes' = IF job[p] \in FlushJobs /\ chain[p] = <<>> THEN notes
             ELSE notes \cup {[kind |-> job[p], task |-> TaskOf[p],
                               attempt |-> attempt[p], gen |-> NotifyGen(p)]}

AfterNotify == [resumed |-> "generate", baseline_ready |-> "generate",
                generation_ready |-> "generate", flush_terminal |-> "complete",
                flush_failure |-> "fail_event"]

Notify(p) ==
    /\ pc[p] = "notify"
    /\ Deliver(p)
    /\ \/ job[p] = "completed" /\ End(p)
       \/ /\ job[p] # "completed"
          /\ Goto(p, AfterNotify[job[p]])
          /\ UNCHANGED <<job, callVars, writerVars, snap>>
    /\ UNCHANGED <<storeVars, hot, planLock, calls>>

(* Mutant: nothing remembers that the operation has completed. *)
AnyNotice == {"resumed", "baseline_ready", "generation_ready", "flush_terminal", "completed"}

(* The notifications whose failure is the failure of the attempt. *)
FailingNotices == {"resumed", "baseline_ready", "generation_ready", "flush_terminal"}

(* A callback that raises fails the operation; while a failure is being      *)
(* recorded it is only added as a note, and after the completed event the    *)
(* committed result stays.                                                   *)
CallbackRaises(p) ==
    /\ Faults
    /\ pc[p] = "notify" /\ job[p] \in FailingNotices
    /\ Deliver(p)
    /\ Goto(p, "failing")
    /\ UNCHANGED <<storeVars, hot, planLock, job, callVars, writerVars, snap, calls>>

(* A numerical error, an authority error or KeyboardInterrupt between the    *)
(* writer's critical sections.  Before the writer exists, and while the      *)
(* failure is being recorded, nothing more is recorded.                      *)
Fault(p) ==
    /\ Faults
    /\ \/ /\ pc[p] \in {"lookup", "reuse", "begin", "open", "failing", "fail_event"}
          /\ End(p)
       \/ /\ pc[p] \in {"announce", "baseline", "generate", "evaluated", "barrier", "complete"}
          /\ Goto(p, "failing")
          /\ UNCHANGED <<job, callVars, writerVars, snap>>
    /\ UNCHANGED <<storeVars, hot, planLock, notes, calls>>

(* COMMIT raises in one of the small fact transactions.  begin_attempt and   *)
(* the final update_attempt end the call; a failed "running" update is       *)
(* recorded by the writer that already exists.                               *)
FactError(p) ==
    LET t == TaskOf[p]
        a == Len(attempts[t]) + 1 IN
    /\ CommitFaults
    /\ \/ /\ pc[p] = "begin" /\ planLock = {}
          /\ \/ UNCHANGED <<attempts, history>>
             \/ /\ attempts' = [attempts EXCEPT ![t] =
                       Append(@, [from |-> resume[p].attempt, limit |-> resume[p].seq,
                                  base |-> resume[p].gen])]
                /\ history' = [history EXCEPT ![t] =
                                  Append(@, Change("attempt_begin", a, 0, NoEvent))]
          /\ End(p)
          /\ UNCHANGED planLock
       \/ /\ pc[p] = "open" /\ planLock = {} /\ ~hot
          /\ \/ UNCHANGED history
             \/ history' = [history EXCEPT ![t] =
                               Append(@, Change("running", attempt[p], 0, NoEvent))]
          /\ Goto(p, "failing")
          /\ chain' = [chain EXCEPT ![p] = resume[p].chain]
          /\ UNCHANGED <<attempts, planLock, job, callVars, pending, completed, latest,
                         uncertain, snap>>
       \/ /\ pc[p] = "record"
          /\ \/ UNCHANGED history
             \/ history' = [history EXCEPT ![t] =
                               Append(@, Change("failure", attempt[p], gen[p], NoEvent))]
          /\ Unlock
          /\ End(p)
          /\ UNCHANGED attempts
    /\ hot' \in BOOLEAN
    /\ UNCHANGED <<nextSeq, checkpoints, selected, notes, calls>>

(* KeyboardInterrupt inside the writer: between storing the state and        *)
(* staging the segment, around the transaction, or after the acknowledged    *)
(* commit and before the staged segments are emptied.                        *)
Interrupt(p) ==
    /\ AsyncSignals
    /\ \/ /\ pc[p] = "staged"
          /\ \E buffered \in {pending[p], <<>>} : Escape(p, "none", buffered, chain[p])
       \/ /\ pc[p] = "snapshot"
          /\ Raise(p, "none")
       \/ /\ pc[p] = "commit"
          /\ Raise(p, "not_committed")
       \/ /\ pc[p] = "clear"
          /\ \E links \in {chain[p], ChainAfter(chain[p], PublishedSegments(p))} :
                Escape(p, "none", pending[p], links)
       \/ /\ pc[p] = "record"
          /\ Raise(p, "none")
    /\ UNCHANGED <<storeVars, hot, notes, calls>>

(* _ensure_publishable refuses a writer whose last publication is uncertain: *)
(* the failure itself stays unrecorded.                                      *)
GiveUp(p) ==
    /\ pc[p] = "failing" /\ uncertain[p] # "none"
    /\ End(p)
    /\ UNCHANGED <<storeVars, hot, planLock, notes, calls>>

(* OperationRecorder.__exit__ finishes the operation row, which rolls back   *)
(* any journal.                                                              *)
Finish(p) ==
    /\ pc[p] = "finish" /\ planLock = {}
    /\ hot' = FALSE
    /\ Goto(p, "idle")
    /\ UNCHANGED <<storeVars, planLock, job, callVars, writerVars, snap, notes, calls>>

(* A process may be inside a COMMIT only while no other holds the lock. *)
MayTear(p) ==
    \/ pc[p] = "commit"
    \/ pc[p] = "record"
    \/ pc[p] \in {"reuse", "begin", "open", "finish"} /\ planLock = {}

Crash(p) ==
    /\ Crashes
    /\ pc[p] # "idle"
    /\ planLock' = planLock \ {p}
    /\ \/ UNCHANGED hot
       \/ MayTear(p) /\ hot' = TRUE
    /\ Forget(p)
    /\ Goto(p, "idle")
    /\ UNCHANGED <<storeVars, notes, calls>>

(* run.recover_workspace() from a fresh Run. *)
Recover(p) ==
    /\ pc[p] = "idle" /\ hot /\ planLock = {}
    /\ hot' = FALSE
    /\ UNCHANGED <<storeVars, planLock, pc, job, callVars, writerVars, snap, notes, calls>>

-----------------------------------------------------------------------------
Init ==
    /\ history = [t \in Tasks |-> <<>>]
    /\ nextSeq = [t \in Tasks |-> 0]
    /\ attempts = [t \in Tasks |-> <<>>]
    /\ checkpoints = [t \in Tasks |-> <<>>]
    /\ selected = {}
    /\ hot = FALSE
    /\ planLock = {}
    /\ pc = [p \in Procs |-> "idle"]
    /\ job = [p \in Procs |-> "none"]
    /\ attempt = [p \in Procs |-> 0]
    /\ resume = [p \in Procs |-> Fresh]
    /\ gen = [p \in Procs |-> 0]
    /\ pending = [p \in Procs |-> <<>>]
    /\ completed = [p \in Procs |-> <<>>]
    /\ latest = [p \in Procs |-> NoState]
    /\ chain = [p \in Procs |-> <<>>]
    /\ uncertain = [p \in Procs |-> "none"]
    /\ snap = [p \in Procs |-> NoSnap]
    /\ notes = {}
    /\ calls = 0

(* The steps a live call takes on its own. *)
Progress(p) ==
    \/ Lookup(p) \/ Reuse(p) \/ Begin(p) \/ Open(p) \/ Announce(p)
    \/ Evaluate(p) \/ Tell(p) \/ EnterBarrier(p) \/ Stage(p) \/ Flush(p)
    \/ EnterEvent(p) \/ Snapshot(p) \/ Commit(p) \/ Reject(p) \/ Clear(p)
    \/ Record(p) \/ Notify(p) \/ GiveUp(p) \/ Finish(p)

Disturbance(p) ==
    \/ CommitError(p) \/ FactError(p) \/ Fault(p) \/ CallbackRaises(p)
    \/ Interrupt(p) \/ Crash(p)

Next == \E p \in Procs :
            Start(p) \/ Recover(p) \/ Progress(p) \/ Disturbance(p)

Spec == Init /\ [][Next]_vars

(* A call that is not disturbed keeps running: the interpreter executes its  *)
(* next statement and flock() returns once the lock is free.  Nothing forces *)
(* a user to start or recover, or a fault to happen.                         *)
FairSpec == Spec /\ \A p \in Procs : WF_vars(Progress(p))

-----------------------------------------------------------------------------
(* Types *)

Places == {"idle", "lookup", "reuse", "begin", "open", "announce", "baseline", "generate",
           "evaluated", "barrier", "staged", "snapshot", "commit", "clear", "notify",
           "complete", "failing", "fail_event", "record", "finish"}

Kinds == EventJobs \cup BarrierJobs
            \cup {"evaluation", "attempt_begin", "running", "success", "failure"}

ChangeType == [kind: Kinds, attempt: Nat, gen: Nat, seq: Nat \cup {NoEvent}]

CheckpointType == [attempt: Nat, gen: Nat, cma: Nat, chain: Seq(Nat), seq: Int]

AttemptType == [from: Nat, limit: Int, base: Nat]

StoreType ==
    /\ history \in [Tasks -> Seq(ChangeType)]
    /\ nextSeq \in [Tasks -> Nat]
    /\ attempts \in [Tasks -> Seq(AttemptType)]
    /\ checkpoints \in [Tasks -> Seq(CheckpointType)]
    /\ selected \subseteq [task: Tasks, attempt: Nat]

SharedType ==
    /\ hot \in BOOLEAN
    /\ planLock \in SUBSET Procs
    /\ notes \subseteq [kind: SegmentJobs \cup EventJobs \cup {"result_reuse"},
                        task: Tasks, attempt: Nat, gen: Nat]
    /\ calls \in Nat

CallType ==
    /\ pc \in [Procs -> Places]
    /\ job \in [Procs -> {"none"} \cup SegmentJobs \cup EventJobs]
    /\ attempt \in [Procs -> Nat]
    /\ resume \in [Procs -> CheckpointType]
    /\ gen \in [Procs -> Nat]

WriterType ==
    /\ pending \in [Procs -> Seq(Nat)]
    /\ completed \in [Procs -> Seq(Nat)]
    /\ latest \in [Procs -> Nat \cup {NoState}]
    /\ chain \in [Procs -> Seq(Nat)]
    /\ uncertain \in [Procs -> {"none", "committed", "not_committed", "unknown"}]
    /\ snap \in [Procs -> [rev: Nat, seq: Nat]]

(* Every variable keeps its shape. *)
TypeOK == StoreType /\ SharedType /\ CallType /\ WriterType
=============================================================================
