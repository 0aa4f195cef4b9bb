------------------------ MODULE TaskWriterProperties ------------------------
(* What the generation writer must guarantee, over the states of TaskWriter. *)
EXTENDS TaskWriter

(* The barriers of an attempt in the history of its task, and their generations. *)
Ready(t, a) ==
    {i \in DOMAIN history[t] : history[t][i].kind = "generation_ready" /\ history[t][i].attempt = a}

ReadyGens(t, a) == {history[t][i].gen : i \in Ready(t, a)}

UpTo(n) == [g \in 1 .. n |-> g]

-----------------------------------------------------------------------------
(* Checkpoints and evidence *)

(* A published checkpoint is exact: the CMA/RNG state it carries is the state *)
(* after the generation it names, and its evidence links lead through every   *)
(* generation up to it, once and in order (TaskWriter.commit_barrier and      *)
(* _publish over any sequence of crashes, failures and resumes).              *)
CheckpointExact ==
    \A t \in Tasks : \A i \in DOMAIN checkpoints[t] :
        LET c == checkpoints[t][i] IN c.cma = c.gen /\ c.chain = UpTo(c.gen)

(* The event chain of a task can always be materialised: sequence numbers are *)
(* contiguous from zero and the pointer names the next one, although every    *)
(* publication takes them from a snapshot read before its transaction.        *)
EvidenceContiguous ==
    \A t \in Tasks :
        /\ \A i, j \in Events(t) : i < j => history[t][i].seq < history[t][j].seq
        /\ {history[t][i].seq : i \in Events(t)} = 0 .. nextSeq[t] - 1

(* An attempt publishes its generations one after the other from its resume   *)
(* point: no gap, no generation twice, whatever was retried or flushed.       *)
AttemptOrder ==
    \A t \in Tasks : \A a \in DOMAIN attempts[t] :
        /\ \A i, j \in Ready(t, a) : i < j => history[t][i].gen < history[t][j].gen
        /\ \A g \in ReadyGens(t, a) :
              /\ g > attempts[t][a].base
              /\ attempts[t][a].base + 1 .. g \subseteq ReadyGens(t, a)

(* Attempts are fenced: after the first event of a newer attempt no event of  *)
(* an older one is appended, although the older call may still be running.    *)
FencedHistory ==
    \A t \in Tasks : \A i, j \in DOMAIN history[t] :
        i < j /\ IsEvent(history[t][i]) /\ IsEvent(history[t][j])
            => history[t][i].attempt <= history[t][j].attempt

(* What a publication read before its transaction is still true inside it:    *)
(* the Plan lock makes the stream-revision check a second line of defence.    *)
SnapshotFresh ==
    \A p \in Procs : pc[p] = "commit" =>
        /\ snap[p].rev = Len(history[TaskOf[p]])
        /\ snap[p].seq = nextSeq[TaskOf[p]]

(* The last generation that an attempt has completed: its optimizer is at gen, *)
(* and the diagnostics of a generation stay buffered until its barrier.        *)
Unstaged(p) == \E i \in DOMAIN pending[p] : pending[p][i] = gen[p]

CompletedGen(p) == IF Unstaged(p) THEN gen[p] - 1 ELSE gen[p]

(* The completed tail is flushed, the failed event not written yet or just now. *)
RecordsFailure(p) ==
    pc[p] = "fail_event" \/ (job[p] = "failed" /\ pc[p] \in {"snapshot", "commit", "clear"})

HasBaseline(t, a) ==
    \E i \in DOMAIN history[t] : history[t][i].kind = "baseline_ready" /\ history[t][i].attempt = a

HasPoint(t, a, g) ==
    \E i \in DOMAIN checkpoints[t] : checkpoints[t][i].attempt = a /\ checkpoints[t][i].gen = g

(* When the failure of an attempt is recorded, nothing stays staged and the    *)
(* last generation the attempt completed is published, with its checkpoint if  *)
(* the policy keeps them; AttemptOrder then gives those before it.  Only the   *)
(* generation whose barrier had not staged it is lost.  A fresh attempt that   *)
(* has evaluated anything has published its baseline.                          *)
FailureKeepsTail ==
    \A p \in Procs : RecordsFailure(p) =>
        LET t == TaskOf[p]
            a == attempt[p]
            n == CompletedGen(p)
        IN /\ completed[p] = <<>>
           /\ n > resume[p].gen => n \in ReadyGens(t, a) /\ (Checkpointed[t] => HasPoint(t, a, n))
           /\ resume[p] = Fresh /\ (gen[p] > 0 \/ pending[p] # <<>>) => HasBaseline(t, a)

-----------------------------------------------------------------------------
(* Callbacks *)

NotedEvent == [resumed |-> "resumed", baseline_ready |-> "baseline_ready",
               generation_ready |-> "generation_ready", flush_terminal |-> "generation_ready",
               flush_failure |-> "generation_ready", completed |-> "completed",
               result_reuse |-> "completed"]

(* A callback only ever reports what is durable: the event it stands for is   *)
(* in the committed history, and a generation's checkpoint with it.           *)
CallbackDurable ==
    \A n \in notes :
        /\ \E i \in DOMAIN history[n.task] :
              LET e == history[n.task][i] IN
              /\ e.kind = NotedEvent[n.kind] /\ e.attempt = n.attempt
              /\ n.kind # "resumed" => e.gen = n.gen
        /\ Checkpointed[n.task] /\ n.kind \in SegmentJobs =>
              \E i \in DOMAIN checkpoints[n.task] :
                  /\ checkpoints[n.task][i].attempt = n.attempt
                  /\ checkpoints[n.task][i].gen = n.gen

GroupNotes(t, a) ==
    {n \in notes : n.task = t /\ n.attempt = a /\ n.kind \in SegmentJobs \cup {"resumed"}}

(* Within an attempt the callback sees strictly later generations each time:  *)
(* once per committed group, never a group again after a failure.             *)
CallbackOrder ==
    [][\A n \in notes' \ notes : n.kind \in SegmentJobs =>
           \A m \in GroupNotes(n.task, n.attempt) : m.gen < n.gen]_vars

-----------------------------------------------------------------------------
(* The selected result *)

(* What _task_document_from_chain derives the status of an attempt from. *)
StatusChanges(t, a) ==
    {i \in DOMAIN history[t] :
        /\ history[t][i].attempt = a
        /\ history[t][i].kind \in
              {"attempt_begin", "running", "success", "completed", "failed", "failure"}}

StatusOf == [attempt_begin |-> "allocated", running |-> "running", success |-> "success",
             completed |-> "success", failed |-> "failure", failure |-> "failure"]

(* A terminal update waits for the terminal event of its attempt, and then   *)
(* overrides it; after that event every change counts at once.               *)
LastIn(rows) == CHOOSE i \in rows : \A j \in rows : j <= i

Status(t, a) ==
    LET rows       == StatusChanges(t, a)
        ofKinds(K) == {i \in rows : history[t][i].kind \in K}
        ends       == ofKinds({"completed", "failed"})
        waiting    == ofKinds({"success", "failure"})
        decisive   ==
            IF ends = {} THEN LastIn(rows \ waiting)
            ELSE IF ends = {LastIn(rows)} /\ waiting # {} THEN LastIn(waiting)
            ELSE LastIn(rows)
    IN StatusOf[history[t][decisive].kind]

(* find_operation_success finds the selected attempt and accepts it: a later  *)
(* failure record never takes back a selected success.                        *)
SelectedReadable ==
    \A s \in selected : Status(s.task, s.attempt) = "success"

(* event_limits of _project_python_observations: the attempt itself up to its *)
(* terminal event, every ancestor up to the checkpoint that was resumed.  The *)
(* walk visits the least set with the attempt and what its members resume.    *)
Ancestors(t, a) ==
    {b \in DOMAIN attempts[t] :
        \A visited \in SUBSET DOMAIN attempts[t] :
            /\ a \in visited
            /\ \A c \in visited : attempts[t][c].from # 0 => attempts[t][c].from \in visited
            => b \in visited}

Projected(t, a, terminal) ==
    {i \in Events(t) :
        LET e == history[t][i] IN
        \/ e.attempt = a /\ e.seq <= terminal
        \/ \E c \in Ancestors(t, a) :
              e.attempt = attempts[t][c].from /\ e.seq <= attempts[t][c].limit}

(* The observations a selected result is decoded from: its baseline and every *)
(* generation's evaluations exactly once, however many attempts it took.      *)
ExactlyOne(S) == \E i \in S : S = {i}

Complete(t, a, terminal) ==
    LET of(kind, g) == {i \in Projected(t, a, terminal) :
                           history[t][i].kind = kind /\ history[t][i].gen = g}
    IN /\ ExactlyOne(of("baseline_ready", 0))
       /\ \A g \in 1 .. MaxGen : ExactlyOne(of("evaluation", g))

SelectedComplete ==
    \A s \in selected :
        LET done == {i \in Events(s.task) : history[s.task][i].kind = "completed"
                                            /\ history[s.task][i].attempt = s.attempt}
        IN /\ ExactlyOne(done)
           /\ \A d \in done : Complete(s.task, s.attempt, history[s.task][d].seq)

-----------------------------------------------------------------------------
(* Progress *)

(* Whatever happens to it, a call ends: no lock, journal or superseding call  *)
(* keeps it forever.                                                          *)
EveryCallEnds == \A p \in Procs : pc[p] # "idle" ~> pc[p] = "idle"

-----------------------------------------------------------------------------
(* Refinement *)

LastPublished(t, a) ==
    IF Ready(t, a) # {} THEN CHOOSE g \in ReadyGens(t, a) : \A h \in ReadyGens(t, a) : h <= g
    ELSE IF attempts[t][a].from # 0 THEN attempts[t][a].base
    ELSE IF \E i \in DOMAIN history[t] : history[t][i].kind = "baseline_ready"
                                         /\ history[t][i].attempt = a
    THEN 0 ELSE -1

Ledger == INSTANCE GenerationLedger WITH
    upto   <- [t \in Tasks |-> [a \in DOMAIN attempts[t] |-> LastPublished(t, a)]],
    points <- [t \in Tasks |-> {<<checkpoints[t][i].attempt, checkpoints[t][i].gen>> :
                                i \in DOMAIN checkpoints[t]}],
    winner <- {<<s.task, s.attempt>> : s \in selected}

(* The writer implements the ledger the documentation promises. *)
ImplementsLedger == Ledger!LedgerSpec
=============================================================================
