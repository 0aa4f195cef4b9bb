------------------------- MODULE TaskWriterOutcome -------------------------
(***************************************************************************)
(* What the events of an attempt add up to, for every value of the constants *)
(* and as long as no KeyboardInterrupt lands inside the writer               *)
(* (~AsyncSignals): its generations in order, a readable selected result,    *)
(* the ledger the documentation promises, and the whole observation that a   *)
(* selected result is decoded from.                                          *)
(***************************************************************************)
EXTENDS TaskWriterEvidence

-----------------------------------------------------------------------------
(* The inductive invariant of the ledger: what of an attempt is published *)

(* How far the attempt is published: unknown after an uncertain publication. *)
Published(p) ==
    IF pc[p] = "clear" THEN {Len(Reached(p))}
    ELSE IF uncertain[p] = "none" THEN {Len(chain[p])}
    ELSE {Len(chain[p]), Len(Reached(p))}

UpToPoint(p, n) ==
    /\ ReadyGens(TaskOf[p], attempt[p]) = resume[p].gen + 1 .. n
    /\ pc[p] # "open" => n >= resume[p].gen
    /\ Checkpointed[TaskOf[p]] /\ n > resume[p].gen => HasPoint(TaskOf[p], attempt[p], n)

(* A fresh attempt publishes its baseline before anything else, once. *)
BaselineDue(p) ==
    \/ pc[p] = "open" \/ AtBaseline(p)
    \/ completed[p] = <<0>> /\ pc[p] # "clear" /\ uncertain[p] = "none"

BaselineDone(p) ==
    \/ pc[p] \in {"generate", "evaluated", "complete"} \/ AtBarrier(p)
    \/ Telling(p) /\ job[p] \in {"generation_ready", "flush_terminal", "completed"}
    \/ pc[p] = "notify" /\ job[p] = "baseline_ready"
    \/ pc[p] = "clear" /\ completed[p] = <<0>>
    \/ completed[p] # <<>> /\ completed[p] # <<0>>

BaselineOK(p) ==
    /\ BaselineDue(p) => ~HasBaseline(TaskOf[p], attempt[p])
    /\ resume[p] = Fresh /\ BaselineDone(p) => HasBaseline(TaskOf[p], attempt[p])

(* What a call resumes from was published, and a fresh one announces nothing. *)
OriginOK(p) ==
    /\ resume[p] = Fresh
       \/ \E i \in DOMAIN checkpoints[TaskOf[p]] : resume[p] = checkpoints[TaskOf[p]][i]
    /\ pc[p] \in Unclaimed \cup {"open"} => gen[p] = 0
    /\ pc[p] = "announce" \/ (Telling(p) /\ job[p] = "resumed") => resume[p] # Fresh

FactOK(p) == attempts[TaskOf[p]][attempt[p]] = AttemptFact(p)

ReachOK(p) == gen[p] <= Len(Reached(p)) + 1

PointOK(p) == \E n \in Published(p) : UpToPoint(p, n)

(* A generation that is neither linked nor staged is in the buffer, and only   *)
(* that one; a writer that could not be opened has not got to its checkpoint.  *)
Buffered(p) ==
    /\ gen[p] > Len(Reached(p)) <=> Unstaged(p)
    /\ gen[p] <= resume[p].gen \/ gen[p] >= Len(Reached(p))

(* The failed event archives the buffer; nothing is evaluated before a baseline. *)
TailOK(p) ==
    /\ pc[p] # "record" => Buffered(p)
    /\ pc[p] = "evaluated" => \E i \in DOMAIN pending[p] : pending[p][i] = gen[p] + 1
    /\ resume[p] = Fresh /\ (gen[p] > 0 \/ pending[p] # <<>>) =>
          HasBaseline(TaskOf[p], attempt[p])

LedgerAt(p) ==
    /\ OriginOK(p)
    /\ attempt[p] # 0 => FactOK(p) /\ ReachOK(p) /\ PointOK(p) /\ BaselineOK(p) /\ TailOK(p)

HistoryBound ==
    \A t \in Tasks : \A i \in DOMAIN history[t] : history[t][i].attempt \in 1 .. Current(t)

LedgerInv ==
    ExactInv /\ StageInv /\ HistoryBound /\ AttemptOrder /\ \A p \in Procs : LedgerAt(p)

(* The completed event ends the history of its attempt. *)
Finished(p) ==
    \/ pc[p] \in {"clear", "notify"} /\ job[p] = "completed"
    \/ uncertain[p] # "none"

CompletedLast ==
    \A t \in Tasks : \A i \in DOMAIN history[t] : history[t][i].kind = "completed" =>
        /\ i + 1 \in DOMAIN history[t]
        /\ history[t][i + 1].kind = "success" /\ history[t][i + 1].attempt = history[t][i].attempt
        /\ \A j \in DOMAIN history[t] : j > i + 1 => history[t][j].attempt # history[t][i].attempt
        /\ \A p \in Procs : TaskOf[p] = t /\ attempt[p] = history[t][i].attempt => Finished(p)

-----------------------------------------------------------------------------
(* What a step adds to a history *)

(* The k-th change of a publication: the baseline, a generation's evaluation  *)
(* or barrier, a diagnostic, the event itself or the success that goes with it. *)
BaselineChange(p, k, c) ==
    /\ job[p] \in SegmentJobs /\ completed[p] = <<0>> /\ k = 1 /\ Len(NewChanges(p)) = 1
    /\ c.kind = "baseline_ready" /\ c.gen = 0 /\ c.seq = snap[p].seq

GenerationChange(p, k, c) ==
    /\ job[p] \in SegmentJobs /\ GenerationsStaged(p)
    /\ \E m \in 1 .. Len(completed[p]) :
          /\ c.gen = completed[p][m]
          /\ \/ k = 2 * m - 1 /\ c.kind = "evaluation"
             \/ k = 2 * m /\ c.kind = "generation_ready"

DiagnosticChange(p, k, c) ==
    job[p] \in EventJobs /\ k \in 1 .. Len(pending[p]) /\ c.kind = "evaluation" /\ c.gen = pending[p][k]

EventChange(p, k, c) ==
    job[p] \in EventJobs /\ k = Len(pending[p]) + 1 /\ c.kind = job[p] /\ c.gen = gen[p]

SuccessChange(p, k, c) ==
    job[p] = "completed" /\ k = Len(pending[p]) + 2 /\ c.kind = "success" /\ c.gen = gen[p]

PublishedChange(p, k, c) ==
    /\ c.attempt = attempt[p]
    /\ \/ BaselineChange(p, k, c) \/ GenerationChange(p, k, c)
       \/ DiagnosticChange(p, k, c) \/ EventChange(p, k, c) \/ SuccessChange(p, k, c)

LEMMA PublishedChanges ==
    ASSUME StageInv, NEW p \in Procs, pc[p] = "commit", NEW k \in 1 .. Len(NewChanges(p))
    PROVE  PublishedChange(p, k, NewChanges(p)[k])
<1>0. TypeInv /\ StageAt(p) /\ job[p] \in SegmentJobs \cup EventJobs /\ Len(pending[p]) \in Nat
  <2>1. TypeInv /\ StageAt(p) /\ pending[p] \in Seq(Nat)
    BY DEF StageInv, TypeInv, TypeOK, WriterType
  <2>2. job[p] \in SegmentJobs \cup EventJobs
    BY <2>1 DEF TypeInv, JobOK, JobAt
  <2> QED BY <2>1, <2>2, LenProperties
<1>1. CASE job[p] \in SegmentJobs /\ completed[p] = <<0>>
  <2>1. NewChanges(p) = <<Change("baseline_ready", attempt[p], 0, snap[p].seq)>>
    BY <1>1, BaselineChanges
  <2>2. k = 1 /\ Len(NewChanges(p)) = 1
    BY <2>1
  <2> QED BY <1>1, <2>1, <2>2 DEF PublishedChange, BaselineChange, Change
<1>2. CASE job[p] \in SegmentJobs /\ completed[p] # <<0>>
  <2>1. GenerationsStaged(p)
    BY <1>0, <1>2 DEF StageAt, StagedOK, BaselineStaged
  <2>2. k \in 1 .. 2 * Len(completed[p])
    BY <1>0, <1>2, <2>1, GenerationChanges
  <2>3. PICK m \in 1 .. Len(completed[p]) : k = 2 * m - 1 \/ k = 2 * m
    BY <1>0, <1>2, <2>1, <2>2, GenerationChanges
  <2>4. \/ k = 2 * m - 1
           /\ NewChanges(p)[k] = Change("evaluation", attempt[p], completed[p][m], snap[p].seq + 2 * m - 2)
        \/ k = 2 * m
           /\ NewChanges(p)[k] = Change("generation_ready", attempt[p], completed[p][m], snap[p].seq + 2 * m - 1)
    BY <1>0, <1>2, <2>1, <2>3, GenerationChanges
  <2> QED BY <1>2, <2>1, <2>4 DEF PublishedChange, GenerationChange, Change
<1>3. CASE job[p] \in EventJobs
  <2>1. /\ EventShape(job[p], attempt[p], pending[p], gen[p], snap[p].seq)
        /\ NewChanges(p) = EventChanges(job[p], attempt[p], pending[p], gen[p], snap[p].seq)
    BY <1>0, <1>3, ChangesOfEvent
  <2>2. Len(NewChanges(p)) = IF job[p] = "completed" THEN Len(pending[p]) + 2 ELSE Len(pending[p]) + 1
    BY <2>1 DEF EventShape
  <2>3. \/ k \in 1 .. Len(pending[p]) \/ k = Len(pending[p]) + 1
        \/ job[p] = "completed" /\ k = Len(pending[p]) + 2
    BY <1>0, <2>2
  <2>4. CASE k \in 1 .. Len(pending[p])
    <3>1. NewChanges(p)[k] = Change("evaluation", attempt[p], pending[p][k], snap[p].seq + k - 1)
      BY <2>1, <2>4 DEF EventShape
    <3> QED BY <1>3, <2>4, <3>1 DEF PublishedChange, DiagnosticChange, Change
  <2>5. CASE k = Len(pending[p]) + 1
    <3>1. NewChanges(p)[k] = Change(job[p], attempt[p], gen[p], snap[p].seq + Len(pending[p]))
      BY <2>1, <2>5 DEF EventShape
    <3> QED BY <1>3, <2>5, <3>1 DEF PublishedChange, EventChange, Change
  <2>6. CASE job[p] = "completed" /\ k = Len(pending[p]) + 2
    <3>1. NewChanges(p)[k] = Change("success", attempt[p], gen[p], NoEvent)
      BY <2>1, <2>6 DEF EventShape
    <3> QED BY <2>6, <3>1 DEF PublishedChange, SuccessChange, Change
  <2> QED BY <2>3, <2>4, <2>5, <2>6
<1> QED BY <1>0, <1>1, <1>2, <1>3

(* A change that was not there before the step. *)
NewAt(t, i) == i \in DOMAIN history'[t] /\ i \notin DOMAIN history[t]

Allocation(p, c) == Begins(p) /\ c.kind = "attempt_begin" /\ c.attempt = Current(TaskOf[p]) + 1

Update(p, c) ==
    /\ Updates(p) /\ c.attempt = attempt[p]
    /\ \/ pc[p] = "open" /\ c.kind = "running"
       \/ pc[p] = "record" /\ c.kind = "failure"

LEMMA StepAdds ==
    ASSUME StageInv, ConstantAssumption, NEW p \in Procs, Step(p), NEW t \in Tasks, NEW i, NewAt(t, i)
    PROVE  /\ t = TaskOf[p] /\ i > Len(history[t]) /\ i \in Nat /\ Len(history[t]) \in Nat
           /\ \/ Allocation(p, history'[t][i]) /\ i = Len(history[t]) + 1
              \/ Update(p, history'[t][i]) /\ i = Len(history[t]) + 1
              \/ /\ Publishes(p) /\ i - Len(history[t]) \in 1 .. Len(NewChanges(p))
                 /\ history'[t][i] = NewChanges(p)[i - Len(history[t])]
<1>0. TypeInv /\ history[t] \in Seq(ChangeType) /\ TaskOf[p] \in Tasks
  BY DEF StageInv, TypeInv, TypeOK, StoreType, ConstantAssumption
<1>1. Len(history[t]) \in Nat /\ DOMAIN history[t] = 1 .. Len(history[t])
  BY <1>0, LenProperties
<1>2. CASE UNCHANGED storeVars
  BY <1>2 DEF storeVars, NewAt
<1>3. CASE Begins(p)
  <2>1. OnlyTask(TaskOf[p])
        /\ Extends(TaskOf[p], <<Change("attempt_begin", Current(TaskOf[p]) + 1, 0, NoEvent)>>)
    BY <1>0, <1>3, BeginsStore
  <2>2. t = TaskOf[p]
    BY <2>1 DEF OnlyTask, NewAt
  <2> DEFINE c == Change("attempt_begin", Current(TaskOf[p]) + 1, 0, NoEvent)
  <2>3. history'[t] = history[t] \o <<c>> /\ <<c>> \in Seq(ChangeType)
    BY <2>1, <2>2 DEF Extends
  <2>4. c.kind = "attempt_begin" /\ c.attempt = Current(TaskOf[p]) + 1 /\ <<c>>[1] = c /\ Len(<<c>>) = 1
    BY DEF Change
  <2> HIDE DEF c
  <2>5. DOMAIN history'[t] = 1 .. Len(history[t]) + 1
        /\ history'[t][Len(history[t]) + 1] = <<c>>[1]
    <3>1. 1 \in 1 .. Len(<<c>>)
      BY <2>4
    <3> QED BY <1>0, <2>3, <2>4, <3>1, Joined
  <2>6. i = Len(history[t]) + 1
    BY <1>1, <2>5 DEF NewAt
  <2> QED BY <1>1, <1>3, <2>2, <2>4, <2>5, <2>6 DEF Allocation
<1>4. CASE Updates(p)
  <2>1. PICK c \in ChangeType :
           /\ \/ pc[p] = "open" /\ c = Change("running", attempt[p], 0, NoEvent)
              \/ pc[p] = "record" /\ c = Change("failure", attempt[p], gen[p], NoEvent)
           /\ Extends(TaskOf[p], <<c>>)
    BY <1>0, <1>4, UpdatesStore
  <2>2. OnlyTask(TaskOf[p])
    BY <1>0, <1>4, UpdatesStore
  <2>3. t = TaskOf[p]
    BY <2>2 DEF OnlyTask, NewAt
  <2>4. history'[t] = history[t] \o <<c>> /\ <<c>> \in Seq(ChangeType)
    BY <2>1, <2>3 DEF Extends
  <2>5. /\ c.attempt = attempt[p]
        /\ \/ pc[p] = "open" /\ c.kind = "running"
           \/ pc[p] = "record" /\ c.kind = "failure"
        /\ <<c>>[1] = c /\ Len(<<c>>) = 1 /\ 1 \in 1 .. Len(<<c>>)
    BY <2>1 DEF Change
  <2>6. DOMAIN history'[t] = 1 .. Len(history[t]) + 1
        /\ history'[t][Len(history[t]) + 1] = <<c>>[1]
    BY <1>0, <2>4, <2>5, Joined
  <2>7. i = Len(history[t]) + 1
    BY <1>1, <2>6 DEF NewAt
  <2> QED BY <1>1, <1>4, <2>3, <2>5, <2>6, <2>7 DEF Update
<1>5. CASE Publishes(p)
  <2>1. OnlyTask(TaskOf[p])
    BY <1>0, <1>5, PublishesStore
  <2>2. t = TaskOf[p]
    BY <2>1 DEF OnlyTask, NewAt
  <2>3. /\ Len(NewChanges(p)) \in Nat
        /\ DOMAIN history'[t] = 1 .. Len(history[t]) + Len(NewChanges(p))
        /\ \A k \in 1 .. Len(NewChanges(p)) : history'[t][Len(history[t]) + k] = NewChanges(p)[k]
    BY <1>0, <1>5, <2>2, PublishesHistory
  <2>4. i - Len(history[t]) \in 1 .. Len(NewChanges(p)) /\ i > Len(history[t]) /\ i \in Nat
        /\ Len(history[t]) + (i - Len(history[t])) = i
    BY <1>1, <2>3 DEF NewAt
  <2>5. history'[t][i] = NewChanges(p)[i - Len(history[t])]
    BY <2>3, <2>4
  <2> QED BY <1>1, <1>5, <2>2, <2>4, <2>5
<1> QED BY <1>2, <1>3, <1>4, <1>5, StoreShape

(* The attempt of a new change: the one just allocated, or the caller's own. *)
LEMMA StepAttempt ==
    ASSUME StageInv, ConstantAssumption, NEW p \in Procs, Step(p), NEW t \in Tasks, NEW i, NewAt(t, i)
    PROVE  /\ t = TaskOf[p] /\ Current(t) \in Nat
           /\ \/ Begins(p) /\ history'[t][i].attempt = Current(t) + 1 /\ history'[t][i].kind = "attempt_begin"
              \/ /\ history'[t][i].attempt = attempt[p] /\ attempt[p] \in 1 .. Current(t)
                 /\ pc[p] \in {"open", "record", "commit"}
<1>0. TypeInv /\ StageAt(p) /\ CallTypes(p)
  BY CallTyped DEF StageInv
<1>1. pc[p] \in {"open", "record", "commit"} => attempt[p] \in 1 .. Current(TaskOf[p])
  BY <1>0 DEF StageAt, ClaimOK, Unclaimed, CallTypes
<1>2. t = TaskOf[p] /\ Current(t) \in Nat
  BY <1>0, StepAdds DEF CallTypes
<1>3. CASE Allocation(p, history'[t][i])
  BY <1>2, <1>3 DEF Allocation
<1>4. CASE Update(p, history'[t][i])
  BY <1>1, <1>2, <1>4 DEF Update
<1>5. CASE /\ Publishes(p) /\ i - Len(history[t]) \in 1 .. Len(NewChanges(p))
           /\ history'[t][i] = NewChanges(p)[i - Len(history[t])]
  BY <1>1, <1>2, <1>5, PublishedChanges DEF PublishedChange, Publishes
<1> QED BY <1>2, <1>3, <1>4, <1>5, StepAdds

-----------------------------------------------------------------------------
(* The completed event of an attempt *)

CompletedInv == StageInv /\ SelectedDone /\ HistoryBound /\ CompletedLast

LEMMA StepBound ==
    ASSUME StageInv, HistoryBound, ConstantAssumption, NEW p \in Procs, Step(p)
    PROVE  HistoryBound'
<1> SUFFICES ASSUME NEW t \in Tasks, NEW i \in DOMAIN history'[t]
             PROVE  history'[t][i].attempt \in 1 .. Current(t)'
  BY DEF HistoryBound
<1>0. TypeInv /\ Keeps(t)
  BY StepKeeps DEF StageInv
<1>1. Current(t) \in Nat /\ Current(t)' \in Nat /\ Current(t)' >= Current(t)
      /\ (t = TaskOf[p] /\ Begins(p) => Current(t)' = Current(t) + 1)
  <2>1. Current(t) \in Nat
    BY <1>0, LenProperties DEF TypeInv, TypeOK, StoreType, Current
  <2>2. CASE Begins(p) /\ t = TaskOf[p]
    <3>1. Current(TaskOf[p])' = Current(TaskOf[p]) + 1
      BY <1>0, <2>2, BeginsStore
    <3>2. Current(t)' = Current(t) + 1
      BY <2>2, <3>1 DEF Current
    <3> QED BY <2>1, <3>2
  <2>3. CASE ~(Begins(p) /\ t = TaskOf[p])
    <3>1. attempts'[t] = attempts[t]
      BY <1>0, <2>3, StoreShape, BeginsStore DEF OnlyTask, storeVars, Updates, Publishes, Publish
    <3> QED BY <2>1, <2>3, <3>1 DEF Current
  <2> QED BY <2>2, <2>3
<1>2. CASE i \in DOMAIN history[t]
  <2>1. history'[t][i] = history[t][i] /\ history[t][i].attempt \in 1 .. Current(t)
    BY <1>0, <1>2 DEF Keeps, HistoryBound
  <2> QED BY <1>1, <2>1
<1>3. CASE i \notin DOMAIN history[t]
  <2>1. NewAt(t, i)
    BY <1>3 DEF NewAt
  <2> QED BY <1>1, <2>1, StepAttempt
<1> QED BY <1>2, <1>3

(* Once the completed event is published, its caller says so and leaves. *)
LEMMA FinishedStays ==
    ASSUME StageInv, ConstantAssumption, ~AsyncSignals, NEW p \in Procs, Move(p), Finished(p),
           attempt'[p] = attempt[p], attempt[p] # 0
    PROVE  Finished(p)'
<1>0. \/ pc[p] \in {"clear", "notify"} /\ job[p] = "completed"
      \/ uncertain[p] # "none" /\ pc[p] = "failing"
  BY DEF StageInv, StageAt, ClaimOK, Finished
<1>1. CASE Walks(p)
  BY <1>0, <1>1 DEF Walks, WalksOutside, WalksIn, WalksOut, FailingNotices
<1>2. CASE Clears(p)
  BY <1>0, <1>2 DEF Clears, Finished
<1>3. CASE Escapes(p)
  BY <1>0, <1>3 DEF Escapes, Holding
<1>4. CASE Leaves(p)
  BY <1>4 DEF Leaves
<1>5. CASE Allocates(p)
  BY <1>0, <1>5 DEF Allocates, Begins
<1>6. CASE Starts(p) \/ Opens(p) \/ Evaluates(p) \/ Tells(p)
  BY <1>0, <1>6 DEF Starts, Opens, Evaluates, Tells
<1>7. CASE StoresState(p) \/ Stages(p) \/ Commits(p)
  BY <1>0, <1>7 DEF StoresState, Stages, Commits, Publishes
<1> QED BY <1>1, <1>2, <1>3, <1>4, <1>5, <1>6, <1>7 DEF Move

(* A change of the kind "completed" is published with the success after it. *)
LEMMA CompletedPublished ==
    ASSUME StageInv, ConstantAssumption, NEW p \in Procs, Step(p), Move(p), NEW t \in Tasks, NEW i,
           NewAt(t, i), history'[t][i].kind = "completed"
    PROVE  /\ t = TaskOf[p] /\ history'[t][i].attempt = attempt[p] /\ attempt[p] # 0
           /\ i + 1 \in DOMAIN history'[t] /\ DOMAIN history'[t] = 1 .. i + 1
           /\ history'[t][i + 1].kind = "success" /\ history'[t][i + 1].attempt = attempt[p]
           /\ attempt'[p] # 0 => Finished(p)'
<1>0. TypeInv /\ StageAt(p) /\ CallTypes(p)
  BY CallTyped DEF StageInv
<1>1. t = TaskOf[p] /\ i > Len(history[t]) /\ i \in Nat /\ Len(history[t]) \in Nat
  BY StepAdds
<1> DEFINE k == i - Len(history[t])
<1>2. Publishes(p) /\ k \in 1 .. Len(NewChanges(p)) /\ history'[t][i] = NewChanges(p)[k]
  <2>1. /\ ~Allocation(p, history'[t][i]) /\ ~Update(p, history'[t][i])
    BY DEF Allocation, Update
  <2> QED BY <2>1, StepAdds
<1>3. PublishedChange(p, k, NewChanges(p)[k])
  <2>1. pc[p] = "commit"
    BY <1>2 DEF Publishes
  <2> HIDE DEF k
  <2> QED BY <1>2, <2>1, PublishedChanges
<1>4. job[p] = "completed" /\ k = Len(pending[p]) + 1 /\ history'[t][i].attempt = attempt[p]
  BY <1>2, <1>3 DEF PublishedChange, BaselineChange, GenerationChange, DiagnosticChange, EventChange,
     SuccessChange
<1>5. /\ Len(pending[p]) \in Nat /\ Len(NewChanges(p)) = Len(pending[p]) + 2
      /\ NewChanges(p)[Len(pending[p]) + 2] = Change("success", attempt[p], gen[p], NoEvent)
  <2>1. job[p] \in EventJobs /\ pc[p] = "commit"
    BY <1>2, <1>4 DEF EventJobs, Publishes
  <2> QED BY <1>0, <1>4, <2>1, ChangesOfEvent DEF EventShape
<1>6. /\ DOMAIN history'[t] = 1 .. Len(history[t]) + Len(NewChanges(p))
      /\ \A j \in 1 .. Len(NewChanges(p)) : history'[t][Len(history[t]) + j] = NewChanges(p)[j]
  BY <1>0, <1>1, <1>2, PublishesHistory
<1>7. /\ Len(history[t]) + Len(NewChanges(p)) = i + 1 /\ i + 1 \in 1 .. i + 1
      /\ Len(pending[p]) + 2 \in 1 .. Len(NewChanges(p))
      /\ Len(history[t]) + (Len(pending[p]) + 2) = i + 1
  <2>1. PICK l, m, n : l = Len(history[t]) /\ m = Len(pending[p]) /\ n = Len(NewChanges(p))
    OBVIOUS
  <2>2. i - l = m + 1 /\ n = m + 2 /\ l \in Nat /\ m \in Nat /\ i \in Nat
    BY <1>1, <1>4, <1>5, <2>1
  <2>3. l + n = i + 1 /\ i + 1 \in 1 .. i + 1 /\ m + 2 \in 1 .. n /\ l + (m + 2) = i + 1
    BY <2>2
  <2> QED BY <2>1, <2>3
<1>8. history'[t][i + 1] = Change("success", attempt[p], gen[p], NoEvent)
  BY <1>5, <1>6, <1>7
<1>9. attempt[p] # 0
  BY <1>0, <1>2 DEF Publishes, StageAt, ClaimOK, Unclaimed
<1>10. attempt'[p] # 0 => Finished(p)'
  <2>1. pc[p] = "commit"
    BY <1>2 DEF Publishes
  <2>2. Publishes(p) => ~UNCHANGED storeVars
    BY <1>7, <1>6, <1>1 DEF storeVars, NewAt
  <2>3. attempt'[p] # 0 => Commits(p) \/ Escapes(p)
    BY <2>1, <1>2, <2>2 DEF Move, Leaves, Starts, Allocates, Begins, Opens, Evaluates, Tells, StoresState, Stages,
       Walks, Clears
  <2> QED BY <2>1, <2>3, <1>4 DEF Commits, Escapes, Finished
<1>11. i + 1 \in DOMAIN history'[t] /\ DOMAIN history'[t] = 1 .. i + 1
  BY <1>6, <1>7
<1>12. history'[t][i + 1].kind = "success" /\ history'[t][i + 1].attempt = attempt[p]
  BY <1>8 DEF Change
<1> QED BY <1>1, <1>4, <1>9, <1>10, <1>11, <1>12

LEMMA StepCompleted ==
    ASSUME CompletedInv, ConstantAssumption, ~AsyncSignals, NEW p \in Procs, Step(p)
    PROVE  CompletedLast'
<1>0. StageInv /\ TypeInv /\ HistoryBound /\ \A t \in Tasks : Keeps(t)
  BY StepKeeps DEF CompletedInv, StageInv
<1>1. OnlyCaller(p) /\ Move(p) /\ CallTypes(p) /\ StageAt(p)
  BY <1>0, StepMoves, CallTyped DEF StageInv
<1> SUFFICES ASSUME NEW t \in Tasks, NEW i \in DOMAIN history'[t], history'[t][i].kind = "completed"
             PROVE  /\ i + 1 \in DOMAIN history'[t]
                    /\ history'[t][i + 1].kind = "success"
                    /\ history'[t][i + 1].attempt = history'[t][i].attempt
                    /\ \A j \in DOMAIN history'[t] :
                          j > i + 1 => history'[t][j].attempt # history'[t][i].attempt
                    /\ \A q \in Procs : TaskOf[q] = t /\ attempt'[q] = history'[t][i].attempt => Finished(q)'
  BY DEF CompletedLast
<1> DEFINE a == history'[t][i].attempt
<1>2. ASSUME NEW q \in Procs, q # p
      PROVE  attempt'[q] = attempt[q] /\ (Finished(q) => Finished(q)')
  BY <1>1, <1>2 DEF OnlyCaller, Untouched, Same, Finished
<1>3. CASE i \in DOMAIN history[t]
  <2>1. /\ history'[t][i] = history[t][i] /\ history[t][i].kind = "completed"
        /\ i + 1 \in DOMAIN history[t] /\ history'[t][i + 1] = history[t][i + 1]
        /\ i + 1 \in DOMAIN history'[t]
        /\ history[t][i + 1].kind = "success" /\ history[t][i + 1].attempt = history[t][i].attempt
        /\ \A j \in DOMAIN history[t] : j > i + 1 => history[t][j].attempt # history[t][i].attempt
        /\ \A q \in Procs : TaskOf[q] = t /\ attempt[q] = history[t][i].attempt => Finished(q)
        /\ history[t][i].attempt \in 1 .. Current(t)
    BY <1>0, <1>3 DEF Keeps, CompletedInv, CompletedLast, HistoryBound
  <2>2. ASSUME NEW j \in DOMAIN history'[t], j > i + 1, history'[t][j].attempt = a
        PROVE  FALSE
    <3>1. j \notin DOMAIN history[t]
      BY <1>0, <2>1, <2>2 DEF Keeps
    <3>2. NewAt(t, j)
      BY <2>2, <3>1 DEF NewAt
    <3>3. /\ t = TaskOf[p] /\ Current(t) \in Nat
          /\ \/ history'[t][j].attempt = Current(t) + 1
             \/ history'[t][j].attempt = attempt[p] /\ pc[p] \in {"open", "record", "commit"}
      BY <1>0, <3>2, StepAttempt
    <3>4. history'[t][j].attempt = attempt[p] /\ pc[p] \in {"open", "record", "commit"}
      BY <2>1, <2>2, <3>3
    <3>5. Finished(p)
      BY <2>1, <2>2, <3>3, <3>4
    <3> QED BY <1>1, <3>4, <3>5 DEF Finished, StageAt, ClaimOK
  <2>3. ASSUME NEW q \in Procs, TaskOf[q] = t, attempt'[q] = a
        PROVE  Finished(q)'
    <3>1. CASE q # p
      BY <1>2, <2>1, <2>3, <3>1
    <3>2. CASE q = p
      <4>1. a \in 1 .. Current(t) /\ Current(t) \in Nat
        BY <1>1, <2>1, <2>3, <3>2 DEF CallTypes
      <4>2. attempt'[p] \in {0, attempt[p], Current(TaskOf[p]) + 1}
        BY <1>1 DEF Move, Leaves, Starts, Allocates, Opens, Evaluates, Tells, StoresState, Stages,
           Walks, Rests, Commits, Clears, Escapes
      <4>3. attempt'[p] = attempt[p] /\ attempt[p] # 0
        BY <2>3, <3>2, <4>1, <4>2
      <4>4. Finished(p)
        BY <2>1, <2>3, <3>2, <4>3
      <4> QED BY <1>0, <1>1, <3>2, <4>3, <4>4, FinishedStays
    <3> QED BY <3>1, <3>2
  <2> QED BY <2>1, <2>2, <2>3
<1>4. CASE i \notin DOMAIN history[t]
  <2>0. NewAt(t, i)
    BY <1>4 DEF NewAt
  <2>1. /\ t = TaskOf[p] /\ a = attempt[p] /\ attempt[p] # 0
        /\ i + 1 \in DOMAIN history'[t] /\ DOMAIN history'[t] = 1 .. i + 1
        /\ history'[t][i + 1].kind = "success" /\ history'[t][i + 1].attempt = attempt[p]
        /\ attempt'[p] # 0 => Finished(p)'
    BY <1>0, <1>1, <2>0, CompletedPublished
  <2>2. \A j \in DOMAIN history'[t] : ~(j > i + 1)
    <3>1. i \in Nat
      BY <1>0, <2>0, StepAdds
    <3> QED BY <2>1, <3>1
  <2>3. ASSUME NEW q \in Procs, TaskOf[q] = t, attempt'[q] = a
        PROVE  Finished(q)'
    <3>1. q = p
      BY <1>0, <1>2, <2>1, <2>3 DEF StageInv, OneClaim
    <3> QED BY <2>1, <2>3, <3>1
  <2> QED BY <2>1, <2>2, <2>3
<1> QED BY <1>3, <1>4

LEMMA CompletedInvariant ==
    ASSUME ~AsyncSignals
    PROVE  Spec => []CompletedInv
<1>1. Init => CompletedInv
  <2> SUFFICES ASSUME Init
               PROVE  CompletedInv
    OBVIOUS
  <2>1. StageInv
    BY ConstantAssumption, InitStage
  <2>2. \A t \in Tasks : DOMAIN history[t] = {}
    BY DEF Init
  <2>3. selected = {}
    BY DEF Init
  <2> QED BY <2>1, <2>2, <2>3 DEF CompletedInv, SelectedDone, HistoryBound, CompletedLast
<1>2. CompletedInv /\ [Next]_vars => CompletedInv'
  <2> SUFFICES ASSUME CompletedInv, [Next]_vars
               PROVE  CompletedInv'
    OBVIOUS
  <2>1. ASSUME NEW p \in Procs, Step(p)
        PROVE  CompletedInv'
    BY <2>1, ConstantAssumption, StepStage, StepSelected, StepBound, StepCompleted DEF CompletedInv
  <2>2. CASE UNCHANGED vars
    <3>1. StageInv'
      BY <2>2, ConstantAssumption, StutterStage DEF CompletedInv
    <3>2. /\ history' = history /\ attempts' = attempts /\ selected' = selected /\ pc' = pc
          /\ job' = job /\ attempt' = attempt /\ uncertain' = uncertain
      BY <2>2 DEF vars, storeVars, callVars, writerVars
    <3>3. SelectedDone' /\ HistoryBound' /\ CompletedLast'
      BY <3>2 DEF CompletedInv, SelectedDone, HistoryBound, CompletedLast, Finished, Current
    <3> QED BY <3>1, <3>3 DEF CompletedInv
  <2> QED BY <2>1, <2>2 DEF Next, Step
<1> QED BY <1>1, <1>2, PTL DEF Spec

(* The attempt of a completed event reads back as a success. *)
LEMMA CompletedReads ==
    ASSUME TypeInv, CompletedLast, NEW t \in Tasks, NEW a, NEW i \in DOMAIN history[t],
           history[t][i].kind = "completed", history[t][i].attempt = a
    PROVE  Status(t, a) = "success"
<1> DEFINE rows == StatusChanges(t, a)
           ends == {j \in rows : history[t][j].kind \in {"completed", "failed"}}
<1>1. /\ i + 1 \in DOMAIN history[t]
      /\ history[t][i + 1].kind = "success" /\ history[t][i + 1].attempt = a
      /\ \A j \in DOMAIN history[t] : j > i + 1 => history[t][j].attempt # a
  BY DEF CompletedLast
<1>2. \A j \in DOMAIN history[t] : j \in Nat
  BY LenProperties DEF TypeInv, TypeOK, StoreType
<1>3. i \in rows /\ i + 1 \in rows /\ \A j \in rows : j \in Nat /\ j <= i + 1
  BY <1>1, <1>2 DEF StatusChanges
<1>4. LastIn(rows) = i + 1
  <2> HIDE DEF rows
  <2>1. \E l \in rows : \A j \in rows : j <= l
    BY <1>3
  <2>2. LastIn(rows) \in rows /\ \A j \in rows : j <= LastIn(rows)
    BY <2>1 DEF LastIn
  <2> QED BY <1>3, <2>2
<1>5. i \in ends /\ i + 1 \notin ends /\ ends # {} /\ ends # {i + 1}
  BY <1>1, <1>3
<1>6. Status(t, a) = StatusOf[history[t][i + 1].kind]
  BY <1>4, <1>5 DEF Status
<1> QED BY <1>1, <1>6 DEF StatusOf

(* The selected attempt is found and accepted in every state: no failure      *)
(* recorded after its completed event takes the success back.                 *)
THEOREM SelectionReadable == ~AsyncSignals => (Spec => []SelectedReadable)
<1> SUFFICES ASSUME ~AsyncSignals
             PROVE  Spec => []SelectedReadable
  OBVIOUS
<1>1. CompletedInv => SelectedReadable
  <2> SUFFICES ASSUME CompletedInv, NEW s \in selected
               PROVE  Status(s.task, s.attempt) = "success"
    BY DEF SelectedReadable
  <2>1. TypeInv /\ CompletedLast /\ s.task \in Tasks
    BY DEF CompletedInv, StageInv, TypeInv, TypeOK, StoreType
  <2>2. PICK i \in DOMAIN history[s.task] :
           history[s.task][i].kind = "completed" /\ history[s.task][i].attempt = s.attempt
    BY DEF CompletedInv, SelectedDone
  <2> QED BY <2>1, <2>2, CompletedReads
<1> QED BY <1>1, CompletedInvariant, PTL

-----------------------------------------------------------------------------
(* The barriers of an attempt in the history *)

(* Only its own publications add to what an attempt has published. *)
Publishing(p, t, a) == Publishes(p) /\ t = TaskOf[p] /\ a = attempt[p]

Minor == {"attempt_begin", "running", "failure"}

LEMMA KindKeeps ==
    ASSUME StageInv, ConstantAssumption, NEW p \in Procs, Step(p), NEW t \in Tasks, NEW a,
           ~Publishing(p, t, a), NEW i \in DOMAIN history'[t],
           history'[t][i].attempt = a, history'[t][i].kind \notin Minor
    PROVE  i \in DOMAIN history[t] /\ history'[t][i] = history[t][i]
<1>1. TypeInv /\ Keeps(t)
  BY StepKeeps DEF StageInv
<1>2. ASSUME i \notin DOMAIN history[t]
      PROVE  FALSE
  <2>1. NewAt(t, i)
    BY <1>2 DEF NewAt
  <2>2. t = TaskOf[p] /\ i - Len(history[t]) \in 1 .. Len(NewChanges(p)) /\ Publishes(p)
        /\ history'[t][i] = NewChanges(p)[i - Len(history[t])]
    BY <2>1, StepAdds DEF Allocation, Update, Minor
  <2>3. history'[t][i].attempt = attempt[p]
    BY <2>2, PublishedChanges DEF PublishedChange, Publishes
  <2> QED BY <2>2, <2>3 DEF Publishing
<1> QED BY <1>1, <1>2 DEF Keeps

LEMMA ReadyKeeps ==
    ASSUME StageInv, ConstantAssumption, NEW p \in Procs, Step(p), NEW t \in Tasks, NEW a,
           ~Publishing(p, t, a)
    PROVE  /\ Ready(t, a)' = Ready(t, a) /\ ReadyGens(t, a)' = ReadyGens(t, a)
           /\ HasBaseline(t, a)' = HasBaseline(t, a)
           /\ \A i \in Ready(t, a) : history'[t][i] = history[t][i]
<1>1. Keeps(t)
  BY StepKeeps DEF StageInv
<1>2. \A i \in DOMAIN history'[t] :
          history'[t][i].attempt = a /\ history'[t][i].kind \in {"generation_ready", "baseline_ready"} =>
              i \in DOMAIN history[t] /\ history'[t][i] = history[t][i]
  BY KindKeeps DEF Minor
<1>3. Ready(t, a)' = Ready(t, a) /\ \A i \in Ready(t, a) : history'[t][i] = history[t][i]
  BY <1>1, <1>2 DEF Ready, Keeps
<1>4. ReadyGens(t, a)' = ReadyGens(t, a)
  BY <1>3 DEF ReadyGens
<1>5. HasBaseline(t, a)' = HasBaseline(t, a)
  BY <1>1, <1>2 DEF HasBaseline, Keeps
<1> QED BY <1>3, <1>4, <1>5

(* What a publication of the attempt itself adds. *)
LEMMA PublishedReady ==
    ASSUME StageInv, ConstantAssumption, NEW p \in Procs, Step(p), Publishes(p),
           NEW t, t = TaskOf[p], NEW a, a = attempt[p], NEW i, NewAt(t, i)
    PROVE  /\ i - Len(history[t]) \in 1 .. Len(NewChanges(p)) /\ Len(history[t]) \in Nat /\ i \in Nat
           /\ history'[t][i].attempt = a
           /\ history'[t][i] = NewChanges(p)[i - Len(history[t])]
           /\ PublishedChange(p, i - Len(history[t]), history'[t][i])
<1>1. t \in Tasks /\ pc[p] = "commit"
  BY DEF ConstantAssumption, Publishes
<1>2. /\ i - Len(history[t]) \in 1 .. Len(NewChanges(p)) /\ Len(history[t]) \in Nat /\ i \in Nat
      /\ history'[t][i] = NewChanges(p)[i - Len(history[t])]
  <2>1. ~Begins(p) /\ ~Updates(p)
    BY <1>1 DEF Begins, Updates
  <2>2. ~Allocation(p, history'[t][i]) /\ ~Update(p, history'[t][i])
    BY <2>1 DEF Allocation, Update
  <2> QED BY <1>1, <2>2, StepAdds
<1>3. PublishedChange(p, i - Len(history[t]), history'[t][i])
  BY <1>1, <1>2, PublishedChanges
<1> QED BY <1>2, <1>3 DEF PublishedChange

LEMMA BaselineReady ==
    ASSUME StageInv, ConstantAssumption, NEW p \in Procs, Step(p), Publishes(p),
           job[p] \in SegmentJobs, completed[p] = << 0 >>, NEW t, t = TaskOf[p], NEW a, a = attempt[p]
    PROVE  /\ Ready(t, a)' = Ready(t, a) /\ ReadyGens(t, a)' = ReadyGens(t, a) /\ HasBaseline(t, a)'
           /\ \A i \in Ready(t, a) : history'[t][i] = history[t][i]
<1>0. TypeInv /\ Keeps(t) /\ t \in Tasks
  BY StepKeeps DEF StageInv, ConstantAssumption
<1>1. completed[p][1] = 0 /\ Len(completed[p]) = 1 /\ 1 \in 1 .. Len(completed[p])
  OBVIOUS
<1>2. ~GenerationsStaged(p)
  BY <1>1 DEF GenerationsStaged
<1>3. job[p] \notin EventJobs
  BY DEF SegmentJobs, BarrierJobs, FlushJobs, EventJobs
<1>4. \A i : NewAt(t, i) => history'[t][i].kind = "baseline_ready"
  BY <1>2, <1>3, PublishedReady DEF PublishedChange, BaselineChange, GenerationChange, DiagnosticChange,
     EventChange, SuccessChange, EventJobs
<1>5. Ready(t, a)' = Ready(t, a) /\ \A i \in Ready(t, a) : history'[t][i] = history[t][i]
  BY <1>0, <1>4 DEF Ready, Keeps, NewAt
<1>6. ReadyGens(t, a)' = ReadyGens(t, a)
  BY <1>5 DEF ReadyGens
<1>7. HasBaseline(t, a)'
  <2>1. /\ Len(history[t]) \in Nat
        /\ DOMAIN history'[t] = 1 .. Len(history[t]) + Len(NewChanges(p))
        /\ \A k \in 1 .. Len(NewChanges(p)) : history'[t][Len(history[t]) + k] = NewChanges(p)[k]
    BY <1>0, PublishesHistory
  <2>2. NewChanges(p) = <<Change("baseline_ready", attempt[p], 0, snap[p].seq)>>
    BY BaselineChanges
  <2>3. Len(NewChanges(p)) = 1 /\ NewChanges(p)[1] = Change("baseline_ready", attempt[p], 0, snap[p].seq)
    BY <2>2
  <2>4. Len(history[t]) + 1 \in DOMAIN history'[t]
        /\ history'[t][Len(history[t]) + 1] = Change("baseline_ready", attempt[p], 0, snap[p].seq)
    BY <2>1, <2>3
  <2>5. history'[t][Len(history[t]) + 1].kind = "baseline_ready"
        /\ history'[t][Len(history[t]) + 1].attempt = a
    BY <2>4 DEF Change
  <2> QED BY <2>4, <2>5 DEF HasBaseline
<1> QED BY <1>5, <1>6, <1>7

LEMMA EventReady ==
    ASSUME StageInv, ConstantAssumption, NEW p \in Procs, Step(p), Publishes(p),
           job[p] \in EventJobs, NEW t, t = TaskOf[p], NEW a, a = attempt[p]
    PROVE  /\ Ready(t, a)' = Ready(t, a) /\ ReadyGens(t, a)' = ReadyGens(t, a)
           /\ HasBaseline(t, a)' = HasBaseline(t, a)
           /\ \A i \in Ready(t, a) : history'[t][i] = history[t][i]
<1>0. TypeInv /\ Keeps(t) /\ t \in Tasks
  BY StepKeeps DEF StageInv, ConstantAssumption
<1>1. job[p] \notin SegmentJobs
  BY DEF SegmentJobs, BarrierJobs, FlushJobs, EventJobs
<1>2. \A i : NewAt(t, i) => history'[t][i].kind \notin {"baseline_ready", "generation_ready"}
  BY <1>1, PublishedReady DEF PublishedChange, BaselineChange, GenerationChange, DiagnosticChange,
     EventChange, SuccessChange, EventJobs
<1>3. Ready(t, a)' = Ready(t, a) /\ \A i \in Ready(t, a) : history'[t][i] = history[t][i]
  BY <1>0, <1>2 DEF Ready, Keeps, NewAt
<1>4. ReadyGens(t, a)' = ReadyGens(t, a)
  BY <1>3 DEF ReadyGens
<1>5. HasBaseline(t, a)' = HasBaseline(t, a)
  BY <1>0, <1>2 DEF HasBaseline, Keeps, NewAt
<1> QED BY <1>3, <1>4, <1>5

(* A group's barriers come after all others, in the order they were staged. *)
AddsGroup(p, t, a) ==
    /\ Len(history[t]) \in Nat /\ Len(completed[p]) \in Nat /\ Len(completed[p]) > 0
    /\ Ready(t, a) \subseteq 1 .. Len(history[t])
    /\ Ready(t, a)' = Ready(t, a) \cup {Len(history[t]) + 2 * k : k \in 1 .. Len(completed[p])}
    /\ \A i \in Ready(t, a) : history'[t][i] = history[t][i]
    /\ \A k \in 1 .. Len(completed[p]) :
          history'[t][Len(history[t]) + 2 * k].gen = completed[p][k]
    /\ ReadyGens(t, a)' = ReadyGens(t, a) \cup {completed[p][k] : k \in 1 .. Len(completed[p])}
    /\ HasBaseline(t, a)' = HasBaseline(t, a)

LEMMA GroupReady ==
    ASSUME StageInv, ConstantAssumption, NEW p \in Procs, Step(p), Publishes(p),
           job[p] \in SegmentJobs, GenerationsStaged(p), NEW t, t = TaskOf[p], NEW a, a = attempt[p]
    PROVE  AddsGroup(p, t, a)
<1>0. TypeInv /\ Keeps(t) /\ t \in Tasks /\ pc[p] = "commit"
  BY StepKeeps DEF StageInv, ConstantAssumption, Publishes
<1>1. /\ Len(completed[p]) \in Nat /\ Len(completed[p]) > 0 /\ completed[p] # <<0>>
      /\ Len(NewChanges(p)) = 2 * Len(completed[p])
      /\ \A m \in 1 .. Len(completed[p]) :
            /\ 2 * m \in 1 .. 2 * Len(completed[p])
            /\ NewChanges(p)[2 * m] =
                  Change("generation_ready", attempt[p], completed[p][m], snap[p].seq + 2 * m - 1)
  BY <1>0, GenerationChanges
<1>2. /\ Len(history[t]) \in Nat /\ DOMAIN history[t] = 1 .. Len(history[t])
      /\ DOMAIN history'[t] = 1 .. Len(history[t]) + Len(NewChanges(p)) /\ Len(NewChanges(p)) \in Nat
      /\ \A k \in 1 .. Len(NewChanges(p)) : history'[t][Len(history[t]) + k] = NewChanges(p)[k]
  BY <1>0, PublishesHistory
<1>3. Ready(t, a) \subseteq 1 .. Len(history[t])
  BY <1>2 DEF Ready
<1>4. job[p] \notin EventJobs
  BY DEF SegmentJobs, BarrierJobs, FlushJobs, EventJobs
<1>5. \A i : NewAt(t, i) /\ history'[t][i].kind \in {"generation_ready", "baseline_ready"} =>
          /\ history'[t][i].kind = "generation_ready"
          /\ \E m \in 1 .. Len(completed[p]) : i = Len(history[t]) + 2 * m
  <2> SUFFICES ASSUME NEW i, NewAt(t, i), history'[t][i].kind \in {"generation_ready", "baseline_ready"}
               PROVE  /\ history'[t][i].kind = "generation_ready"
                      /\ \E m \in 1 .. Len(completed[p]) : i = Len(history[t]) + 2 * m
    OBVIOUS
  <2>1. /\ i \in Nat /\ PublishedChange(p, i - Len(history[t]), history'[t][i])
    BY PublishedReady
  <2>2. PICK m \in 1 .. Len(completed[p]) :
           i - Len(history[t]) = 2 * m /\ history'[t][i].kind = "generation_ready"
    BY <1>1, <1>4, <2>1 DEF PublishedChange, BaselineChange, GenerationChange, DiagnosticChange,
       EventChange, SuccessChange, EventJobs
  <2>3. i = Len(history[t]) + 2 * m
    <3>1. \A x, y, z \in Int : x - y = z => x = y + z
      OBVIOUS
    <3>2. 2 * m \in Int
      BY <1>1
    <3> QED BY <1>2, <2>1, <2>2, <3>1, <3>2
  <2> QED BY <2>2, <2>3
<1>6. \A m \in 1 .. Len(completed[p]) :
          /\ Len(history[t]) + 2 * m \in DOMAIN history'[t]
          /\ history'[t][Len(history[t]) + 2 * m] =
                Change("generation_ready", attempt[p], completed[p][m], snap[p].seq + 2 * m - 1)
  <2> SUFFICES ASSUME NEW m \in 1 .. Len(completed[p])
               PROVE  /\ Len(history[t]) + 2 * m \in DOMAIN history'[t]
                      /\ history'[t][Len(history[t]) + 2 * m] =
                            Change("generation_ready", attempt[p], completed[p][m], snap[p].seq + 2 * m - 1)
    OBVIOUS
  <2>1. 2 * m \in 1 .. Len(NewChanges(p))
    BY <1>1
  <2>2. \A l, n, k : l \in Nat /\ n \in Nat /\ k \in 1 .. n => l + k \in 1 .. l + n
    OBVIOUS
  <2>3. Len(history[t]) + 2 * m \in DOMAIN history'[t]
    BY <1>1, <1>2, <2>1, <2>2
  <2>4. history'[t][Len(history[t]) + 2 * m] = NewChanges(p)[2 * m]
    BY <1>2, <2>1
  <2> QED BY <1>1, <2>3, <2>4
<1>12. \A m \in 1 .. Len(completed[p]) :
          /\ history'[t][Len(history[t]) + 2 * m].kind = "generation_ready"
          /\ history'[t][Len(history[t]) + 2 * m].attempt = a
          /\ history'[t][Len(history[t]) + 2 * m].gen = completed[p][m]
  <2> SUFFICES ASSUME NEW m \in 1 .. Len(completed[p])
               PROVE  /\ history'[t][Len(history[t]) + 2 * m].kind = "generation_ready"
                      /\ history'[t][Len(history[t]) + 2 * m].attempt = a
                      /\ history'[t][Len(history[t]) + 2 * m].gen = completed[p][m]
    OBVIOUS
  <2>1. PICK c : c = history'[t][Len(history[t]) + 2 * m]
    OBVIOUS
  <2>2. c = Change("generation_ready", attempt[p], completed[p][m], snap[p].seq + 2 * m - 1)
    BY <1>6, <2>1
  <2>3. c.kind = "generation_ready" /\ c.attempt = a /\ c.gen = completed[p][m]
    BY <2>2 DEF Change
  <2> QED BY <2>1, <2>3
<1>7. Ready(t, a)' = Ready(t, a) \cup {Len(history[t]) + 2 * m : m \in 1 .. Len(completed[p])}
  <2>1. \A i \in Ready(t, a)' :
            i \in Ready(t, a) \/ \E m \in 1 .. Len(completed[p]) : i = Len(history[t]) + 2 * m
    BY <1>0, <1>5 DEF Ready, Keeps, NewAt
  <2>2. \A i \in Ready(t, a) : i \in Ready(t, a)'
    BY <1>0 DEF Ready, Keeps
  <2>3. \A m \in 1 .. Len(completed[p]) : Len(history[t]) + 2 * m \in Ready(t, a)'
    BY <1>6, <1>12 DEF Ready
  <2>4. PICK after, before, added :
            /\ after = Ready(t, a)' /\ before = Ready(t, a)
            /\ added = {Len(history[t]) + 2 * m : m \in 1 .. Len(completed[p])}
    OBVIOUS
  <2>5. \A i \in after : i \in before \/ i \in added
    BY <2>1, <2>4
  <2>6. \A i \in before : i \in after
    BY <2>2, <2>4
  <2>7. \A i \in added : i \in after
    BY <2>3, <2>4
  <2>8. after = before \cup added
    BY <2>5, <2>6, <2>7
  <2> QED BY <2>4, <2>8
<1>8. \A i \in Ready(t, a) : history'[t][i] = history[t][i]
  BY <1>0 DEF Ready, Keeps
<1>9. \A m \in 1 .. Len(completed[p]) : history'[t][Len(history[t]) + 2 * m].gen = completed[p][m]
  BY <1>12
<1>10. ReadyGens(t, a)' = ReadyGens(t, a) \cup {completed[p][m] : m \in 1 .. Len(completed[p])}
  <2>1. ReadyGens(t, a)' = {history'[t][i].gen : i \in Ready(t, a)'}
    BY DEF ReadyGens
  <2>2. ASSUME NEW g \in ReadyGens(t, a)'
        PROVE  g \in ReadyGens(t, a) \/ \E m \in 1 .. Len(completed[p]) : g = completed[p][m]
    <3>1. PICK i \in Ready(t, a)' : g = history'[t][i].gen
      BY <2>1, <2>2
    <3>2. CASE i \in Ready(t, a)
      BY <1>8, <3>1, <3>2 DEF ReadyGens
    <3>3. CASE \E m \in 1 .. Len(completed[p]) : i = Len(history[t]) + 2 * m
      BY <1>9, <3>1, <3>3
    <3> QED BY <1>7, <3>1, <3>2, <3>3
  <2>3. ASSUME NEW g \in ReadyGens(t, a)
        PROVE  g \in ReadyGens(t, a)'
    <3>1. PICK i \in Ready(t, a) : g = history[t][i].gen
      BY <2>3 DEF ReadyGens
    <3>2. i \in Ready(t, a)' /\ history'[t][i] = history[t][i]
      BY <1>7, <1>8, <3>1
    <3> QED BY <2>1, <3>1, <3>2
  <2>4. ASSUME NEW m \in 1 .. Len(completed[p])
        PROVE  completed[p][m] \in ReadyGens(t, a)'
    <3>1. Len(history[t]) + 2 * m \in Ready(t, a)'
      BY <1>7
    <3> QED BY <1>9, <2>1, <3>1
  <2> QED BY <2>2, <2>3, <2>4
<1>11. HasBaseline(t, a)' = HasBaseline(t, a)
  <2>1. \A i \in DOMAIN history'[t] : history'[t][i].kind = "baseline_ready" => i \in DOMAIN history[t]
    BY <1>5 DEF NewAt
  <2> QED BY <1>0, <2>1 DEF HasBaseline, Keeps
<1> QED BY <1>1, <1>2, <1>3, <1>7, <1>8, <1>9, <1>10, <1>11 DEF AddsGroup

(* Publishing what is staged links its generations, the ones after the chain. *)
LEMMA StagedNumbers ==
    ASSUME TypeInv, NEW p \in Procs, LinksOK(p), GenerationsStaged(p), completed[p] # <<>>
    PROVE  /\ Len(chain[p]) \in Nat /\ Len(Reached(p)) = Len(chain[p]) + Len(completed[p])
           /\ \A m \in 1 .. Len(completed[p]) : completed[p][m] = Len(chain[p]) + m
<1>1. chain[p] \in Seq(Nat) /\ completed[p] \in Seq(Nat)
  BY DEF TypeInv, TypeOK, WriterType
<1>2. Len(chain[p]) \in Nat /\ Len(completed[p]) \in Nat /\ Len(completed[p]) > 0
  BY <1>1, EmptySeq, LenProperties
<1>3. completed[p][1] # 0
  BY <1>2 DEF GenerationsStaged
<1>4. Reached(p) = chain[p] \o completed[p]
  BY <1>3 DEF Reached, ChainAfter
<1>5. /\ Len(Reached(p)) = Len(chain[p]) + Len(completed[p])
      /\ \A m \in 1 .. Len(completed[p]) : Reached(p)[Len(chain[p]) + m] = completed[p][m]
  <2>1. PICK h \in Seq(Nat), ext \in Seq(Nat) : h = chain[p] /\ ext = completed[p]
    BY <1>1
  <2>2. /\ Len(h \o ext) = Len(h) + Len(ext)
        /\ \A m \in 1 .. Len(ext) : (h \o ext)[Len(h) + m] = ext[m]
    BY Joined
  <2> QED BY <1>4, <2>1, <2>2
<1>6. ASSUME NEW m \in 1 .. Len(completed[p])
      PROVE  completed[p][m] = Len(chain[p]) + m
  <2>0. \A l, n, k : l \in Nat /\ n \in Nat /\ k \in 1 .. n => l + k \in 1 .. l + n
    OBVIOUS
  <2>1. Len(chain[p]) + m \in 1 .. Len(Reached(p))
    BY <1>2, <1>5, <2>0
  <2>2. Reached(p)[Len(chain[p]) + m] = UpTo(Len(Reached(p)))[Len(chain[p]) + m]
    BY DEF LinksOK
  <2> QED BY <1>5, <2>1, <2>2 DEF UpTo
<1> QED BY <1>2, <1>5, <1>6

-----------------------------------------------------------------------------
(* What of an attempt is published, after a step *)

LEMMA AttemptsKeep ==
    ASSUME StageInv, ConstantAssumption, NEW p \in Procs, Step(p), NEW t \in Tasks
    PROVE  /\ Current(t) \in Nat /\ DOMAIN attempts[t] = 1 .. Current(t)
           /\ \A a \in 1 .. Current(t) : attempts'[t][a] = attempts[t][a]
           /\ \/ DOMAIN attempts'[t] = 1 .. Current(t)
              \/ /\ Begins(p) /\ t = TaskOf[p] /\ DOMAIN attempts'[t] = 1 .. Current(t) + 1
                 /\ attempts'[t][Current(t) + 1] = AttemptFact(p)
<1>1. TypeInv /\ attempts[t] \in Seq(AttemptType)
  BY DEF StageInv, TypeInv, TypeOK, StoreType
<1>2. Current(t) \in Nat /\ DOMAIN attempts[t] = 1 .. Current(t)
  BY <1>1, LenProperties DEF Current
<1>3. CASE Begins(p) /\ t = TaskOf[p]
  BY <1>1, <1>2, <1>3, BeginsStore
<1>4. CASE ~(Begins(p) /\ t = TaskOf[p])
  <2>1. attempts'[t] = attempts[t]
    BY <1>1, <1>4, StoreShape, BeginsStore DEF OnlyTask, storeVars, Updates, Publishes, Publish
  <2> QED BY <1>2, <2>1
<1> QED BY <1>3, <1>4

LEMMA LedgerTypes ==
    ASSUME LedgerInv, ConstantAssumption, NEW p \in Procs
    PROVE  /\ StageInv /\ TypeInv /\ ExactInv /\ CallTypes(p) /\ StageAt(p) /\ ExactAt(p) /\ JobAt(p)
           /\ LedgerAt(p) /\ Len(chain[p]) \in Nat /\ Reached(p) \in Seq(Nat) /\ Len(Reached(p)) \in Nat
           /\ resume[p].gen \in Nat /\ TaskOf[p] \in Tasks
<1>1. StageInv /\ TypeInv /\ ExactInv /\ ExactAt(p) /\ LedgerAt(p) /\ StageAt(p) /\ JobAt(p)
  BY DEF LedgerInv, StageInv, ExactInv, TypeInv, JobOK
<1>2. CallTypes(p)
  BY <1>1, CallTyped
<1> QED BY <1>1, <1>2, ReachedType, LenProperties DEF CallTypes, CheckpointType

(* The claims of another caller are out of reach. *)
LEMMA OtherLedger ==
    ASSUME LedgerInv, ConstantAssumption, NEW p \in Procs, Step(p), OnlyCaller(p),
           NEW q \in Procs, q # p
    PROVE  LedgerAt(q)'
<1>0. StageInv /\ LedgerAt(q) /\ Untouched(q) /\ StageAt(q) /\ CallTypes(q)
  BY LedgerTypes DEF OnlyCaller
<1>1. TaskOf[q] \in Tasks /\ Keeps(TaskOf[q])
  BY <1>0, StepKeeps DEF StageInv, CallTypes
<1>2. OriginOK(q)'
  BY <1>0, <1>1 DEF LedgerAt, OriginOK, Untouched, Same, Telling, InPublication, Keeps
<1>3. ASSUME attempt'[q] # 0
      PROVE  FactOK(q)' /\ ReachOK(q)' /\ PointOK(q)' /\ BaselineOK(q)' /\ TailOK(q)'
  <2>1. attempt[q] # 0 /\ attempt'[q] = attempt[q] /\ resume'[q] = resume[q] /\ attempt[q] \in 1 .. Current(TaskOf[q])
    BY <1>0, <1>3 DEF Untouched, Same, StageAt, ClaimOK, CallTypes
  <2>2. ~Publishing(p, TaskOf[q], attempt[q])
    BY <1>0, <2>1 DEF StageInv, OneClaim, Publishing
  <2>3. PICK t, a : t = TaskOf[q] /\ a = attempt[q]
    OBVIOUS
  <2>4. ReadyGens(t, a)' = ReadyGens(t, a) /\ HasBaseline(t, a)' = HasBaseline(t, a)
    BY <1>0, <1>1, <2>2, <2>3, ReadyKeeps
  <2>5. ReadyGens(TaskOf[q], attempt[q])' = ReadyGens(TaskOf[q], attempt[q])
        /\ HasBaseline(TaskOf[q], attempt[q])' = HasBaseline(TaskOf[q], attempt[q])
    <3>1. Ready(TaskOf[q], attempt[q])' = Ready(t, a)'
      BY <2>1, <2>3 DEF Ready
    <3>2. ReadyGens(TaskOf[q], attempt[q])' = ReadyGens(t, a)'
      BY <2>3, <3>1 DEF ReadyGens
    <3>3. HasBaseline(TaskOf[q], attempt[q])' = HasBaseline(t, a)'
      BY <2>1, <2>3 DEF HasBaseline
    <3> QED BY <2>3, <2>4, <3>2, <3>3
  <2>6. FactOK(q)'
    <3>1. attempts'[TaskOf[q]][attempt[q]] = attempts[TaskOf[q]][attempt[q]]
      BY <1>0, <1>1, <2>1, AttemptsKeep
    <3>2. FactOK(q)
      BY <1>0, <2>1 DEF LedgerAt
    <3> QED BY <2>1, <3>1, <3>2 DEF FactOK, AttemptFact
  <2>7. ReachOK(q)'
    BY <1>0, <2>1 DEF LedgerAt, ReachOK, Reached, Untouched, Same
  <2>8. PointOK(q)'
    <3>1. PICK n \in Published(q) : UpToPoint(q, n)
      BY <1>0, <2>1 DEF LedgerAt, PointOK
    <3>2. n \in Published(q)'
      BY <1>0 DEF Published, Reached, Untouched, Same
    <3>3. HasPoint(TaskOf[q], attempt[q], n) => HasPoint(TaskOf[q], attempt[q], n)'
      BY <1>1, <2>1 DEF HasPoint, Keeps
    <3>4. UpToPoint(q, n)'
      BY <1>0, <2>1, <2>5, <3>1, <3>3 DEF UpToPoint, Untouched, Same
    <3> QED BY <3>2, <3>4 DEF PointOK
  <2>9. BaselineOK(q)'
    <3>1. BaselineDue(q)' = BaselineDue(q) /\ BaselineDone(q)' = BaselineDone(q)
      BY <1>0 DEF BaselineDue, BaselineDone, AtBaseline, AtBarrier, Telling, InPublication, Untouched, Same
    <3>2. BaselineOK(q)
      BY <1>0, <2>1 DEF LedgerAt
    <3> QED BY <2>1, <2>5, <3>1, <3>2 DEF BaselineOK
  <2>10. TailOK(q)'
    BY <1>0, <2>1, <2>5 DEF LedgerAt, TailOK, Buffered, Unstaged, Reached, Untouched, Same
  <2> QED BY <2>6, <2>7, <2>8, <2>9, <2>10
<1> QED BY <1>2, <1>3 DEF LedgerAt

LEMMA StepOrigin ==
    ASSUME LedgerInv, ConstantAssumption, NEW p \in Procs, Step(p), Move(p)
    PROVE  OriginOK(p)'
<1>0. StageInv /\ OriginOK(p) /\ StageAt(p) /\ JobAt(p) /\ Keeps(TaskOf[p])
  BY LedgerTypes, StepKeeps DEF LedgerAt
<1>1. \/ resume'[p] = Fresh
      \/ \E i \in DOMAIN checkpoints'[TaskOf[p]] : resume'[p] = checkpoints'[TaskOf[p]][i]
  <2>1. CASE resume'[p] = resume[p]
    BY <1>0, <2>1 DEF OriginOK, Keeps
  <2>2. CASE Starts(p)
    BY <2>2 DEF Starts, storeVars
  <2> QED BY <2>1, <2>2 DEF Move, Leaves, Allocates, Kept, Opens, Evaluates, Tells, StoresState, Stages,
          Walks, Rests, Commits, Clears, Escapes
<1>2. pc'[p] \in Unclaimed \cup {"open"} => gen'[p] = 0
  <2>1. CASE Leaves(p) \/ Starts(p) \/ Allocates(p)
    BY <1>0, <2>1 DEF Leaves, Starts, Allocates, Begins, Kept, OriginOK, Unclaimed
  <2>2. CASE Walks(p)
    BY <1>0, <2>2 DEF Walks, Rests, Kept, WalksOutside, WalksIn, WalksOut, OriginOK, Unclaimed
  <2>3. CASE Opens(p) \/ Evaluates(p) \/ Tells(p) \/ StoresState(p) \/ Stages(p)
    BY <2>3 DEF Opens, Evaluates, Tells, StoresState, Stages, Unclaimed
  <2>4. CASE Commits(p) \/ Clears(p) \/ Escapes(p)
    BY <2>4 DEF Commits, Clears, Escapes, Unclaimed
  <2> QED BY <2>1, <2>2, <2>3, <2>4 DEF Move
<1>3. ASSUME pc'[p] = "announce" \/ (Telling(p)' /\ job'[p] = "resumed")
      PROVE  resume'[p] # Fresh
  <2>1. CASE Opens(p)
    BY <1>3, <2>1 DEF Opens, Telling, InPublication
  <2>2. CASE Walks(p)
    BY <1>0, <1>3, <2>2 DEF Walks, Rests, Kept, WalksOutside, WalksIn, WalksOut, OriginOK, Telling,
       InPublication
  <2>3. CASE Commits(p) \/ Clears(p)
    BY <1>0, <1>3, <2>3 DEF Commits, Clears, Rests, Kept, Publishes, OriginOK, Telling, InPublication
  <2>4. CASE Stages(p)
    BY <1>0, <1>3, <2>4 DEF Stages, JobAt, BarrierJobs, Telling, InPublication
  <2>5. CASE Leaves(p) \/ Starts(p) \/ Allocates(p) \/ Evaluates(p) \/ Tells(p) \/ StoresState(p) \/ Escapes(p)
    BY <1>3, <2>5 DEF Leaves, Starts, Allocates, Evaluates, Tells, StoresState, Escapes, Telling,
       InPublication
  <2> QED BY <2>1, <2>2, <2>3, <2>4, <2>5 DEF Move
<1> QED BY <1>1, <1>2, <1>3 DEF OriginOK

LEMMA StepFact ==
    ASSUME LedgerInv, ConstantAssumption, NEW p \in Procs, Step(p), Move(p), attempt'[p] # 0
    PROVE  FactOK(p)'
<1>0. /\ StageInv /\ StageAt(p) /\ CallTypes(p) /\ LedgerAt(p)
  BY LedgerTypes
<1>1. CASE Allocates(p)
  <2>1. Begins(p) /\ attempt'[p] = Current(TaskOf[p]) + 1 /\ resume'[p] = resume[p]
    BY <1>1 DEF Allocates, Kept
  <2>2. attempts'[TaskOf[p]][Current(TaskOf[p]) + 1] = AttemptFact(p)
    BY <1>0, <2>1, BeginsStore DEF StageInv
  <2> QED BY <2>1, <2>2 DEF FactOK, AttemptFact
<1>2. CASE ~Allocates(p)
  <2>1. attempt'[p] = attempt[p] /\ attempt[p] # 0 /\ ~Leaves(p)
    BY <1>2 DEF Move, Leaves, Starts, Opens, Evaluates, Tells, StoresState, Stages,
       Walks, Rests, Commits, Clears, Escapes
  <2>2. resume'[p] = resume[p]
    BY <1>0, <1>2, <2>1 DEF Move, Starts, StageAt, ClaimOK, Unclaimed, Opens, Evaluates, Tells, StoresState,
       Stages, Walks, Rests, Kept, Commits, Clears, Escapes
  <2>3. attempt[p] \in 1 .. Current(TaskOf[p])
    BY <1>0, <2>1 DEF StageAt, ClaimOK, CallTypes
  <2> QED BY <1>0, <2>1, <2>2, <2>3, AttemptsKeep DEF LedgerAt, FactOK, AttemptFact, CallTypes
<1> QED BY <1>1, <1>2

LEMMA StepReach ==
    ASSUME LedgerInv, ConstantAssumption, ~AsyncSignals, NEW p \in Procs, Step(p), Move(p), attempt'[p] # 0
    PROVE  ReachOK(p)'
<1>0. /\ StageInv /\ TypeInv /\ StageAt(p) /\ ExactAt(p) /\ JobAt(p) /\ CallTypes(p) /\ LedgerAt(p)
      /\ Len(Reached(p)) \in Nat
  BY LedgerTypes
<1>1. ExactInv' /\ TypeInv'
  BY ConstantAssumption, NextExact DEF LedgerInv, ExactInv, Next, Step
<1>2. PICK n : n = Len(Reached(p)')
  OBVIOUS
<1>3. n \in Nat /\ gen'[p] \in Nat
  <2>1. chain'[p] \in Seq(Nat) /\ completed'[p] \in Seq(Nat) /\ gen'[p] \in Nat
    BY <1>1 DEF TypeInv, TypeOK, WriterType, CallType
  <2> QED BY <1>2, <2>1, ChainAfterType, LenProperties DEF Reached
<1>4. PlaceOK(p)'
  BY <1>1 DEF ExactInv, ExactAt
<1>5. CASE (AtGeneration(p) \/ AtBarrier(p) \/ AtBaseline(p))'
  BY <1>2, <1>3, <1>4, <1>5 DEF PlaceOK, ReachOK
<1>6. CASE gen'[p] = gen[p] /\ Reached(p)' = Reached(p) /\ attempt[p] # 0
  BY <1>0, <1>6 DEF LedgerAt, ReachOK
<1>7. CASE gen'[p] = 0
  BY <1>2, <1>3, <1>7 DEF ReachOK
<1>8. CASE Leaves(p) \/ Starts(p)
  BY <1>0, <1>8 DEF Leaves, Starts, StageAt, ClaimOK, Unclaimed
<1>9. CASE Allocates(p) \/ Opens(p)
  BY <1>0, <1>5, <1>7, <1>9 DEF Allocates, Begins, Kept, Opens, LedgerAt, OriginOK, Unclaimed, AtGeneration, AtBaseline
<1>10. CASE Evaluates(p) \/ Tells(p) \/ StoresState(p)
  BY <1>5, <1>10 DEF Evaluates, Tells, StoresState, AtGeneration, AtBarrier, AtBaseline
<1>11. CASE Stages(p)
  BY <1>0, <1>5, <1>11 DEF Stages, AtGeneration, JobAt, BarrierJobs
<1>12. CASE Walks(p)
  <2>1. gen'[p] = gen[p] /\ Reached(p)' = Reached(p) /\ attempt[p] # 0
    BY <1>12 DEF Walks, Rests, Kept, Reached
  <2> QED BY <1>6, <2>1
<1>13. CASE Commits(p) \/ Escapes(p)
  <2>1. gen'[p] = gen[p] /\ Reached(p)' = Reached(p) /\ attempt[p] # 0
    BY <1>13 DEF Commits, Escapes, Rests, Kept, Reached
  <2> QED BY <1>6, <2>1
<1>14. CASE Clears(p)
  <2>1. gen'[p] = gen[p] /\ attempt[p] # 0
    BY <1>14 DEF Clears
  <2>2. Reached(p)' = Reached(p)
    <3>1. CASE job[p] \in SegmentJobs
      <4>1. chain'[p] = Reached(p) /\ completed'[p] = <<>>
        BY <1>14, <3>1 DEF Clears, PublishedSegments, Reached
      <4> QED BY <4>1 DEF Reached, ChainAfter
    <3>2. CASE job[p] \notin SegmentJobs
      <4>1. chain'[p] = chain[p] /\ completed'[p] = completed[p]
        BY <1>14, <3>2 DEF Clears, PublishedSegments, ChainAfter
      <4> QED BY <4>1 DEF Reached
    <3> QED BY <3>1, <3>2
  <2> QED BY <1>6, <2>1, <2>2
<1> QED BY <1>8, <1>9, <1>10, <1>11, <1>12, <1>13, <1>14 DEF Move

(* A publication takes the attempt from the end of its links to what is staged. *)
LEMMA PublishesUpTo ==
    ASSUME LedgerInv, ConstantAssumption, NEW p \in Procs, Step(p), Publishes(p),
           NEW t, t = TaskOf[p], NEW a, a = attempt[p], NEW n, n = Len(chain[p]),
           NEW m, m = Len(Reached(p)), NEW g, g = resume[p].gen
    PROVE  /\ n \in Nat /\ m \in Nat /\ g \in Nat /\ m >= n /\ n >= g
           /\ UpToPoint(p, n) /\ ReadyGens(t, a) = g + 1 .. n
           /\ ReadyGens(t, a)' = g + 1 .. m
           /\ Checkpointed[t] /\ m > g => HasPoint(t, a, m)'
<1>0. /\ StageInv /\ TypeInv /\ StageAt(p) /\ ExactAt(p) /\ JobAt(p) /\ CallTypes(p) /\ LedgerAt(p)
      /\ m \in Nat /\ n \in Nat /\ g \in Nat /\ t \in Tasks /\ pc[p] = "commit"
  BY LedgerTypes DEF Publishes
<1>1. attempt[p] # 0 /\ uncertain[p] = "none"
  BY <1>0 DEF StageAt, ClaimOK, Unclaimed
<1>2. UpToPoint(p, n)
  BY <1>0, <1>1 DEF LedgerAt, PointOK, Published
<1>3. /\ ReadyGens(t, a) = g + 1 .. n /\ n >= g
      /\ Checkpointed[t] /\ n > g => HasPoint(t, a, n)
  BY <1>0, <1>2 DEF UpToPoint
<1>4. HasPoint(t, a, n) => HasPoint(t, a, n)'
  <2>1. Keeps(t)
    BY <1>0, StepKeeps
  <2> QED BY <2>1 DEF HasPoint, Keeps
<1>5. CASE job[p] \in EventJobs
  <2>1. completed[p] = <<>> /\ m = n
    BY <1>0, <1>5 DEF StageAt, StagedOK, InPublication, Reached, ChainAfter
  <2>2. ReadyGens(t, a)' = ReadyGens(t, a)
    BY <1>0, <1>5, EventReady
  <2> QED BY <1>0, <1>2, <1>3, <1>4, <2>1, <2>2
<1>6. CASE job[p] \in SegmentJobs /\ completed[p] = <<0>>
  <2>1. BaselineStaged(p)
    <3>1. completed[p][1] = 0 /\ 1 \in 1 .. Len(completed[p])
      BY <1>6
    <3> QED BY <1>0, <3>1 DEF StageAt, StagedOK, GenerationsStaged
  <2>2. chain[p] = <<>> /\ g = 0 /\ n = 0
    BY <2>1, EmptySeq DEF BaselineStaged, Fresh
  <2>3. m = 0
    <3>1. Reached(p) = <<>>
      BY <1>0, <1>6, <2>2, LinksAfter DEF Reached, CallTypes
    <3> QED BY <3>1
  <2>4. ReadyGens(t, a)' = ReadyGens(t, a)
    BY <1>0, <1>6, BaselineReady
  <2>5. m = n /\ ~(m > g) /\ m >= n
    BY <2>2, <2>3
  <2> QED BY <1>0, <1>2, <1>3, <2>4, <2>5
<1>7. CASE job[p] \in SegmentJobs /\ completed[p] # <<0>>
  <2>1. GenerationsStaged(p) /\ completed[p] # <<>>
    BY <1>0, <1>7 DEF StageAt, StagedOK, BaselineStaged, JobAt
  <2>2. /\ m = n + Len(completed[p]) /\ Len(completed[p]) \in Nat
        /\ \A k \in 1 .. Len(completed[p]) : completed[p][k] = n + k
    BY <1>0, <2>1, StagedNumbers, LenProperties DEF ExactAt, CallTypes
  <2>3. ReadyGens(t, a)' = ReadyGens(t, a) \cup {completed[p][k] : k \in 1 .. Len(completed[p])}
    <3>1. AddsGroup(p, t, a)
      BY <1>0, <1>7, <2>1, GroupReady
    <3> QED BY <3>1 DEF AddsGroup
  <2>6. m >= n
    <3>1. \A x, y \in Nat : n + x = y => y >= n
      BY <1>0
    <3> QED BY <1>0, <2>2, <3>1
  <2>4. ReadyGens(t, a)' = g + 1 .. m
    <3>1. PICK l : l = Len(completed[p])
      OBVIOUS
    <3>2. {completed[p][k] : k \in 1 .. l} = {n + k : k \in 1 .. l}
      BY <2>2, <3>1
    <3>3. {n + k : k \in 1 .. l} = n + 1 .. m
      <4>1. l \in Nat /\ m = n + l
        BY <2>2, <3>1
      <4>2. \A x \in n + 1 .. m : x - n \in 1 .. l /\ x = n + (x - n)
        BY <1>0, <4>1
      <4>3. \A k \in 1 .. l : n + k \in n + 1 .. m
        BY <1>0, <4>1
      <4> QED BY <4>2, <4>3
    <3>4. (g + 1 .. n) \cup (n + 1 .. m) = g + 1 .. m
      <4> QED BY <1>0, <1>3, <2>6
    <3> QED BY <1>3, <2>3, <3>1, <3>2, <3>3, <3>4
  <2>5. ASSUME Checkpointed[t]
        PROVE  HasPoint(t, a, m)'
    <3>1. latest[p] # NoState
      BY <1>0, <2>1, <2>5 DEF StageAt, StateOK
    <3>2. MakesCheckpoint(p)
      BY <1>7, <3>1 DEF MakesCheckpoint
    <3>3. /\ Len(checkpoints[t]) + 1 \in DOMAIN checkpoints'[t]
          /\ checkpoints'[t][Len(checkpoints[t]) + 1] = NewCheckpoint(p)
      <4>1. Len(checkpoints[t]) \in Nat /\ DOMAIN checkpoints'[t] = 1 .. Len(checkpoints[t]) + 1
        BY <1>0, <3>2, PublishesPoint
      <4>2. checkpoints'[t][Len(checkpoints[t]) + 1] = NewCheckpoint(p)
        BY <1>0, <3>2, PublishesPoint
      <4> QED BY <4>1, <4>2
    <3>4. NewCheckpoint(p).attempt = a /\ NewCheckpoint(p).gen = m
      BY <1>0, <2>1 DEF NewCheckpoint, ExactAt, LinksOK
    <3> QED BY <3>3, <3>4 DEF HasPoint
  <2> QED BY <1>0, <1>2, <1>3, <2>4, <2>5, <2>6
<1> QED BY <1>0, <1>5, <1>6, <1>7 DEF JobAt

LEMMA StepPoint ==
    ASSUME LedgerInv, ConstantAssumption, ~AsyncSignals, NEW p \in Procs, Step(p), Move(p), attempt'[p] # 0
    PROVE  PointOK(p)'
<1>0. /\ StageInv /\ TypeInv /\ StageAt(p) /\ ExactAt(p) /\ JobAt(p) /\ CallTypes(p) /\ LedgerAt(p)
      /\ Len(Reached(p)) \in Nat /\ Len(chain[p]) \in Nat /\ resume[p].gen \in Nat
      /\ TaskOf[p] \in Tasks
  BY LedgerTypes
<1>a. PICK t, a, g : t = TaskOf[p] /\ a = attempt'[p] /\ g = resume'[p].gen
  OBVIOUS
(* The point itself is a constant of the step. *)
<1>b. ASSUME NEW n, n \in Published(p)', ReadyGens(t, a)' = g + 1 .. n,
             pc'[p] # "open" => n >= g, Checkpointed[t] /\ n > g => HasPoint(t, a, n)'
      PROVE  PointOK(p)'
  <2>1. Ready(TaskOf[p], attempt[p])' = Ready(t, a)'
    BY <1>a DEF Ready
  <2>2. ReadyGens(TaskOf[p], attempt[p])' = ReadyGens(t, a)'
    BY <1>a, <2>1 DEF ReadyGens
  <2>3. HasPoint(TaskOf[p], attempt[p], n)' = HasPoint(t, a, n)'
    BY <1>a DEF HasPoint
  <2>4. UpToPoint(p, n)'
    BY <1>a, <1>b, <2>2, <2>3 DEF UpToPoint
  <2> QED BY <1>b, <2>4 DEF PointOK
<1>1. CASE Leaves(p) \/ Starts(p)
  BY <1>0, <1>1 DEF Leaves, Starts, StageAt, ClaimOK, Unclaimed
<1>2. ASSUME attempt[p] # 0, attempt'[p] = attempt[p], resume'[p] = resume[p], pc[p] # "open",
             UNCHANGED storeVars, Published(p) \subseteq Published(p)'
      PROVE  PointOK(p)'
  <2>1. PICK n \in Published(p) : UpToPoint(p, n)
    BY <1>0, <1>2 DEF LedgerAt, PointOK
  <2>2. /\ ReadyGens(t, a) = g + 1 .. n /\ n >= g
        /\ Checkpointed[t] /\ n > g => HasPoint(t, a, n)
    BY <1>2, <1>a, <2>1 DEF UpToPoint
  <2>3. ReadyGens(t, a)' = ReadyGens(t, a) /\ HasPoint(t, a, n)' = HasPoint(t, a, n)
    BY <1>2 DEF storeVars, ReadyGens, Ready, HasPoint
  <2> QED BY <1>2, <1>b, <2>1, <2>2, <2>3
<1>3. CASE Walks(p)
  <2>1. pc[p] # "clear" /\ pc'[p] # "clear"
    BY <1>3 DEF Walks, WalksOutside, WalksIn, WalksOut
  <2>2. Published(p)' = Published(p)
    BY <1>3, <2>1 DEF Walks, Rests, Kept, Published, Reached
  <2>3. pc[p] # "open"
    BY <1>3 DEF Walks, WalksOutside, WalksIn, WalksOut
  <2> QED BY <1>2, <1>3, <2>2, <2>3 DEF Walks, Rests, Kept
<1>4. CASE Evaluates(p) \/ Tells(p) \/ StoresState(p) \/ Stages(p)
  <2>1. uncertain[p] = "none" /\ pc[p] # "clear" /\ pc[p] # "open"
    BY <1>0, <1>4 DEF Evaluates, Tells, StoresState, Stages, StageAt, ClaimOK
  <2>2. /\ uncertain'[p] = uncertain[p] /\ pc'[p] # "clear" /\ chain'[p] = chain[p]
        /\ attempt'[p] = attempt[p] /\ resume'[p] = resume[p] /\ UNCHANGED storeVars
    BY <1>4 DEF Evaluates, Tells, StoresState, Stages, Kept
  <2>3. Published(p)' = Published(p)
    BY <2>1, <2>2 DEF Published
  <2> QED BY <1>2, <2>1, <2>2, <2>3
<1>5. CASE Clears(p)
  <2>1. uncertain[p] = "none" /\ pc[p] = "clear" /\ pc'[p] # "clear" /\ uncertain'[p] = "none"
    BY <1>0, <1>5 DEF Clears, StageAt, ClaimOK
  <2>2. chain'[p] = Reached(p)
    <3>1. CASE job[p] \in SegmentJobs
      BY <1>5, <3>1 DEF Clears, PublishedSegments, Reached
    <3>2. CASE job[p] \notin SegmentJobs
      <4>1. completed[p] = <<>>
        BY <1>0, <2>1, <3>2 DEF StageAt, StagedOK, InPublication, JobAt
      <4> QED BY <1>5, <3>2, <4>1 DEF Clears, PublishedSegments, Reached, ChainAfter
    <3> QED BY <3>1, <3>2
  <2>3. Published(p)' = Published(p)
    BY <2>1, <2>2 DEF Published
  <2> QED BY <1>2, <1>5, <2>1, <2>3 DEF Clears
<1>6. ASSUME Publishes(p), attempt'[p] = attempt[p], resume'[p] = resume[p],
             Len(Reached(p)) \in Published(p)'
      PROVE  PointOK(p)'
  <2>1. PICK n, m : n = Len(chain[p]) /\ m = Len(Reached(p))
    OBVIOUS
  <2>2. /\ m \in Nat /\ g \in Nat /\ m >= n /\ n >= g /\ n \in Nat
        /\ ReadyGens(t, a)' = g + 1 .. m
        /\ Checkpointed[t] /\ m > g => HasPoint(t, a, m)'
    BY <1>6, <1>a, <2>1, PublishesUpTo
  <2>3. m >= g /\ m \in Published(p)'
    BY <1>6, <2>1, <2>2
  <2> QED BY <1>b, <2>2, <2>3
<1>7. CASE Commits(p)
  <2>1. Reached(p)' = Reached(p) /\ pc'[p] = "clear"
    BY <1>7 DEF Commits, Rests, Kept, Reached
  <2>2. Len(Reached(p)) \in Published(p)'
    BY <2>1 DEF Published
  <2> QED BY <1>6, <1>7, <2>2 DEF Commits, Rests, Kept
<1>8. CASE Escapes(p)
  <2>1. /\ pc[p] \in {"snapshot", "commit"} /\ chain'[p] = chain[p] /\ Reached(p)' = Reached(p)
        /\ pc'[p] = "failing" /\ attempt'[p] = attempt[p] /\ resume'[p] = resume[p]
        /\ uncertain[p] = "none" /\ attempt[p] # 0
    BY <1>0, <1>8 DEF Escapes, Holding, Reached, StageAt, ClaimOK
  <2>2. Published(p) = {Len(chain[p])} /\ Len(chain[p]) \in Published(p)'
    BY <2>1 DEF Published
  <2>3. CASE UNCHANGED storeVars
    BY <1>2, <2>1, <2>2, <2>3
  <2>4. CASE Publishes(p)
    <3>1. uncertain'[p] # "none"
      BY <1>8, <2>4 DEF Escapes, Publishes
    <3>2. Len(Reached(p)) \in Published(p)'
      BY <2>1, <3>1 DEF Published
    <3> QED BY <1>6, <2>1, <2>4, <3>2
  <2> QED BY <1>8, <2>3, <2>4 DEF Escapes
<1>9. CASE Opens(p)
  <2>1. /\ pc[p] = "open" /\ chain'[p] = resume[p].chain /\ attempt'[p] = attempt[p]
        /\ resume'[p] = resume[p] /\ uncertain[p] = "none" /\ uncertain'[p] = "none"
        /\ pc'[p] # "clear" /\ attempt[p] # 0 /\ chain[p] = <<>>
    BY <1>0, <1>9 DEF Opens, StageAt, ClaimOK, Unclaimed
  <2>2. Len(chain'[p]) = g /\ g \in Nat
    BY <1>0, <1>a, <2>1, UpToLen DEF ExactAt, Exact
  <2>3. Published(p)' = {g} /\ Published(p) = {0}
    BY <2>1, <2>2, EmptySeq DEF Published
  <2>4. UpToPoint(p, 0)
    BY <1>0, <2>1, <2>3 DEF LedgerAt, PointOK
  <2>5. ReadyGens(t, a) = g + 1 .. 0
    BY <1>a, <2>1, <2>4 DEF UpToPoint
  <2>6. ReadyGens(t, a)' = ReadyGens(t, a)
    BY <1>0, <1>a, <2>1, ReadyKeeps DEF Publishing, Publishes
  <2>7. g + 1 .. 0 = g + 1 .. g /\ ~(g > g)
    BY <2>2
  <2> QED BY <1>b, <2>2, <2>3, <2>5, <2>6, <2>7
<1>10. CASE Allocates(p)
  <2>1. /\ pc[p] = "begin" /\ pc'[p] = "open" /\ chain'[p] = <<>> /\ uncertain'[p] = "none"
        /\ resume'[p] = resume[p] /\ a = Current(t) + 1 /\ Current(t) \in Nat
    BY <1>0, <1>a, <1>10 DEF Allocates, Begins, Kept, StageAt, ClaimOK, Unclaimed, CallTypes
  <2>2. Published(p)' = {0}
    BY <2>1, EmptySeq DEF Published
  <2>3. ReadyGens(t, a) = {}
    BY <1>0, <1>a, <2>1 DEF ReadyGens, Ready, LedgerInv, HistoryBound
  <2>4. ReadyGens(t, a)' = ReadyGens(t, a)
    BY <1>0, <1>a, <2>1, ReadyKeeps DEF Publishing, Publishes
  <2>5. g \in Nat /\ g + 1 .. 0 = {} /\ ~(0 > g)
    <3>1. g \in Nat
      BY <1>0, <1>a, <2>1
    <3> QED BY <3>1
  <2> QED BY <1>b, <2>1, <2>2, <2>3, <2>4, <2>5
<1> QED BY <1>1, <1>3, <1>4, <1>5, <1>7, <1>8, <1>9, <1>10 DEF Move

(* The baseline is published once, and before everything else of a fresh attempt. *)
LEMMA StepBaseline ==
    ASSUME LedgerInv, ConstantAssumption, ~AsyncSignals, NEW p \in Procs, Step(p), Move(p), attempt'[p] # 0
    PROVE  BaselineOK(p)'
<1>0. /\ StageInv /\ TypeInv /\ StageAt(p) /\ JobAt(p) /\ CallTypes(p) /\ LedgerAt(p)
      /\ StagedOK(p) /\ ClaimOK(p) /\ TaskOf[p] \in Tasks
  BY LedgerTypes DEF StageAt
<1>a. PICK t, a : t = TaskOf[p] /\ a = attempt'[p]
  OBVIOUS
<1>b. ASSUME BaselineDue(p)' => ~HasBaseline(t, a)',
             resume'[p] = Fresh /\ BaselineDone(p)' => HasBaseline(t, a)'
      PROVE  BaselineOK(p)'
  <2>1. HasBaseline(TaskOf[p], attempt[p])' = HasBaseline(t, a)'
    BY <1>a DEF HasBaseline
  <2> QED BY <1>b, <2>1 DEF BaselineOK
<1>c. HasBaseline(t, a) => HasBaseline(t, a)'
  <2>1. Keeps(t)
    BY <1>0, <1>a, StepKeeps
  <2> QED BY <2>1 DEF HasBaseline, Keeps
<1>d. ASSUME attempt[p] # 0, attempt'[p] = attempt[p]
      PROVE  /\ BaselineDue(p) => ~HasBaseline(t, a)
             /\ resume[p] = Fresh /\ BaselineDone(p) => HasBaseline(t, a)
  BY <1>0, <1>a, <1>d DEF LedgerAt, BaselineOK
<1>e. ASSUME ~Publishes(p)
      PROVE  HasBaseline(t, a)' = HasBaseline(t, a)
  <2>1. ~Publishing(p, t, a)
    BY <1>e DEF Publishing
  <2> QED BY <1>0, <1>a, <2>1, ReadyKeeps
<1>f. ASSUME attempt[p] # 0, attempt'[p] = attempt[p], resume'[p] = resume[p], pc[p] # "commit",
             BaselineDue(p)' => BaselineDue(p),
             resume[p] = Fresh /\ BaselineDone(p)' => BaselineDone(p)
      PROVE  BaselineOK(p)'
  BY <1>b, <1>d, <1>e, <1>f DEF Publishes
<1>1. CASE Leaves(p) \/ Starts(p)
  BY <1>0, <1>1 DEF Leaves, Starts, ClaimOK, Unclaimed
<1>2. CASE Evaluates(p) \/ Tells(p)
  <2>1. attempt'[p] = attempt[p] /\ resume'[p] = resume[p] /\ pc[p] \in {"generate", "evaluated"} /\ attempt[p] # 0
    BY <1>0, <1>2 DEF Evaluates, Tells, Kept
  <2>2. BaselineDone(p)
    BY <2>1 DEF BaselineDone
  <2>3. BaselineDue(p)' => BaselineDue(p)
    BY <1>2 DEF Evaluates, Tells, Kept, BaselineDue, AtBaseline
  <2> QED BY <1>f, <2>1, <2>2, <2>3
<1>3. CASE StoresState(p)
  <2>1. attempt'[p] = attempt[p] /\ resume'[p] = resume[p] /\ pc[p] \in {"baseline", "barrier"} /\ attempt[p] # 0
        /\ pc'[p] = "staged" /\ completed'[p] = completed[p] /\ uncertain'[p] = uncertain[p]
    BY <1>3 DEF StoresState
  <2>2. CASE pc[p] = "baseline"
    <3>1. job'[p] = "baseline_ready" /\ completed[p] = <<>> /\ BaselineDue(p)
      BY <1>0, <1>3, <2>2 DEF StoresState, StagedOK, AtBaseline, BaselineDue
    <3>2. ~BaselineDone(p)'
      BY <2>1, <3>1 DEF BaselineDone, AtBarrier, Telling, InPublication
    <3> QED BY <1>f, <2>1, <3>1, <3>2
  <2>3. CASE pc[p] = "barrier"
    <3>1. job'[p] = "generation_ready" /\ BaselineDone(p)
      BY <1>3, <2>3 DEF StoresState, BaselineDone, AtBarrier
    <3>2. BaselineDue(p)' => BaselineDue(p)
      BY <2>1, <2>3, <3>1 DEF BaselineDue, AtBaseline
    <3> QED BY <1>f, <2>1, <3>1, <3>2
  <2> QED BY <2>1, <2>2, <2>3
<1>4. CASE Stages(p)
  <2>1. /\ attempt'[p] = attempt[p] /\ resume'[p] = resume[p] /\ pc[p] = "staged" /\ attempt[p] # 0
        /\ pc'[p] \in {"snapshot", "generate"} /\ job'[p] = job[p] /\ job[p] \in BarrierJobs
        /\ completed'[p] = Append(completed[p], gen[p])
    BY <1>0, <1>4 DEF Stages, JobAt
  <2>2. CASE job[p] = "baseline_ready"
    <3>1. completed[p] = <<>> /\ gen[p] = 0 /\ BaselineDue(p)
      BY <1>0, <2>1, <2>2 DEF StagedOK, AtBaseline, BaselineDue
    <3>2. completed'[p] = <<0>> /\ pc'[p] = "snapshot"
      BY <1>4, <2>1, <2>2, <3>1 DEF Stages
    <3>3. ~BaselineDone(p)'
      BY <2>1, <2>2, <3>2 DEF BaselineDone, AtBarrier, Telling, InPublication
    <3> QED BY <1>f, <2>1, <3>1, <3>3
  <2>3. CASE job[p] = "generation_ready"
    <3>1. BaselineDone(p) /\ gen[p] > 0 /\ gen[p] \in Nat
      BY <1>0, <2>1, <2>3 DEF BaselineDone, AtBarrier, StageAt, GenOK, CallTypes
    <3>2. completed'[p] # <<0>>
      <4>1. LastOf(completed'[p]) = gen[p]
        BY <1>0, <2>1, <3>1, LastOfAppend DEF CallTypes
      <4>2. LastOf(<<0>>) = 0
        BY DEF LastOf
      <4> QED BY <3>1, <4>1, <4>2
    <3>3. ~BaselineDue(p)'
      BY <2>1, <3>2 DEF BaselineDue, AtBaseline
    <3> QED BY <1>f, <2>1, <3>1, <3>3
  <2> QED BY <2>1, <2>2, <2>3 DEF BarrierJobs
<1>5. CASE Walks(p)
  <2>1. /\ attempt'[p] = attempt[p] /\ resume'[p] = resume[p] /\ completed'[p] = completed[p] /\ attempt[p] # 0
        /\ uncertain'[p] = uncertain[p] /\ pc[p] # "commit" /\ (WalksIn(p) \/ WalksOut(p))
    <3>1. attempt'[p] = attempt[p] /\ resume'[p] = resume[p] /\ completed'[p] = completed[p] /\ uncertain'[p] = uncertain[p]
      BY <1>5 DEF Walks, Rests, Kept
    <3>2. attempt[p] # 0 /\ ~WalksOutside(p)
      BY <1>0, <3>1 DEF ClaimOK, Unclaimed, WalksOutside
    <3> QED BY <1>5, <3>1, <3>2 DEF Walks, WalksIn, WalksOut
  <2>2. pc[p] \notin {"open", "baseline", "staged", "clear"} \/ pc'[p] = "failing"
    BY <2>1 DEF WalksIn, WalksOut
  <2>3. BaselineDue(p)' => BaselineDue(p)
    <3>1. pc[p] # "clear" /\ pc'[p] \notin {"open", "baseline", "staged"}
      BY <2>1 DEF WalksIn, WalksOut
    <3> QED BY <2>1, <3>1 DEF BaselineDue, AtBaseline
  <2>4. CASE WalksIn(p)
    <3>1. BaselineDone(p)' => BaselineDone(p)
      BY <1>0, <2>1, <2>4 DEF WalksIn, BaselineDone, AtBarrier, Telling, InPublication, StagedOK
    <3> QED BY <1>f, <2>1, <2>3, <3>1
  <2>5. CASE WalksOut(p)
    <3>1. pc[p] = "notify" => completed[p] = <<>>
      BY <1>0 DEF StagedOK
    <3>2. pc[p] = "notify" /\ job[p] = "resumed" => resume[p] # Fresh
      BY <1>0 DEF LedgerAt, OriginOK, Telling
    <3>3. resume[p] = Fresh /\ BaselineDone(p)' => BaselineDone(p)
      BY <2>1, <2>5, <3>1, <3>2 DEF WalksOut, BaselineDone, AtBarrier, Telling, InPublication
    <3> QED BY <1>f, <2>1, <2>3, <3>3
  <2> QED BY <2>1, <2>4, <2>5
<1>6. CASE Clears(p)
  <2>1. /\ attempt'[p] = attempt[p] /\ resume'[p] = resume[p] /\ pc[p] = "clear" /\ attempt[p] # 0
        /\ job'[p] = job[p] /\ pc'[p] \in {"record", "notify"} /\ completed'[p] = <<>>
    BY <1>0, <1>6 DEF Clears, StagedOK, InPublication, JobAt
  <2>2. ~BaselineDue(p)'
    BY <2>1 DEF BaselineDue, AtBaseline
  <2>3. BaselineDone(p)' => BaselineDone(p)
    <3>1. job[p] = "baseline_ready" => completed[p] = <<0>>
      BY <1>0, <2>1 DEF StagedOK, BaselineStaged, GenerationsStaged, InPublication
    <3> QED BY <2>1, <3>1 DEF BaselineDone, AtBarrier, Telling, InPublication
  <2> QED BY <1>f, <2>1, <2>2, <2>3
<1>7. CASE Commits(p)
  <2>1. /\ attempt'[p] = attempt[p] /\ resume'[p] = resume[p] /\ pc[p] = "commit" /\ attempt[p] # 0 /\ pc'[p] = "clear"
        /\ job'[p] = job[p] /\ completed'[p] = completed[p] /\ Publishes(p)
    BY <1>7 DEF Commits, Rests, Kept, Publishes
  <2>2. ~BaselineDue(p)'
    BY <2>1 DEF BaselineDue, AtBaseline
  <2>3. CASE completed[p] = <<0>>
    <3>1. job[p] \in SegmentJobs
      BY <1>0, <2>1, <2>3 DEF StagedOK, InPublication, JobAt
    <3>2. HasBaseline(t, a)'
      BY <1>0, <1>a, <2>1, <2>3, <3>1, BaselineReady
    <3> QED BY <1>b, <2>2, <3>2
  <2>4. CASE completed[p] # <<0>>
    <3>1. BaselineDone(p)' => BaselineDone(p)
      BY <2>1, <2>4 DEF BaselineDone, AtBarrier, Telling, InPublication
    <3> QED BY <1>b, <1>c, <1>d, <2>1, <2>2, <3>1
  <2> QED BY <2>3, <2>4
<1>8. CASE Escapes(p)
  <2>1. /\ attempt'[p] = attempt[p] /\ resume'[p] = resume[p] /\ pc[p] \in {"snapshot", "commit"} /\ attempt[p] # 0
        /\ pc'[p] = "failing" /\ completed'[p] = completed[p] /\ uncertain[p] = "none"
    BY <1>0, <1>8 DEF Escapes, Holding, ClaimOK
  <2>2. BaselineDone(p)' => BaselineDone(p)
    BY <2>1 DEF BaselineDone, AtBarrier, Telling, InPublication
  <2>3. CASE pc[p] = "snapshot"
    <3>1. BaselineDue(p)' => BaselineDue(p)
      BY <2>1, <2>3 DEF BaselineDue, AtBaseline
    <3> QED BY <1>f, <2>1, <2>2, <2>3, <3>1
  <2>4. CASE pc[p] = "commit"
    <3>1. ~BaselineDue(p)'
      BY <1>8, <2>1, <2>4 DEF Escapes, BaselineDue, AtBaseline
    <3> QED BY <1>b, <1>c, <1>d, <2>1, <2>2, <3>1
  <2> QED BY <2>1, <2>3, <2>4
<1>9. CASE Opens(p)
  <2>1. /\ attempt'[p] = attempt[p] /\ resume'[p] = resume[p] /\ pc[p] = "open" /\ attempt[p] # 0
        /\ pc'[p] \in {"baseline", "announce", "failing"} /\ completed'[p] = <<>>
    BY <1>0, <1>9 DEF Opens, ClaimOK
  <2>2. BaselineDue(p) /\ ~BaselineDone(p)'
    BY <2>1 DEF BaselineDue, BaselineDone, AtBarrier, Telling, InPublication
  <2> QED BY <1>f, <2>1, <2>2
<1>10. CASE Allocates(p)
  <2>1. /\ pc[p] = "begin" /\ pc'[p] = "open" /\ completed'[p] = <<>> /\ a = Current(t) + 1 /\ Current(t) \in Nat
    BY <1>0, <1>a, <1>10 DEF Allocates, Begins, Kept, ClaimOK, Unclaimed, CallTypes
  <2>2. ~BaselineDone(p)'
    BY <2>1 DEF BaselineDone, AtBarrier, Telling, InPublication
  <2>3. ~HasBaseline(t, a)
    BY <1>0, <1>a, <2>1 DEF HasBaseline, LedgerInv, HistoryBound
  <2>4. ~HasBaseline(t, a)'
    BY <1>e, <2>1, <2>3 DEF Publishes
  <2> QED BY <1>b, <2>2, <2>4
<1> QED BY <1>1, <1>2, <1>3, <1>4, <1>5, <1>6, <1>7, <1>8, <1>9, <1>10 DEF Move

(* A generation leaves the buffer only for the staged part or the archive. *)
LEMMA StepBuffer ==
    ASSUME LedgerInv, ConstantAssumption, ~AsyncSignals, NEW p \in Procs, Step(p), Move(p), attempt'[p] # 0,
           pc'[p] # "record"
    PROVE  Buffered(p)'
<1>0. /\ StageInv /\ TypeInv /\ StageAt(p) /\ ExactAt(p) /\ JobAt(p) /\ CallTypes(p) /\ LedgerAt(p)
      /\ StagedOK(p) /\ ClaimOK(p)
  BY LedgerTypes DEF StageAt
<1>1. ExactInv' /\ TypeInv'
  BY ConstantAssumption, NextExact DEF LedgerInv, ExactInv, Next, Step
<1>2. PICK n : n = Len(Reached(p)')
  OBVIOUS
<1>3. n \in Nat /\ gen'[p] \in Nat /\ resume'[p].gen \in Nat
  <2>1. chain'[p] \in Seq(Nat) /\ completed'[p] \in Seq(Nat) /\ gen'[p] \in Nat /\ resume'[p] \in CheckpointType
    BY <1>1 DEF TypeInv, TypeOK, WriterType, CallType
  <2> QED BY <1>2, <2>1, ChainAfterType, LenProperties DEF Reached, CheckpointType
<1>4. PlaceOK(p)'
  BY <1>1 DEF ExactInv, ExactAt
<1>5. ASSUME pending'[p] = <<>>, (AtGeneration(p) \/ AtBaseline(p))' \/ gen'[p] = 0
      PROVE  Buffered(p)'
  <2>1. ~Unstaged(p)'
    BY <1>5 DEF Unstaged
  <2>2. gen'[p] = n \/ gen'[p] = 0
    BY <1>2, <1>4, <1>5 DEF PlaceOK
  <2> QED BY <1>2, <1>3, <2>1, <2>2 DEF Buffered
<1>6. ASSUME gen'[p] = gen[p], Reached(p)' = Reached(p), pending'[p] = pending[p], resume'[p] = resume[p],
             attempt[p] # 0, pc[p] # "record"
      PROVE  Buffered(p)'
  BY <1>0, <1>6 DEF LedgerAt, TailOK, Buffered, Unstaged
<1>7. CASE Leaves(p) \/ Starts(p)
  BY <1>0, <1>7 DEF Leaves, Starts, ClaimOK, Unclaimed
<1>8. CASE Allocates(p) \/ Opens(p)
  BY <1>0, <1>5, <1>8 DEF Allocates, Begins, Kept, Opens, LedgerAt, OriginOK, ClaimOK, Unclaimed, AtGeneration,
     AtBaseline
<1>9. CASE Evaluates(p)
  <2>1. /\ pc[p] = "generate" /\ pc'[p] = "evaluated" /\ gen'[p] = gen[p] /\ resume'[p] = resume[p]
        /\ pending'[p] = Append(pending[p], gen[p] + 1) /\ attempt[p] # 0 /\ Reached(p)' = Reached(p)
    BY <1>0, <1>9 DEF Evaluates, Kept, Reached
  <2>2. gen[p] = n /\ pending[p] \in Seq(Nat) /\ gen[p] \in Nat
    BY <1>0, <1>2, <1>4, <2>1 DEF PlaceOK, AtGeneration, TypeInv, TypeOK, WriterType, CallType
  <2>3. ~Unstaged(p)
    <3>1. Buffered(p) /\ n = Len(Reached(p))
      BY <1>0, <1>2, <2>1 DEF LedgerAt, TailOK
    <3>2. ~(gen[p] > n)
      BY <1>3, <2>2
    <3> QED BY <3>1, <3>2 DEF Buffered
  <2>4. ASSUME NEW i \in DOMAIN pending'[p]
        PROVE  pending'[p][i] # gen[p]
    <3>1. i \in 1 .. Len(pending[p]) + 1 /\ Len(pending[p]) \in Nat
      BY <2>1, <2>2, <2>4, AppendProperties, LenProperties
    <3>2. CASE i = Len(pending[p]) + 1
      <4>1. pending'[p][i] = gen[p] + 1
        BY <2>1, <2>2, <3>2, AppendProperties
      <4> QED BY <2>2, <4>1
    <3>3. CASE i \in 1 .. Len(pending[p])
      <4>1. pending'[p][i] = pending[p][i] /\ i \in DOMAIN pending[p]
        BY <2>1, <2>2, <3>3, AppendProperties
      <4>2. pending[p][i] # gen[p]
        BY Zenon, <2>3, <4>1 DEF Unstaged
      <4> QED BY <4>1, <4>2
    <3> QED BY <3>1, <3>2, <3>3
  <2>5. ~Unstaged(p)'
    BY <2>1, <2>4 DEF Unstaged
  <2>6. gen'[p] = n /\ ~(gen'[p] > n) /\ gen'[p] >= n
    BY <1>3, <2>1, <2>2
  <2> QED BY <1>2, <2>5, <2>6 DEF Buffered
<1>10. CASE Tells(p)
  <2>1. \E i \in DOMAIN pending[p] : pending[p][i] = gen[p] + 1
    BY <1>0, <1>10 DEF Tells, LedgerAt, TailOK
  <2>2. Unstaged(p)'
    BY <1>10, <2>1 DEF Tells, Unstaged
  <2>3. gen'[p] = n + 1
    BY <1>2, <1>4, <1>10 DEF Tells, AtBarrier, PlaceOK
  <2>4. gen'[p] > n /\ gen'[p] >= n
    BY <1>3, <2>3
  <2> QED BY <1>2, <2>2, <2>4 DEF Buffered
<1>11. CASE StoresState(p)
  <2>1. Reached(p)' = Reached(p)
    BY <1>11 DEF StoresState, Reached
  <2> QED BY <1>0, <1>6, <1>11, <2>1 DEF StoresState
<1>12. CASE Stages(p)
  BY <1>0, <1>5, <1>12 DEF Stages, AtGeneration, JobAt, BarrierJobs
<1>13. CASE Walks(p)
  <2>1. gen'[p] = gen[p] /\ Reached(p)' = Reached(p) /\ pending'[p] = pending[p] /\ attempt[p] # 0
        /\ resume'[p] = resume[p]
    BY <1>13 DEF Walks, Rests, Kept, Reached
  <2>2. pc[p] # "record"
    BY <1>13 DEF Walks, WalksOutside, WalksIn, WalksOut
  <2> QED BY <1>6, <2>1, <2>2
<1>14. CASE Commits(p) \/ Escapes(p)
  <2>1. gen'[p] = gen[p] /\ Reached(p)' = Reached(p) /\ attempt[p] # 0 /\ pc[p] # "record"
        /\ pending'[p] = pending[p] /\ resume'[p] = resume[p]
    BY <1>0, <1>14 DEF Commits, Publishes, Escapes, Holding, Rests, Kept, Reached
  <2> QED BY <1>6, <2>1
<1>15. CASE Clears(p)
  <2>1. /\ gen'[p] = gen[p] /\ attempt[p] # 0 /\ pc[p] = "clear" /\ job[p] # "failed" /\ pc'[p] = "notify"
        /\ job'[p] = job[p] /\ resume'[p] = resume[p]
    BY <1>0, <1>15 DEF Clears
  <2>2. CASE job[p] \notin SegmentJobs
    <3>1. AtGeneration(p)' /\ pending'[p] = <<>>
      BY <1>15, <2>1, <2>2 DEF AtGeneration, Clears, SegmentJobs, FlushJobs
    <3> QED BY <1>5, <3>1
  <2>3. CASE job[p] \in SegmentJobs
    <3>1. chain'[p] = Reached(p) /\ completed'[p] = <<>> /\ pending'[p] = pending[p]
      BY <1>15, <2>3 DEF Clears, PublishedSegments, Reached
    <3>2. Reached(p)' = Reached(p)
      BY <3>1 DEF Reached, ChainAfter
    <3> QED BY <1>6, <2>1, <3>1, <3>2
  <2> QED BY <2>2, <2>3
<1> QED BY <1>7, <1>8, <1>9, <1>10, <1>11, <1>12, <1>13, <1>14, <1>15 DEF Move

LEMMA StepTail ==
    ASSUME LedgerInv, ConstantAssumption, ~AsyncSignals, NEW p \in Procs, Step(p), Move(p), attempt'[p] # 0
    PROVE  TailOK(p)'
<1>0. /\ StageInv /\ TypeInv /\ StageAt(p) /\ JobAt(p) /\ CallTypes(p) /\ LedgerAt(p)
      /\ StagedOK(p) /\ ClaimOK(p) /\ TaskOf[p] \in Tasks
  BY LedgerTypes DEF StageAt
<1>1. ASSUME pc'[p] = "evaluated"
      PROVE  \E i \in DOMAIN pending'[p] : pending'[p][i] = gen'[p] + 1
  <2>1. Evaluates(p)
    BY <1>0, <1>1 DEF Move, Leaves, Starts, Allocates, Opens, Tells, StoresState, Stages, Walks, WalksOutside,
       WalksIn, WalksOut, Commits, Clears, Escapes
  <2>2. pending[p] \in Seq(Nat) /\ gen[p] \in Nat
    BY <1>0 DEF TypeInv, TypeOK, WriterType, CallType
  <2>3. gen'[p] = gen[p] /\ pending'[p] = Append(pending[p], gen[p] + 1)
    BY <2>1 DEF Evaluates, Kept
  <2>4. Len(pending'[p]) \in DOMAIN pending'[p] /\ pending'[p][Len(pending'[p])] = gen[p] + 1
    BY <2>2, <2>3, AppendProperties, LenProperties
  <2> QED BY <2>3, <2>4
<1>2. ASSUME resume'[p] = Fresh, gen'[p] > 0 \/ pending'[p] # <<>>
      PROVE  HasBaseline(TaskOf[p], attempt[p])'
  <2>1. CASE Allocates(p) \/ Leaves(p) \/ Starts(p)
    BY <1>0, <1>2, <2>1 DEF Allocates, Begins, Kept, Leaves, Starts, ClaimOK, Unclaimed, LedgerAt, OriginOK
  <2>2. CASE Opens(p)
    BY <1>0, <1>2, <2>2 DEF Opens, ClaimOK, Unclaimed, LedgerAt, OriginOK, Fresh
  <2>3. CASE ~(Allocates(p) \/ Leaves(p) \/ Starts(p) \/ Opens(p))
    <3>1. attempt'[p] = attempt[p] /\ attempt[p] # 0 /\ resume'[p] = resume[p]
      BY <2>3 DEF Move, Evaluates, Tells, StoresState, Stages, Walks, Rests, Kept, Commits, Clears, Escapes
    <3>2. HasBaseline(TaskOf[p], attempt[p])
      <4>1. CASE gen[p] > 0 \/ pending[p] # <<>>
        BY <1>0, <1>2, <3>1, <4>1 DEF LedgerAt, TailOK
      <4>2. CASE Evaluates(p)
        BY <1>0, <1>2, <3>1, <4>2 DEF Evaluates, LedgerAt, BaselineOK, BaselineDone
      <4>3. CASE Tells(p)
        BY <1>0, <1>2, <3>1, <4>3 DEF Tells, LedgerAt, BaselineOK, BaselineDone
      <4>4. CASE ~Evaluates(p) /\ ~Tells(p)
        <5>1. gen'[p] = gen[p] /\ (pending'[p] = pending[p] \/ pending'[p] = <<>>)
          BY <2>3, <4>4 DEF Move, StoresState, Stages, Walks, Rests, Kept, Commits, Clears, Escapes
        <5> QED BY <1>2, <4>1, <5>1
      <4> QED BY <4>2, <4>3, <4>4
    <3>3. Keeps(TaskOf[p])
      BY <1>0, StepKeeps
    <3> QED BY <3>1, <3>2, <3>3 DEF HasBaseline, Keeps
  <2> QED BY <2>1, <2>2, <2>3
<1> QED BY <1>1, <1>2, StepBuffer DEF TailOK

-----------------------------------------------------------------------------
(* The generations of an attempt in order, and the ledger as an invariant *)

LEMMA StepOrder ==
    ASSUME LedgerInv, ConstantAssumption, NEW p \in Procs, Step(p)
    PROVE  AttemptOrder'
<1>0. StageInv /\ TypeInv /\ CallTypes(p) /\ LedgerAt(p) /\ StageAt(p) /\ JobAt(p) /\ ExactAt(p)
      /\ Len(chain[p]) \in Nat
  BY LedgerTypes
<1> SUFFICES ASSUME NEW t \in Tasks, NEW a \in DOMAIN attempts'[t]
             PROVE  /\ \A i, j \in Ready(t, a)' : i < j => history'[t][i].gen < history'[t][j].gen
                    /\ \A g \in ReadyGens(t, a)' :
                          /\ g > attempts'[t][a].base
                          /\ attempts'[t][a].base + 1 .. g \subseteq ReadyGens(t, a)'
  BY DEF AttemptOrder, Ready, ReadyGens
<1>1. CASE a \notin 1 .. Current(t)
  <2>1. Begins(p)
    BY <1>0, <1>1, AttemptsKeep
  <2>2. ~Publishing(p, t, a)
    BY <2>1 DEF Begins, Publishing, Publishes
  <2>3. Ready(t, a) = {}
    BY <1>1 DEF Ready, LedgerInv, HistoryBound
  <2>4. Ready(t, a)' = {} /\ ReadyGens(t, a)' = {}
    <3>1. ReadyGens(t, a) = {}
      BY <2>3 DEF ReadyGens
    <3> QED BY <1>0, <2>2, <2>3, <3>1, ReadyKeeps
  <2> QED BY <2>4
<1>2. ASSUME a \in 1 .. Current(t)
      PROVE  /\ attempts'[t][a] = attempts[t][a] /\ Ready(t, a) \subseteq DOMAIN history[t]
             /\ \A i, j \in Ready(t, a) : i < j => history[t][i].gen < history[t][j].gen
             /\ \A g \in ReadyGens(t, a) :
                   /\ g > attempts[t][a].base
                   /\ attempts[t][a].base + 1 .. g \subseteq ReadyGens(t, a)
  BY <1>0, <1>2, AttemptsKeep DEF LedgerInv, AttemptOrder, Ready
<1>3. CASE a \in 1 .. Current(t) /\ ~Publishing(p, t, a)
  <2>1. /\ Ready(t, a)' = Ready(t, a) /\ ReadyGens(t, a)' = ReadyGens(t, a)
        /\ \A i \in Ready(t, a) : history'[t][i] = history[t][i]
    BY <1>0, <1>3, ReadyKeeps
  <2> QED BY <1>2, <1>3, <2>1
<1>4. CASE a \in 1 .. Current(t) /\ Publishing(p, t, a)
  <2>0. Publishes(p) /\ t = TaskOf[p] /\ a = attempt[p] /\ attempt[p] # 0 /\ pc[p] = "commit"
    BY <1>4 DEF Publishing, Publishes
  <2>1. PICK n, m, g : n = Len(chain[p]) /\ m = Len(Reached(p)) /\ g = resume[p].gen
    OBVIOUS
  <2>2. /\ n \in Nat /\ m \in Nat /\ g \in Nat /\ m >= n /\ n >= g
        /\ ReadyGens(t, a) = g + 1 .. n /\ ReadyGens(t, a)' = g + 1 .. m
    BY <2>0, <2>1, PublishesUpTo
  <2>3. attempts'[t][a].base = g
    <3>1. attempts[t][a] = AttemptFact(p)
      BY <1>0, <2>0 DEF LedgerAt, FactOK
    <3>2. AttemptFact(p).base = g
      BY <2>1 DEF AttemptFact
    <3> QED BY <1>2, <1>4, <3>1, <3>2
  <2>4. \A h \in ReadyGens(t, a)' :
            h > attempts'[t][a].base /\ attempts'[t][a].base + 1 .. h \subseteq ReadyGens(t, a)'
    BY <2>2, <2>3
  <2>5. ASSUME Ready(t, a)' = Ready(t, a), \A i \in Ready(t, a) : history'[t][i] = history[t][i]
        PROVE  \A i, j \in Ready(t, a)' : i < j => history'[t][i].gen < history'[t][j].gen
    BY <1>2, <1>4, <2>5
  <2>6. CASE job[p] \in EventJobs
    BY <1>0, <2>0, <2>4, <2>5, <2>6, EventReady
  <2>7. CASE job[p] \in SegmentJobs /\ completed[p] = <<0>>
    BY <1>0, <2>0, <2>4, <2>5, <2>7, BaselineReady
  <2>8. CASE job[p] \in SegmentJobs /\ completed[p] # <<0>>
    <3>1. GenerationsStaged(p) /\ completed[p] # <<>>
      BY <1>0, <2>0, <2>8 DEF StageAt, StagedOK, BaselineStaged, JobAt
    <3>2. AddsGroup(p, t, a)
      BY <1>0, <2>0, <2>8, <3>1, GroupReady
    <3>3. PICK l, s : l = Len(history[t]) /\ s = Len(completed[p])
      OBVIOUS
    <3>4. \A k \in 1 .. s : completed[p][k] = n + k
      BY <1>0, <2>1, <3>1, <3>3, StagedNumbers DEF ExactAt
    <3>5. /\ l \in Nat /\ s \in Nat /\ Ready(t, a) \subseteq 1 .. l
          /\ Ready(t, a)' = Ready(t, a) \cup {l + 2 * k : k \in 1 .. s}
          /\ \A i \in Ready(t, a) : history'[t][i] = history[t][i]
          /\ \A k \in 1 .. s : history'[t][l + 2 * k].gen = n + k
      <4>1. /\ l \in Nat /\ s \in Nat /\ Ready(t, a) \subseteq 1 .. l
            /\ \A i \in Ready(t, a) : history'[t][i] = history[t][i]
        BY <3>2, <3>3 DEF AddsGroup
      <4>2. Ready(t, a)' = Ready(t, a) \cup {l + 2 * k : k \in 1 .. s}
        BY <3>2, <3>3 DEF AddsGroup
      <4>3. \A k \in 1 .. s : history'[t][l + 2 * k].gen = n + k
        BY <3>2, <3>3, <3>4 DEF AddsGroup
      <4> QED BY <4>1, <4>2, <4>3
    <3>6. \A i \in Ready(t, a) : i \in 1 .. l /\ history'[t][i].gen \in g + 1 .. n
      BY <2>2, <3>5 DEF ReadyGens
    <3>7. ASSUME NEW i \in Ready(t, a)', NEW j \in Ready(t, a)', i < j
          PROVE  history'[t][i].gen < history'[t][j].gen
      <4>1. CASE i \in Ready(t, a) /\ j \in Ready(t, a)
        BY <1>2, <1>4, <3>5, <3>7, <4>1
      <4>2. CASE i \in Ready(t, a) /\ j \notin Ready(t, a)
        <5>1. PICK k \in 1 .. s : j = l + 2 * k
          BY <3>5, <4>2
        <5>2. history'[t][j].gen = n + k
          BY <3>5, <5>1
        <5> QED BY <2>2, <3>5, <3>6, <4>2, <5>2
      <4>3. CASE i \notin Ready(t, a) /\ j \in Ready(t, a)
        <5>1. PICK k \in 1 .. s : i = l + 2 * k
          BY <3>5, <4>3
        <5>2. j \in 1 .. l
          BY <3>6, <4>3
        <5> QED BY <3>5, <3>7, <5>1, <5>2
      <4>4. CASE i \notin Ready(t, a) /\ j \notin Ready(t, a)
        <5>1. PICK k \in 1 .. s : i = l + 2 * k
          BY <3>5, <4>4
        <5>2. PICK x \in 1 .. s : j = l + 2 * x
          BY <3>5, <4>4
        <5>3. k < x
          BY <3>5, <3>7, <5>1, <5>2
        <5>4. history'[t][i].gen = n + k /\ history'[t][j].gen = n + x
          BY <3>5, <5>1, <5>2
        <5> QED BY <2>2, <3>5, <5>3, <5>4
      <4> QED BY <4>1, <4>2, <4>3, <4>4
    <3> QED BY <2>4, <3>7
  <2> QED BY <1>0, <2>0, <2>6, <2>7, <2>8 DEF JobAt
<1> QED BY <1>1, <1>3, <1>4

LEMMA StepLedger ==
    ASSUME LedgerInv, ConstantAssumption, ~AsyncSignals, NEW p \in Procs, Step(p)
    PROVE  LedgerInv'
<1>0. StageInv /\ TypeInv
  BY LedgerTypes
<1>1. OnlyCaller(p) /\ Move(p)
  BY <1>0, StepMoves
<1>2. ExactInv' /\ StageInv'
  BY <1>0, ConstantAssumption, NextExact, StepStage DEF LedgerInv, Next, Step
<1>3. HistoryBound' /\ AttemptOrder'
  BY <1>0, StepBound, StepOrder DEF LedgerInv
<1>4. LedgerAt(p)'
  BY <1>1, StepOrigin, StepFact, StepReach, StepPoint, StepBaseline, StepTail DEF LedgerAt
<1>5. \A q \in Procs : q # p => LedgerAt(q)'
  BY <1>1, OtherLedger
<1> QED BY <1>2, <1>3, <1>4, <1>5 DEF LedgerInv

LEMMA StutterLedger ==
    ASSUME LedgerInv, ConstantAssumption, ~AsyncSignals, UNCHANGED vars
    PROVE  LedgerInv'
<1>1. ExactInv' /\ StageInv'
  BY NextExact, StutterStage DEF LedgerInv
<1>2. /\ history' = history /\ attempts' = attempts /\ checkpoints' = checkpoints /\ pc' = pc
      /\ job' = job /\ attempt' = attempt /\ resume' = resume /\ gen' = gen
      /\ completed' = completed /\ chain' = chain /\ uncertain' = uncertain /\ pending' = pending
  BY DEF vars, storeVars, callVars, writerVars
<1>3. HistoryBound' /\ AttemptOrder'
  <2>1. HistoryBound' = HistoryBound
    BY <1>2 DEF HistoryBound, Current
  <2>2. AttemptOrder' = AttemptOrder
    BY <1>2 DEF AttemptOrder, Ready, ReadyGens
  <2> QED BY <2>1, <2>2 DEF LedgerInv
<1>4. ASSUME NEW q \in Procs
      PROVE  LedgerAt(q)'
  <2>1. OriginOK(q)' = OriginOK(q) /\ FactOK(q)' = FactOK(q) /\ ReachOK(q)' = ReachOK(q)
    BY <1>2 DEF OriginOK, FactOK, AttemptFact, ReachOK, Reached, Telling, InPublication
  <2>2. BaselineOK(q)' = BaselineOK(q)
    BY <1>2 DEF BaselineOK, BaselineDue, BaselineDone, HasBaseline, AtBaseline, AtBarrier, Telling,
       InPublication
  <2>3. PointOK(q)' = PointOK(q)
    BY <1>2 DEF PointOK, Published, UpToPoint, HasPoint, ReadyGens, Ready, Reached
  <2>4. TailOK(q)' = TailOK(q)
    BY <1>2 DEF TailOK, Buffered, Unstaged, Reached, HasBaseline
  <2> QED BY <1>2, <2>1, <2>2, <2>3, <2>4 DEF LedgerInv, LedgerAt
<1> QED BY <1>1, <1>3, <1>4 DEF LedgerInv

LEMMA InitLedger ==
    ASSUME ConstantAssumption, Init
    PROVE  LedgerInv
<1>1. StageInv /\ ExactInv
  BY InitStage, InitExact
<1>2. /\ \A t \in Tasks : history[t] = <<>> /\ attempts[t] = <<>>
      /\ \A q \in Procs : attempt[q] = 0 /\ resume[q] = Fresh /\ gen[q] = 0 /\ pc[q] = "idle"
  BY DEF Init
<1>3. HistoryBound /\ AttemptOrder
  BY <1>2 DEF HistoryBound, AttemptOrder
<1>4. \A q \in Procs : LedgerAt(q)
  BY <1>2 DEF LedgerAt, OriginOK, Telling, InPublication
<1> QED BY <1>1, <1>3, <1>4 DEF LedgerInv

LEMMA NextLedger ==
    ASSUME LedgerInv, ConstantAssumption, ~AsyncSignals, [Next]_vars
    PROVE  LedgerInv'
BY StepLedger, StutterLedger DEF Next, Step

LEMMA LedgerInvariant ==
    ASSUME ~AsyncSignals
    PROVE  Spec => []LedgerInv
<1>1. Init => LedgerInv
  BY ConstantAssumption, InitLedger
<1>2. LedgerInv /\ [Next]_vars => LedgerInv'
  BY ConstantAssumption, NextLedger
<1> QED BY <1>1, <1>2, PTL DEF Spec

(* Every attempt publishes its generations one after the other from its       *)
(* resume point, with no gap and none twice, through crashes, failed commits, *)
(* flushed tails and callers that have been superseded.                       *)
THEOREM AttemptsOrdered == ~AsyncSignals => (Spec => []AttemptOrder)
<1>1. LedgerInv => AttemptOrder
  BY DEF LedgerInv
<1> SUFFICES ASSUME ~AsyncSignals
             PROVE  Spec => []AttemptOrder
  OBVIOUS
<1> QED BY <1>1, LedgerInvariant, PTL

(* When the failure of an attempt is recorded, the last generation it has     *)
(* completed is published, with a checkpoint if the policy keeps them, nothing *)
(* is left staged, and a fresh attempt that evaluated has its baseline.        *)
THEOREM TailKept == ~AsyncSignals => (Spec => []FailureKeepsTail)
<1>1. ASSUME LedgerInv, ConstantAssumption, NEW p \in Procs, RecordsFailure(p),
             NEW t, t = TaskOf[p], NEW a, a = attempt[p], NEW n, n = CompletedGen(p)
      PROVE  /\ completed[p] = <<>>
             /\ n > resume[p].gen => n \in ReadyGens(t, a) /\ (Checkpointed[t] => HasPoint(t, a, n))
             /\ resume[p] = Fresh /\ (gen[p] > 0 \/ pending[p] # <<>>) => HasBaseline(t, a)
  <2>0. /\ StageAt(p) /\ LedgerAt(p) /\ CallTypes(p) /\ Len(chain[p]) \in Nat /\ resume[p].gen \in Nat
    BY <1>1, LedgerTypes
  <2>1. attempt[p] # 0 /\ uncertain[p] = "none" /\ completed[p] = <<>> /\ pc[p] \notin {"open", "record"}
    BY <1>1, <2>0 DEF RecordsFailure, StageAt, ClaimOK, StagedOK, Unclaimed, InPublication, EventJobs
  <2>2. PICK m, g, k : m = Len(chain[p]) /\ g = resume[p].gen /\ k = gen[p]
    OBVIOUS
  <2>3. Reached(p) = chain[p] /\ Published(p) = {m}
    BY <2>1, <2>2 DEF Published, Reached, ChainAfter
  <2>4. UpToPoint(p, m)
    BY <2>0, <2>1, <2>3 DEF LedgerAt, PointOK
  <2>5. /\ ReadyGens(t, a) = g + 1 .. m /\ m >= g
        /\ Checkpointed[t] /\ m > g => HasPoint(t, a, m)
    BY <1>1, <2>1, <2>2, <2>4 DEF UpToPoint
  <2>6. m \in Nat /\ g \in Nat /\ k \in Nat
    BY <2>0, <2>2 DEF CallTypes
  <2>7. k <= m + 1 /\ (k > m <=> Unstaged(p)) /\ (k <= g \/ k >= m)
    BY <2>0, <2>1, <2>2, <2>3 DEF LedgerAt, ReachOK, TailOK, Buffered
  <2>8. resume[p] = Fresh /\ (gen[p] > 0 \/ pending[p] # <<>>) => HasBaseline(t, a)
    BY <1>1, <2>0, <2>1 DEF LedgerAt, TailOK
  <2>9. n \in Int /\ (n = m \/ n <= g)
    BY <1>1, <2>2, <2>6, <2>7 DEF CompletedGen
  <2>10. n > resume[p].gen => n = m /\ m > g
    <3>1. n > g => n = m /\ m > g
      BY <2>6, <2>9
    <3> QED BY <2>2, <3>1
  <2>11. m > g => m \in g + 1 .. m
    BY <2>6
  <2> QED BY <2>1, <2>5, <2>8, <2>10, <2>11
<1>2. LedgerInv => FailureKeepsTail
  BY <1>1, ConstantAssumption DEF FailureKeepsTail
<1> SUFFICES ASSUME ~AsyncSignals
             PROVE  Spec => []FailureKeepsTail
  OBVIOUS
<1> QED BY <1>2, LedgerInvariant, PTL

-----------------------------------------------------------------------------
(* The writer implements the ledger *)

Upto == [t \in Tasks |-> [a \in DOMAIN attempts[t] |-> LastPublished(t, a)]]

Points == [t \in Tasks |-> {<<checkpoints[t][i].attempt, checkpoints[t][i].gen>> :
                               i \in DOMAIN checkpoints[t]}]

Winner == {<<s.task, s.attempt>> : s \in selected}

LEMMA LastInRange ==
    ASSUME NEW g \in Nat, NEW n \in Nat, n > g
    PROVE  /\ g + 1 .. n # {}
           /\ (CHOOSE x \in g + 1 .. n : \A h \in g + 1 .. n : h <= x) = n
<1>1. n \in g + 1 .. n /\ \A h \in g + 1 .. n : h <= n
  OBVIOUS
<1>2. \A x \in g + 1 .. n : (\A h \in g + 1 .. n : h <= x) => x = n
  BY <1>1
<1> QED BY <1>1, <1>2

Last(baseline, from, g, n) ==
    IF n > g THEN n ELSE IF from # 0 THEN g ELSE IF baseline THEN 0 ELSE -1

(* The last published generation of an attempt, before and after a step. *)
LEMMA LastBefore ==
    ASSUME NEW t, NEW a, NEW g \in Nat, NEW n \in Nat, ReadyGens(t, a) = g + 1 .. n,
           attempts[t][a].base = g
    PROVE  LastPublished(t, a) = Last(HasBaseline(t, a), attempts[t][a].from, g, n)
<1>1. Ready(t, a) # {} <=> n > g
  <2>1. Ready(t, a) # {} <=> ReadyGens(t, a) # {}
    BY DEF ReadyGens
  <2> QED BY <2>1, LastInRange
<1>2. CASE n > g
  BY <1>1, <1>2, LastInRange DEF LastPublished, Last
<1>3. CASE ~(n > g)
  BY <1>1, <1>3 DEF LastPublished, Last, HasBaseline
<1> QED BY <1>2, <1>3

LEMMA LastAfter ==
    ASSUME NEW t, NEW a, NEW g \in Nat, NEW n \in Nat, ReadyGens(t, a)' = g + 1 .. n,
           attempts'[t][a].base = g
    PROVE  LastPublished(t, a)' = Last(HasBaseline(t, a)', attempts'[t][a].from, g, n)
<1>1. Ready(t, a)' # {} <=> n > g
  <2>1. Ready(t, a)' # {} <=> ReadyGens(t, a)' # {}
    BY DEF ReadyGens
  <2> QED BY <2>1, LastInRange
<1>2. CASE n > g
  BY <1>1, <1>2, LastInRange DEF LastPublished, Last
<1>3. CASE ~(n > g)
  BY <1>1, <1>3 DEF LastPublished, Last, HasBaseline
<1> QED BY <1>2, <1>3

LEMMA LastKeeps ==
    ASSUME StageInv, ConstantAssumption, NEW p \in Procs, Step(p), NEW t \in Tasks,
           NEW a \in 1 .. Current(t), ~Publishing(p, t, a)
    PROVE  LastPublished(t, a)' = LastPublished(t, a)
<1>1. /\ Ready(t, a)' = Ready(t, a) /\ ReadyGens(t, a)' = ReadyGens(t, a)
      /\ HasBaseline(t, a)' = HasBaseline(t, a) /\ attempts'[t][a] = attempts[t][a]
  BY ReadyKeeps, AttemptsKeep
<1> QED BY <1>1 DEF LastPublished, HasBaseline

LEMMA FunctionSeq ==
    ASSUME NEW S, NEW n \in Nat, NEW f \in [1 .. n -> S]
    PROVE  f \in Seq(S) /\ Len(f) = n
<1>1. f \in Seq(S)
  BY SeqDef
<1>2. Len(f) \in Nat /\ 1 .. Len(f) = 1 .. n
  BY <1>1, LenProperties
<1>3. \A m \in Nat : 1 .. m = 1 .. n => m = n
  <2> SUFFICES ASSUME NEW m \in Nat, 1 .. m = 1 .. n
               PROVE  m = n
    OBVIOUS
  <2>1. m > 0 => m \in 1 .. n
    OBVIOUS
  <2>2. n > 0 => n \in 1 .. m
    OBVIOUS
  <2> QED BY <2>1, <2>2
<1> QED BY <1>1, <1>2, <1>3

(* Appending to a sequence that is written as a function. *)
Over(D, f) == f = [i \in D |-> f[i]]

LEMMA AppendFunction ==
    ASSUME NEW n \in Nat, NEW f, Over(1 .. n, f), NEW h, Over(1 .. n + 1, h),
           \A i \in 1 .. n : h[i] = f[i]
    PROVE  h = Append(f, h[n + 1])
<1>1. PICK S : f \in [1 .. n -> S] /\ h \in [1 .. n + 1 -> S]
  <2>1. PICK T : T = {h[i] : i \in 1 .. n + 1}
    OBVIOUS
  <2>2. \A i \in 1 .. n + 1 : h[i] \in T
    BY <2>1
  <2>3. \A i \in 1 .. n : f[i] \in T
    <3>1. \A i \in 1 .. n : i \in 1 .. n + 1
      OBVIOUS
    <3> QED BY <2>2, <3>1
  <2>4. [i \in 1 .. n |-> f[i]] \in [1 .. n -> T]
    BY <2>3
  <2>5. [i \in 1 .. n + 1 |-> h[i]] \in [1 .. n + 1 -> T]
    BY <2>2
  <2>6. f \in [1 .. n -> T]
    BY <2>4, Zenon DEF Over
  <2>7. h \in [1 .. n + 1 -> T]
    BY <2>5, Zenon DEF Over
  <2> QED BY <2>6, <2>7
<1>2. f \in Seq(S) /\ Len(f) = n /\ h \in Seq(S) /\ Len(h) = n + 1 /\ h[n + 1] \in S
  <2>1. n + 1 \in Nat /\ n + 1 \in 1 .. n + 1
    OBVIOUS
  <2> QED BY <1>1, <2>1, FunctionSeq
<1>3. PICK x \in S : x = h[n + 1]
  BY <1>2
<1>4. /\ Append(f, x) \in Seq(S) /\ Len(Append(f, x)) = n + 1
      /\ \A i \in 1 .. n : Append(f, x)[i] = f[i]
      /\ Append(f, x)[n + 1] = x
  BY <1>2, AppendProperties
<1>5. \A i \in 1 .. n + 1 : h[i] = Append(f, x)[i]
  <2>1. \A i \in 1 .. n + 1 : i \in 1 .. n \/ i = n + 1
    OBVIOUS
  <2> QED BY <1>3, <1>4, <2>1
<1>6. h = Append(f, x)
  BY <1>2, <1>4, <1>5, SeqEqual
<1> QED BY <1>3, <1>6

LEMMA UptoShape ==
    ASSUME TypeInv, NEW t \in Tasks
    PROVE  /\ Current(t) \in Nat /\ DOMAIN attempts[t] = 1 .. Current(t)
           /\ Upto[t] = [a \in 1 .. Current(t) |-> Upto[t][a]] /\ Len(Upto[t]) = Current(t)
           /\ \A a \in 1 .. Current(t) : Upto[t][a] = LastPublished(t, a)
<1>1. Current(t) \in Nat /\ DOMAIN attempts[t] = 1 .. Current(t)
  BY LenProperties DEF TypeInv, TypeOK, StoreType, Current
<1>2. PICK f : f = Upto[t]
  OBVIOUS
<1>3. f = [a \in 1 .. Current(t) |-> LastPublished(t, a)]
  BY <1>1, <1>2 DEF Upto
<1>4. \A a \in 1 .. Current(t) : f[a] = LastPublished(t, a)
  BY <1>3
<1>5. f = [a \in 1 .. Current(t) |-> f[a]]
  BY <1>3
<1>6. PICK S : f \in [1 .. Current(t) -> S]
  <2>1. PICK S : S = {LastPublished(t, a) : a \in 1 .. Current(t)}
    OBVIOUS
  <2>2. \A a \in 1 .. Current(t) : LastPublished(t, a) \in S
    BY <2>1
  <2> QED BY <1>3, <2>2
<1>7. Len(f) = Current(t)
  BY <1>1, <1>6, FunctionSeq
<1> QED BY <1>1, <1>2, <1>4, <1>5, <1>7

LEMMA UptoAfter ==
    ASSUME NEW t \in Tasks, NEW n \in Nat, DOMAIN attempts'[t] = 1 .. n
    PROVE  /\ Upto'[t] = [a \in 1 .. n |-> Upto'[t][a]]
           /\ \A a \in 1 .. n : Upto'[t][a] = LastPublished(t, a)'
<1>1. PICK f : f = Upto'[t]
  OBVIOUS
<1>2. f = [a \in 1 .. n |-> LastPublished(t, a)']
  BY <1>1 DEF Upto
<1>3. f = [a \in 1 .. n |-> f[a]] /\ \A a \in 1 .. n : f[a] = LastPublished(t, a)'
  BY <1>2
<1> QED BY <1>1, <1>3

(* A task none of whose attempts publishes, and that gains none, stays. *)
LEMMA UptoKeeps ==
    ASSUME StageInv, ConstantAssumption, NEW p \in Procs, Step(p), NEW t \in Tasks,
           ~(Begins(p) /\ t = TaskOf[p]), \A a \in 1 .. Current(t) : LastPublished(t, a)' = LastPublished(t, a)
    PROVE  Upto'[t] = Upto[t]
<1>1. Current(t) \in Nat /\ DOMAIN attempts'[t] = 1 .. Current(t)
  BY AttemptsKeep
<1>2. PICK f, h : f = Upto[t] /\ h = Upto'[t]
  OBVIOUS
<1>3. /\ f = [a \in 1 .. Current(t) |-> f[a]] /\ h = [a \in 1 .. Current(t) |-> h[a]]
      /\ \A a \in 1 .. Current(t) : f[a] = LastPublished(t, a) /\ h[a] = LastPublished(t, a)'
  BY <1>1, <1>2, UptoShape, UptoAfter DEF StageInv
<1>4. \A a \in 1 .. Current(t) : f[a] = h[a]
  BY <1>3
<1>5. [a \in 1 .. Current(t) |-> f[a]] = [a \in 1 .. Current(t) |-> h[a]]
  BY <1>4
<1> QED BY <1>2, <1>3, <1>5

(* The steps of the ledger in the terms of the writer. *)
LEMMA LedgerSteps ==
    ASSUME NEW t
    PROVE  /\ Ledger!Allocate(t) <=>
                 /\ \E from \in {-1} \cup {point[2] : point \in Points[t]} :
                       Upto' = [Upto EXCEPT ![t] = Append(@, from)]
                 /\ Points' = Points /\ Winner' = Winner
           /\ Ledger!Advance(t) <=>
                 /\ Upto[t] # <<>>
                 /\ \E to \in 0 .. MaxGen :
                       /\ to > Upto[t][Len(Upto[t])]
                       /\ Upto[t][Len(Upto[t])] = -1 => to = 0
                       /\ Upto' = [Upto EXCEPT ![t][Len(Upto[t])] = to]
                       /\ Points' = IF Checkpointed[t]
                                    THEN [Points EXCEPT ![t] = @ \cup {<<Len(Upto[t]), to>>}]
                                    ELSE Points
                 /\ Winner' = Winner
           /\ Ledger!Win(t) <=>
                 /\ Winner = {} /\ Upto[t] # <<>> /\ Upto[t][Len(Upto[t])] = MaxGen
                 /\ Winner' = {<<t, Len(Upto[t])>>} /\ Upto' = Upto /\ Points' = Points
           /\ UNCHANGED Ledger!ledger <=> Upto' = Upto /\ Points' = Points /\ Winner' = Winner
<1>1. Ledger!Allocate(t) <=>
          /\ \E from \in {-1} \cup {point[2] : point \in Points[t]} :
                Upto' = [Upto EXCEPT ![t] = Append(@, from)]
          /\ Points' = Points /\ Winner' = Winner
  BY DEF Ledger!Allocate, Ledger!NoBaseline, Upto, Points, Winner
<1>2. Ledger!Advance(t) <=>
          /\ Upto[t] # <<>>
          /\ \E to \in 0 .. MaxGen :
                /\ to > Upto[t][Len(Upto[t])]
                /\ Upto[t][Len(Upto[t])] = -1 => to = 0
                /\ Upto' = [Upto EXCEPT ![t][Len(Upto[t])] = to]
                /\ Points' = IF Checkpointed[t]
                             THEN [Points EXCEPT ![t] = @ \cup {<<Len(Upto[t]), to>>}]
                             ELSE Points
          /\ Winner' = Winner
  BY DEF Ledger!Advance, Ledger!Newest, Ledger!NoBaseline, Upto, Points, Winner
<1>3. Ledger!Win(t) <=>
          /\ Winner = {} /\ Upto[t] # <<>> /\ Upto[t][Len(Upto[t])] = MaxGen
          /\ Winner' = {<<t, Len(Upto[t])>>} /\ Upto' = Upto /\ Points' = Points
  BY DEF Ledger!Win, Ledger!Newest, Upto, Points, Winner
<1>4. UNCHANGED Ledger!ledger <=> Upto' = Upto /\ Points' = Points /\ Winner' = Winner
  BY DEF Ledger!ledger, Upto, Points, Winner
<1> QED BY <1>1, <1>2, <1>3, <1>4

(* begin_attempt allocates: from nothing, or from a published checkpoint. *)
LEMMA StepAllocates ==
    ASSUME LedgerInv, ConstantAssumption, NEW p \in Procs, Step(p), Begins(p)
    PROVE  Ledger!Allocate(TaskOf[p])
<1>0. StageInv /\ TypeInv /\ LedgerAt(p) /\ TaskOf[p] \in Tasks
  BY LedgerTypes
<1>a. PICK t \in Tasks : t = TaskOf[p]
  BY <1>0
<1>b. PICK n : n = Current(t)
  OBVIOUS
<1>1. t = TaskOf[p] /\ n = Current(t)
  BY <1>a, <1>b
<1>2. /\ n \in Nat /\ DOMAIN attempts'[t] = 1 .. n + 1 /\ attempts'[t][n + 1] = AttemptFact(p)
  <2>1. n \in Nat /\ DOMAIN attempts'[t] = 1 .. n + 1
    BY <1>0, <1>1, BeginsStore
  <2>2. attempts'[t][n + 1] = AttemptFact(p)
    BY <1>0, <1>1, BeginsStore
  <2> QED BY <2>1, <2>2
<1>3. \A u, a : ~Publishing(p, u, a)
  BY DEF Begins, Publishing, Publishes
<1>4. Points' = Points /\ Winner' = Winner
  BY DEF Begins, Points, Winner
<1>5. \A u \in Tasks : u # t => Upto'[u] = Upto[u]
  BY <1>0, <1>1, <1>3, LastKeeps, UptoKeeps
<1>6. PICK from : from = IF resume[p].attempt # 0 THEN resume[p].gen ELSE -1
  OBVIOUS
<1>7. LastPublished(t, n + 1)' = from
  <2>1. Ready(t, n + 1) = {} /\ ~HasBaseline(t, n + 1)
    BY <1>1, <1>2 DEF Ready, HasBaseline, LedgerInv, HistoryBound
  <2>2. Ready(t, n + 1)' = {} /\ ~HasBaseline(t, n + 1)'
    BY <1>0, <1>3, <2>1, ReadyKeeps
  <2>3. attempts'[t][n + 1].from = resume[p].attempt /\ attempts'[t][n + 1].base = resume[p].gen
    BY <1>2 DEF AttemptFact
  <2> QED BY <1>6, <2>2, <2>3 DEF LastPublished, HasBaseline
<1>8. Upto'[t] = Append(Upto[t], from)
  <2>1. PICK f, h : f = Upto[t] /\ h = Upto'[t]
    OBVIOUS
  <2>2. f = [a \in 1 .. n |-> f[a]] /\ \A a \in 1 .. n : f[a] = LastPublished(t, a)
    BY <1>0, <1>1, <2>1, UptoShape
  <2>3. n + 1 \in Nat /\ n + 1 \in 1 .. n + 1
    BY <1>2
  <2>4. h = [a \in 1 .. n + 1 |-> h[a]] /\ \A a \in 1 .. n + 1 : h[a] = LastPublished(t, a)'
    BY <1>2, <2>1, <2>3, UptoAfter
  <2>5. \A a \in 1 .. n : a \in 1 .. n + 1 /\ LastPublished(t, a)' = LastPublished(t, a)
    BY <1>0, <1>1, <1>2, <1>3, LastKeeps
  <2>6. \A a \in 1 .. n : h[a] = f[a]
    BY <2>2, <2>4, <2>5
  <2>7. h = Append(f, h[n + 1])
    <3>1. Over(1 .. n, f)
      BY <2>2, Zenon DEF Over
    <3>2. Over(1 .. n + 1, h)
      BY <2>4, Zenon DEF Over
    <3> QED BY <1>2, <2>6, <3>1, <3>2, AppendFunction
  <2> QED BY <1>7, <2>1, <2>3, <2>4, <2>7
<1>9. Upto' = [Upto EXCEPT ![t] = Append(@, from)]
  <2>1. Upto = [u \in Tasks |-> Upto[u]] /\ Upto' = [u \in Tasks |-> Upto'[u]]
    BY DEF Upto
  <2>2. \A u \in Tasks : Upto'[u] = IF u = t THEN Append(Upto[t], from) ELSE Upto[u]
    BY <1>5, <1>8
  <2> QED BY <2>1, <2>2
<1>10. from \in {-1} \cup {point[2] : point \in Points[t]}
  <2>1. CASE resume[p].attempt = 0
    BY <1>6, <2>1
  <2>2. CASE resume[p].attempt # 0
    <3>1. resume[p] # Fresh
      BY <2>2 DEF Fresh
    <3>2. PICK i \in DOMAIN checkpoints[t] : resume[p] = checkpoints[t][i]
      BY <1>0, <1>1, <3>1 DEF LedgerAt, OriginOK
    <3>3. <<checkpoints[t][i].attempt, checkpoints[t][i].gen>> \in Points[t]
      BY DEF Points
    <3>4. <<checkpoints[t][i].attempt, checkpoints[t][i].gen>>[2] = from
      BY <1>6, <2>2, <3>2
    <3> QED BY <3>3, <3>4
  <2> QED BY <2>1, <2>2
<1> QED BY <1>1, <1>4, <1>9, <1>10, LedgerSteps

(* What a publication does to the ledger of its attempt. *)
LEMMA PublishesUpto ==
    ASSUME LedgerInv, ConstantAssumption, NEW p \in Procs, Step(p), Publishes(p),
           NEW t, t = TaskOf[p], NEW a, a = attempt[p], NEW to, LastPublished(t, a)' = to
    PROVE  /\ Len(Upto[t]) = a /\ a \in 1 .. Current(t) /\ Upto[t] # <<>>
           /\ Upto[t][a] = LastPublished(t, a)
           /\ Upto' = [Upto EXCEPT ![t][Len(Upto[t])] = to]
<1>0. /\ StageInv /\ TypeInv /\ t \in Tasks /\ pc[p] = "commit" /\ a # 0 /\ a \in Nat
      /\ a = Current(t) /\ ~Begins(p)
  <2>1. StageInv /\ TypeInv /\ t \in Tasks /\ pc[p] = "commit" /\ StageAt(p) /\ CallTypes(p)
    BY LedgerTypes DEF Publishes
  <2>2. a # 0 /\ a \in Nat
    BY <2>1 DEF StageAt, ClaimOK, Unclaimed, CallTypes
  <2>3. a = Current(t) /\ ~Begins(p)
    BY <2>1 DEF Publishes, PublishAccepted, Begins
  <2> QED BY <2>1, <2>2, <2>3
<1>1. a \in 1 .. Current(t)
  BY <1>0
<1>2. PICK f, h : f = Upto[t] /\ h = Upto'[t]
  OBVIOUS
<1>3. /\ f = [b \in 1 .. a |-> f[b]] /\ Len(f) = a
      /\ \A b \in 1 .. a : f[b] = LastPublished(t, b)
  BY <1>0, <1>2, UptoShape
<1>4. h = [b \in 1 .. a |-> h[b]] /\ \A b \in 1 .. a : h[b] = LastPublished(t, b)'
  <2>1. DOMAIN attempts'[t] = 1 .. a
    BY <1>0, AttemptsKeep
  <2> QED BY <1>0, <1>2, <2>1, UptoAfter
<1>5. \A b \in 1 .. a : b # a => h[b] = f[b]
  <2>1. ASSUME NEW b \in 1 .. a, b # a
        PROVE  LastPublished(t, b)' = LastPublished(t, b)
    <3>1. ~Publishing(p, t, b) /\ b \in 1 .. Current(t)
      BY <1>0, <2>1 DEF Publishing
    <3> QED BY <1>0, <3>1, LastKeeps
  <2> QED BY <1>3, <1>4, <2>1
<1>6. h = [f EXCEPT ![a] = to]
  <2>1. \A b \in 1 .. a : h[b] = IF b = a THEN to ELSE f[b]
    BY <1>4, <1>5
  <2>2. [b \in 1 .. a |-> h[b]] = [b \in 1 .. a |-> IF b = a THEN to ELSE f[b]]
    BY <2>1
  <2>3. DOMAIN f = 1 .. a
    BY <1>3, Zenon
  <2>4. [f EXCEPT ![a] = to] = [b \in 1 .. a |-> IF b = a THEN to ELSE f[b]]
    BY <2>3
  <2> QED BY <1>4, <2>2, <2>4
<1>7. \A u \in Tasks : u # t => Upto'[u] = Upto[u]
  BY <1>0, LastKeeps, UptoKeeps DEF Publishing
<1>8. Upto' = [Upto EXCEPT ![t] = [Upto[t] EXCEPT ![a] = to]]
  <2>1. Upto = [u \in Tasks |-> Upto[u]] /\ Upto' = [u \in Tasks |-> Upto'[u]]
    BY DEF Upto
  <2>2. \A u \in Tasks : Upto'[u] = IF u = t THEN [Upto[t] EXCEPT ![a] = to] ELSE Upto[u]
    BY <1>2, <1>6, <1>7
  <2> QED BY <2>1, <2>2
<1>9. f # <<>>
  <2>1. Len(<<>>) = 0
    BY EmptySeq
  <2> QED BY <1>0, <1>3, <2>1
<1> QED BY <1>0, <1>1, <1>2, <1>3, <1>8, <1>9

LEMMA PublishesPoints ==
    ASSUME TypeInv, ConstantAssumption, NEW p \in Procs, Publishes(p), NEW t, t = TaskOf[p]
    PROVE  /\ ~MakesCheckpoint(p) => Points' = Points
           /\ MakesCheckpoint(p) =>
                 Points' = [Points EXCEPT ![t] = @ \cup {<<attempt[p], LastOf(completed[p])>>}]
<1>1. CASE ~MakesCheckpoint(p)
  BY <1>1, PublishesPoint DEF Points
<1>2. CASE MakesCheckpoint(p)
  <2>0. t \in Tasks
    BY DEF ConstantAssumption
  <2>1. \A u \in Tasks : u # t => checkpoints'[u] = checkpoints[u]
    BY PublishesStore DEF OnlyTask
  <2>2. PICK n, c : n = Len(checkpoints[t]) /\ c = NewCheckpoint(p)
    OBVIOUS
  <2>3. /\ n \in Nat /\ DOMAIN checkpoints[t] = 1 .. n /\ DOMAIN checkpoints'[t] = 1 .. n + 1
        /\ \A i \in 1 .. n : checkpoints'[t][i] = checkpoints[t][i]
        /\ checkpoints'[t][n + 1] = c
    BY <1>2, <2>2, PublishesPoint
  <2>4. c.attempt = attempt[p] /\ c.gen = LastOf(completed[p])
    BY <2>2 DEF NewCheckpoint
  <2>5. {<<checkpoints'[t][i].attempt, checkpoints'[t][i].gen>> : i \in DOMAIN checkpoints'[t]}
           = {<<checkpoints[t][i].attempt, checkpoints[t][i].gen>> : i \in DOMAIN checkpoints[t]}
                \cup {<<attempt[p], LastOf(completed[p])>>}
    <3>1. ASSUME NEW i \in 1 .. n + 1
          PROVE  \/ i \in 1 .. n /\ checkpoints'[t][i] = checkpoints[t][i]
                 \/ checkpoints'[t][i] = c
      BY <2>3
    <3>2. \A i \in 1 .. n : i \in 1 .. n + 1
      BY <2>3
    <3>3. n + 1 \in 1 .. n + 1
      BY <2>3
    <3>4. ASSUME NEW x \in {<<checkpoints'[t][i].attempt, checkpoints'[t][i].gen>> :
                                i \in DOMAIN checkpoints'[t]}
          PROVE  \/ x \in {<<checkpoints[t][i].attempt, checkpoints[t][i].gen>> :
                                i \in DOMAIN checkpoints[t]}
                 \/ x = <<attempt[p], LastOf(completed[p])>>
      BY <2>3, <2>4, <3>1
    <3>5. ASSUME NEW i \in DOMAIN checkpoints[t]
          PROVE  <<checkpoints[t][i].attempt, checkpoints[t][i].gen>> \in
                    {<<checkpoints'[t][j].attempt, checkpoints'[t][j].gen>> : j \in DOMAIN checkpoints'[t]}
      BY <2>3, <3>2
    <3>6. <<attempt[p], LastOf(completed[p])>> \in
             {<<checkpoints'[t][j].attempt, checkpoints'[t][j].gen>> : j \in DOMAIN checkpoints'[t]}
      BY <2>3, <2>4, <3>3
    <3> QED BY <3>4, <3>5, <3>6
  <2>6. Points'[t] = Points[t] \cup {<<attempt[p], LastOf(completed[p])>>}
    BY <2>0, <2>5 DEF Points
  <2>7. \A u \in Tasks : u # t => Points'[u] = Points[u]
    BY <2>1 DEF Points
  <2>8. Points = [u \in Tasks |-> Points[u]] /\ Points' = [u \in Tasks |-> Points'[u]]
    BY DEF Points
  <2> QED BY <1>2, <2>6, <2>7, <2>8
<1> QED BY <1>1, <1>2

(* The event of an attempt leaves its generations; the first completion wins. *)
LEMMA StepEventPublished ==
    ASSUME LedgerInv, ConstantAssumption, NEW p \in Procs, Step(p), Publishes(p), job[p] \in EventJobs
    PROVE  Ledger!Win(TaskOf[p]) \/ UNCHANGED Ledger!ledger
<1>0. /\ StageInv /\ TypeInv /\ StageAt(p) /\ ExactAt(p) /\ CallTypes(p) /\ LedgerAt(p)
      /\ Len(chain[p]) \in Nat /\ resume[p].gen \in Nat /\ TaskOf[p] \in Tasks
      /\ pc[p] = "commit" /\ ~Begins(p)
  BY LedgerTypes DEF Publishes, Begins
<1>a. PICK t \in Tasks : t = TaskOf[p]
  BY <1>0
<1>b. PICK a, n, g : a = attempt[p] /\ n = Len(chain[p]) /\ g = resume[p].gen
  OBVIOUS
<1>1. t = TaskOf[p] /\ a = attempt[p] /\ n = Len(chain[p]) /\ g = resume[p].gen
  BY <1>a, <1>b
<1>2. job[p] \notin SegmentJobs
  BY DEF SegmentJobs, BarrierJobs, FlushJobs, EventJobs
<1>3. attempt[p] # 0 /\ uncertain[p] = "none" /\ completed[p] = <<>> /\ a \in 1 .. Current(t)
  BY <1>0, <1>1 DEF StageAt, ClaimOK, StagedOK, Unclaimed, InPublication, CallTypes
<1>4. Points' = Points
  BY <1>0, <1>1, <1>2, PublishesPoints DEF MakesCheckpoint
<1>5. LastPublished(t, a)' = LastPublished(t, a)
  <2>1. /\ Ready(t, a)' = Ready(t, a) /\ ReadyGens(t, a)' = ReadyGens(t, a)
        /\ HasBaseline(t, a)' = HasBaseline(t, a)
    BY <1>0, <1>1, EventReady
  <2>2. attempts'[t][a] = attempts[t][a]
    BY <1>0, <1>3, AttemptsKeep
  <2> QED BY <2>1, <2>2 DEF LastPublished, HasBaseline
<1>6. Upto' = Upto
  <2>1. \A u \in Tasks : \A b \in 1 .. Current(u) : LastPublished(u, b)' = LastPublished(u, b)
    BY <1>0, <1>1, <1>5, LastKeeps DEF Publishing
  <2>2. \A u \in Tasks : Upto'[u] = Upto[u]
    BY <1>0, <2>1, UptoKeeps
  <2>3. Upto = [u \in Tasks |-> Upto[u]] /\ Upto' = [u \in Tasks |-> Upto'[u]]
    BY DEF Upto
  <2> QED BY <2>2, <2>3
<1>7. CASE job[p] = "completed" /\ selected = {}
  <2>1. selected' = {[task |-> t, attempt |-> a]}
    BY <1>1, <1>7 DEF Publishes, Publish, Selection
  <2>2. Winner = {} /\ Winner' = {<<t, a>>}
    BY <1>7, <2>1 DEF Winner
  <2>3. n = MaxGen
    <3>1. Reached(p) = chain[p]
      BY <1>3 DEF Reached, ChainAfter
    <3>2. gen[p] = Len(Reached(p))
      BY <1>0, <1>7 DEF ExactAt, PlaceOK, AtGeneration
    <3>3. gen[p] = MaxGen
      BY <1>0, <1>7 DEF StageAt, GenOK, Telling, InPublication
    <3> QED BY <1>1, <3>1, <3>2, <3>3
  <2>4. ReadyGens(t, a) = g + 1 .. n /\ n >= g
    <3>1. UpToPoint(p, n)
      BY <1>0, <1>1, <1>3 DEF LedgerAt, PointOK, Published
    <3> QED BY <1>0, <1>1, <3>1 DEF UpToPoint
  <2>5. attempts[t][a].base = g /\ attempts[t][a].from = resume[p].attempt
    BY <1>0, <1>1, <1>3 DEF LedgerAt, FactOK, AttemptFact
  <2>6. LastPublished(t, a) = Last(HasBaseline(t, a), resume[p].attempt, g, n)
    BY <1>0, <1>1, <2>4, <2>5, LastBefore
  <2>7. resume[p].attempt = 0 => g = 0 /\ HasBaseline(t, a)
    <3>1. ASSUME resume[p].attempt = 0
          PROVE  resume[p] = Fresh
      BY <1>0, <3>1 DEF LedgerAt, OriginOK, StageInv, PointsOK
    <3>2. BaselineDone(p)
      BY <1>0, <1>7 DEF BaselineDone, Telling, InPublication
    <3>3. resume[p] = Fresh => HasBaseline(t, a)
      BY <1>0, <1>1, <1>3, <3>2 DEF LedgerAt, BaselineOK
    <3> QED BY <1>1, <3>1, <3>3 DEF Fresh
  <2>8. LastPublished(t, a) = MaxGen
    BY <1>0, <1>1, <2>3, <2>4, <2>6, <2>7 DEF Last
  <2>9. Len(Upto[t]) = a /\ Upto[t] # <<>> /\ Upto[t][a] = MaxGen
    BY <1>1, <2>8, PublishesUpto
  <2> QED BY <1>1, <1>4, <1>6, <2>2, <2>9, LedgerSteps
<1>8. CASE ~(job[p] = "completed" /\ selected = {})
  <2>1. selected' = selected
    BY <1>8 DEF Publishes, Publish, Selection
  <2>2. Winner' = Winner
    BY <2>1 DEF Winner
  <2> QED BY <1>1, <1>4, <1>6, <2>2, LedgerSteps
<1> QED BY <1>7, <1>8

(* Staged barriers advance it: the baseline alone, or a group of generations, *)
(* and with a resume point exactly when the policy keeps them.                *)
LEMMA StepSegmentPublished ==
    ASSUME LedgerInv, ConstantAssumption, NEW p \in Procs, Step(p), Publishes(p), job[p] \in SegmentJobs
    PROVE  Ledger!Advance(TaskOf[p])
<1>0. /\ StageInv /\ TypeInv /\ StageAt(p) /\ ExactAt(p) /\ CallTypes(p) /\ LedgerAt(p) /\ JobAt(p)
      /\ Len(chain[p]) \in Nat /\ Len(Reached(p)) \in Nat /\ resume[p].gen \in Nat /\ TaskOf[p] \in Tasks
      /\ pc[p] = "commit"
  BY LedgerTypes DEF Publishes
<1>a. PICK t \in Tasks : t = TaskOf[p]
  BY <1>0
<1>b. PICK a, n, m, g :
         a = attempt[p] /\ n = Len(chain[p]) /\ m = Len(Reached(p)) /\ g = resume[p].gen
  OBVIOUS
<1>1. /\ t = TaskOf[p] /\ a = attempt[p] /\ n = Len(chain[p]) /\ m = Len(Reached(p))
      /\ g = resume[p].gen
  BY <1>a, <1>b
<1>2. attempt[p] # 0 /\ uncertain[p] = "none" /\ completed[p] # <<>> /\ a \in 1 .. Current(t)
  BY <1>0, <1>1 DEF StageAt, ClaimOK, Unclaimed, CallTypes, JobAt
<1>3. /\ n \in Nat /\ m \in Nat /\ g \in Nat /\ m >= n /\ n >= g
      /\ ReadyGens(t, a) = g + 1 .. n /\ ReadyGens(t, a)' = g + 1 .. m
  BY <1>1, PublishesUpTo
<1>4. /\ attempts[t][a].base = g /\ attempts[t][a].from = resume[p].attempt
      /\ attempts'[t][a].base = g /\ attempts'[t][a].from = resume[p].attempt
  <2>1. attempts'[t][a] = attempts[t][a]
    BY <1>0, <1>2, AttemptsKeep
  <2> QED BY <1>0, <1>1, <1>2, <2>1 DEF LedgerAt, FactOK, AttemptFact
<1>5. /\ LastPublished(t, a) = Last(HasBaseline(t, a), resume[p].attempt, g, n)
      /\ LastPublished(t, a)' = Last(HasBaseline(t, a)', resume[p].attempt, g, m)
  BY <1>3, <1>4, LastBefore, LastAfter
<1>6. resume[p].attempt = 0 <=> resume[p] = Fresh
  BY <1>0 DEF LedgerAt, OriginOK, StageInv, PointsOK, Fresh
<1>7. Winner' = Winner
  <2>1. job[p] # "completed"
    BY DEF SegmentJobs, BarrierJobs, FlushJobs
  <2> QED BY <2>1 DEF Winner, Publishes, Publish, Selection
<1>8. LastOf(completed[p]) = m /\ m \in 0 .. MaxGen
  <2>1. LastOf(completed[p]) = m
    BY <1>0, <1>1, <1>2 DEF ExactAt, LinksOK
  <2>2. LastOf(completed[p]) <= gen[p] /\ gen[p] <= MaxGen /\ gen[p] \in Nat /\ MaxGen \in Nat
    BY <1>0, <1>2 DEF StageAt, GenOK, CallTypes, ConstantAssumption
  <2> QED BY <1>3, <2>1, <2>2
<1>9. Points' = IF Checkpointed[t] THEN [Points EXCEPT ![t] = @ \cup {<<a, m>>}] ELSE Points
  <2>1. MakesCheckpoint(p) <=> Checkpointed[t]
    BY <1>0, <1>1, <1>2 DEF MakesCheckpoint, StageAt, StateOK
  <2> QED BY <1>0, <1>1, <1>8, <2>1, PublishesPoints
<1>10. ASSUME LastPublished(t, a)' = m, m > LastPublished(t, a), LastPublished(t, a) = -1 => m = 0
       PROVE  Ledger!Advance(t)
  <2>1. /\ Len(Upto[t]) = a /\ Upto[t] # <<>> /\ Upto[t][a] = LastPublished(t, a)
        /\ Upto' = [Upto EXCEPT ![t][Len(Upto[t])] = m]
    BY <1>1, <1>10, PublishesUpto
  <2> QED BY <1>7, <1>8, <1>9, <1>10, <2>1, LedgerSteps
<1>11. CASE completed[p] = <<0>>
  <2>1. BaselineStaged(p)
    <3>1. completed[p][1] = 0 /\ 1 \in 1 .. Len(completed[p])
      BY <1>11
    <3>2. ~GenerationsStaged(p)
      <4>1. ~(completed[p][1] > 0)
        BY <3>1
      <4> QED BY <3>1, <4>1 DEF GenerationsStaged
    <3>3. BaselineStaged(p) \/ GenerationsStaged(p)
      BY <1>0, Zenon DEF StageAt, StagedOK
    <3> QED BY <3>2, <3>3
  <2>2. resume[p] = Fresh /\ g = 0
    BY <1>1, <2>1 DEF BaselineStaged, Fresh
  <2>3. m = 0 /\ n = 0
    <3>1. LastOf(<<0>>) = 0
      BY DEF LastOf
    <3> QED BY <1>3, <1>8, <1>11, <3>1
  <2>4. ~HasBaseline(t, a)
    BY <1>0, <1>1, <1>2, <1>11 DEF LedgerAt, BaselineOK, BaselineDue
  <2>5. HasBaseline(t, a)'
    BY <1>0, <1>1, <1>11, BaselineReady
  <2>6. LastPublished(t, a) = -1 /\ LastPublished(t, a)' = 0
    BY <1>5, <1>6, <2>2, <2>3, <2>4, <2>5 DEF Last
  <2> QED BY <1>1, <1>10, <2>3, <2>6
<1>12. CASE completed[p] # <<0>>
  <2>1. GenerationsStaged(p)
    BY <1>0, <1>12 DEF StageAt, StagedOK, BaselineStaged
  <2>2. m > n
    <3>1. m = n + Len(completed[p])
      BY <1>0, <1>1, <1>2, <2>1, StagedNumbers DEF ExactAt
    <3>2. Len(completed[p]) \in Nat /\ Len(completed[p]) > 0
      BY <1>0, <1>2, EmptySeq, LenProperties DEF CallTypes
    <3> QED BY <1>3, <3>1, <3>2
  <2>3. resume[p] = Fresh => HasBaseline(t, a)
    <3>1. BaselineDone(p)
      BY <1>2, <1>12 DEF BaselineDone
    <3> QED BY <1>0, <1>1, <1>2, <3>1 DEF LedgerAt, BaselineOK
  <2>4. LastPublished(t, a)' = m
    BY <1>3, <1>5, <2>2 DEF Last
  <2>5. LastPublished(t, a) \in Nat /\ m > LastPublished(t, a)
    BY <1>3, <1>5, <1>6, <2>2, <2>3 DEF Last
  <2>6. LastPublished(t, a) # -1
    BY <2>5
  <2> QED BY <1>1, <1>10, <2>4, <2>5, <2>6
<1> QED BY <1>11, <1>12

(* Every step of the writer is a step of the ledger or leaves it alone. *)
LEMMA StepImplements ==
    ASSUME LedgerInv, ConstantAssumption, NEW p \in Procs, Step(p)
    PROVE  [Ledger!LedgerNext]_(Ledger!ledger)
<1>0. StageInv /\ TypeInv /\ JobAt(p) /\ TaskOf[p] \in Tasks
  BY LedgerTypes
<1>1. CASE UNCHANGED storeVars
  <2>1. Upto' = Upto /\ Points' = Points /\ Winner' = Winner
    BY <1>1 DEF storeVars, Upto, Points, Winner, LastPublished, Ready, ReadyGens
  <2> QED BY <2>1, LedgerSteps
<1>2. CASE Begins(p)
  BY <1>0, <1>2, StepAllocates DEF Ledger!LedgerNext
<1>3. CASE Updates(p)
  <2>1. Points' = Points /\ Winner' = Winner /\ ~Begins(p)
    BY <1>3 DEF Updates, Begins, Points, Winner
  <2>2. ~Publishes(p)
    BY <1>3 DEF Updates, Publishes
  <2>3. \A u \in Tasks : \A b \in 1 .. Current(u) : LastPublished(u, b)' = LastPublished(u, b)
    BY <1>0, <2>2, LastKeeps DEF Publishing
  <2>4. \A u \in Tasks : Upto'[u] = Upto[u]
    BY <1>0, <2>1, <2>3, UptoKeeps
  <2>5. Upto = [u \in Tasks |-> Upto[u]] /\ Upto' = [u \in Tasks |-> Upto'[u]]
    BY DEF Upto
  <2>6. Upto' = Upto
    BY <2>4, <2>5
  <2> QED BY <2>1, <2>6, LedgerSteps
<1>4. CASE Publishes(p)
  <2>1. job[p] \in SegmentJobs \cup EventJobs
    BY <1>0, <1>4 DEF JobAt, Publishes
  <2>2. CASE job[p] \in EventJobs
    BY <1>0, <1>4, <2>2, StepEventPublished DEF Ledger!LedgerNext
  <2>3. CASE job[p] \in SegmentJobs
    BY <1>0, <1>4, <2>3, StepSegmentPublished DEF Ledger!LedgerNext
  <2> QED BY <2>1, <2>2, <2>3
<1> QED BY <1>1, <1>2, <1>3, <1>4, StoreShape

(* The writer, with its crashes, faults and superseded callers, implements    *)
(* the ledger of GenerationLedger: what a reader of the published history     *)
(* sees is always a ledger the documentation promises.                        *)
THEOREM LedgerImplemented == ~AsyncSignals => (Spec => ImplementsLedger)
<1>1. Init => Ledger!LedgerInit
  <2> SUFFICES ASSUME Init
               PROVE  Ledger!LedgerInit
    OBVIOUS
  <2>1. /\ \A t \in Tasks : DOMAIN attempts[t] = {} /\ attempts[t] = <<>>
        /\ \A t \in Tasks : checkpoints[t] = <<>> /\ selected = {}
    BY DEF Init
  <2>2. Upto = [t \in Tasks |-> <<>>]
    BY <2>1 DEF Upto
  <2>3. Points = [t \in Tasks |-> {}] /\ Winner = {}
    BY <2>1 DEF Points, Winner, Init
  <2> QED BY <2>2, <2>3 DEF Ledger!LedgerInit, Upto, Points, Winner
<1>2. LedgerInv /\ [Next]_vars => [Ledger!LedgerNext]_(Ledger!ledger)
  <2> SUFFICES ASSUME LedgerInv, [Next]_vars
               PROVE  [Ledger!LedgerNext]_(Ledger!ledger)
    OBVIOUS
  <2>1. ASSUME NEW p \in Procs, Step(p)
        PROVE  [Ledger!LedgerNext]_(Ledger!ledger)
    BY <2>1, ConstantAssumption, StepImplements
  <2>2. CASE UNCHANGED vars
    <3>1. Upto' = Upto /\ Points' = Points /\ Winner' = Winner
      BY <2>2 DEF vars, storeVars, Upto, Points, Winner, LastPublished, Ready, ReadyGens
    <3> QED BY <3>1, LedgerSteps
  <2> QED BY <2>1, <2>2 DEF Next, Step
<1> SUFFICES ASSUME ~AsyncSignals
             PROVE  Spec => ImplementsLedger
  OBVIOUS
<1> QED BY <1>1, <1>2, LedgerInvariant, PTL DEF Spec, ImplementsLedger, Ledger!LedgerSpec

-----------------------------------------------------------------------------
(* What is observed of an attempt *)

(* Attempts resume published checkpoints of attempts of their task. *)
AncestorsOK ==
    \A t \in Tasks : \A a \in 1 .. Current(t) :
        attempts[t][a].from # 0 =>
            attempts[t][a].from \in 1 .. Current(t) /\ attempts[t][a].limit < nextSeq[t]

Seen(t, a, terminal, kind, g) ==
    {i \in Projected(t, a, terminal) : history[t][i].kind = kind /\ history[t][i].gen = g}

(* One baseline (or none yet), the evaluation of every generation up to n, and *)
(* of none above.                                                              *)
Whole(t, a, terminal, n, based) ==
    /\ IF based THEN ExactlyOne(Seen(t, a, terminal, "baseline_ready", 0))
       ELSE Seen(t, a, terminal, "baseline_ready", 0) = {}
    /\ \A g \in 1 .. n : ExactlyOne(Seen(t, a, terminal, "evaluation", g))
    /\ \A g \in Nat : g > n => Seen(t, a, terminal, "evaluation", g) = {}

(* Whoever resumes a checkpoint finds everything up to it. *)
PointsWhole ==
    \A t \in Tasks : \A i \in DOMAIN checkpoints[t] :
        LET c == checkpoints[t][i] IN
        c.seq < nextSeq[t] /\ Whole(t, c.attempt, c.seq, c.gen, TRUE)

(* What a completed event closes is the whole operation. *)
CompletedWhole ==
    \A t \in Tasks : \A i \in DOMAIN history[t] : history[t][i].kind = "completed" =>
        /\ IsEvent(history[t][i])
        /\ Whole(t, history[t][i].attempt, history[t][i].seq, MaxGen, TRUE)

(* Diagnostics are buffered only between an evaluation and its barrier, or by *)
(* a failure.                                                                 *)
PendingOK(p) ==
    AtBaseline(p) \/ (AtGeneration(p) /\ pc[p] # "evaluated") => pending[p] = <<>>

(* The diagnostics of a failing generation are archived last. *)
Diagnosed(p) == pc[p] = "record" \/ (pc[p] = "clear" /\ job[p] = "failed")

(* The generation up to which the attempt has published, or resumes. *)
Level(p) ==
    IF pc[p] = "open" THEN resume[p].gen
    ELSE IF pc[p] = "clear" THEN Len(Reached(p))
    ELSE Len(chain[p])

WholeAt(p) ==
    attempt[p] # 0 /\ uncertain[p] = "none" /\ ~Diagnosed(p) =>
        Whole(TaskOf[p], attempt[p], nextSeq[TaskOf[p]] - 1, Level(p),
              resume[p] # Fresh \/ HasBaseline(TaskOf[p], attempt[p]))

ObservedInv ==
    /\ LedgerInv /\ CompletedInv /\ ContiguousInv
    /\ AncestorsOK /\ PointsWhole /\ CompletedWhole
    /\ \A p \in Procs : PendingOK(p) /\ WholeAt(p)

-----------------------------------------------------------------------------
(* The attempts that are resumed *)

Closed(t, n) == \A a \in 1 .. n : attempts[t][a].from # 0 => attempts[t][a].from \in 1 .. n

LEMMA AncestorsClosed ==
    ASSUME NEW t, NEW n \in Nat, DOMAIN attempts[t] = 1 .. n, Closed(t, n), NEW a \in 1 .. n
    PROVE  /\ a \in Ancestors(t, a) /\ Ancestors(t, a) \subseteq 1 .. n
           /\ \A c \in Ancestors(t, a) :
                 attempts[t][c].from # 0 => attempts[t][c].from \in Ancestors(t, a)
<1>1. a \in Ancestors(t, a) /\ Ancestors(t, a) \subseteq 1 .. n
  BY DEF Ancestors
<1>2. ASSUME NEW c \in Ancestors(t, a), attempts[t][c].from # 0
      PROVE  attempts[t][c].from \in Ancestors(t, a)
  <2>1. c \in 1 .. n /\ attempts[t][c].from \in DOMAIN attempts[t]
    BY <1>1, <1>2 DEF Closed
  <2> SUFFICES ASSUME NEW visited \in SUBSET DOMAIN attempts[t], a \in visited,
                      \A d \in visited : attempts[t][d].from # 0 => attempts[t][d].from \in visited
               PROVE  attempts[t][c].from \in visited
    BY <2>1 DEF Ancestors
  <2>2. c \in visited
    BY <1>2 DEF Ancestors
  <2> QED BY <1>2, <2>2
<1> QED BY <1>1, <1>2

Lengthens(t, n, m) ==
    /\ n \in Nat /\ m \in Nat /\ n <= m
    /\ DOMAIN attempts[t] = 1 .. n /\ DOMAIN attempts'[t] = 1 .. m
    /\ \A a \in 1 .. n : attempts'[t][a] = attempts[t][a]

(* A later attempt changes nothing for those before it. *)
LEMMA AncestorsStay ==
    ASSUME NEW t, NEW n, NEW m, Lengthens(t, n, m), Closed(t, n), NEW a \in 1 .. n
    PROVE  Ancestors(t, a)' = Ancestors(t, a)
<1>1. 1 .. n \subseteq 1 .. m
  BY DEF Lengthens
<1>2. ASSUME NEW b \in Ancestors(t, a)
      PROVE  b \in Ancestors(t, a)'
  <2>1. b \in DOMAIN attempts'[t]
    BY <1>1 DEF Ancestors, Lengthens
  <2> SUFFICES ASSUME NEW visited \in SUBSET DOMAIN attempts'[t], a \in visited,
                      \A d \in visited : attempts'[t][d].from # 0 => attempts'[t][d].from \in visited
               PROVE  b \in visited
    BY <2>1 DEF Ancestors
  <2> DEFINE inner == visited \cap 1 .. n
  <2>2. inner \in SUBSET DOMAIN attempts[t] /\ a \in inner
    BY DEF Lengthens
  <2>3. \A d \in inner : attempts[t][d].from # 0 => attempts[t][d].from \in inner
    BY DEF Lengthens, Closed
  <2> HIDE DEF inner
  <2>4. b \in inner
    BY <1>2, <2>2, <2>3 DEF Ancestors
  <2> QED BY <2>4 DEF inner
<1>3. ASSUME NEW b \in Ancestors(t, a)'
      PROVE  b \in Ancestors(t, a)
  <2>1. /\ 1 .. n \in SUBSET DOMAIN attempts'[t]
        /\ \A d \in 1 .. n : attempts'[t][d].from # 0 => attempts'[t][d].from \in 1 .. n
    BY <1>1 DEF Lengthens, Closed
  <2>2. b \in 1 .. n
    BY <1>3, <2>1 DEF Ancestors
  <2> SUFFICES ASSUME NEW visited \in SUBSET DOMAIN attempts[t], a \in visited,
                      \A d \in visited : attempts[t][d].from # 0 => attempts[t][d].from \in visited
               PROVE  b \in visited
    BY <2>2 DEF Ancestors, Lengthens
  <2>3. /\ visited \in SUBSET DOMAIN attempts'[t]
        /\ \A d \in visited : attempts'[t][d].from # 0 => attempts'[t][d].from \in visited
    BY <1>1 DEF Lengthens
  <2> QED BY <1>3, <2>3 DEF Ancestors
<1> QED BY <1>2, <1>3

(* The new attempt has the ancestors of the one it resumes, and itself. *)
LEMMA AncestorsNew ==
    ASSUME NEW t, NEW n, Lengthens(t, n, n + 1), Closed(t, n), NEW f, f = attempts'[t][n + 1].from,
           f = 0 \/ f \in 1 .. n
    PROVE  Ancestors(t, n + 1)' = {n + 1} \cup (IF f = 0 THEN {} ELSE Ancestors(t, f))
<1> DEFINE before == IF f = 0 THEN {} ELSE Ancestors(t, f)
<1>0. /\ n \in Nat /\ n + 1 \in 1 .. n + 1 /\ 1 .. n \subseteq 1 .. n + 1 /\ n + 1 \notin 1 .. n
      /\ 1 .. n + 1 = 1 .. n \cup {n + 1}
  BY DEF Lengthens
<1>1. /\ f # 0 => f \in before
      /\ before \subseteq 1 .. n
      /\ \A c \in before : attempts[t][c].from # 0 => attempts[t][c].from \in before
  BY AncestorsClosed DEF Lengthens
<1>2. ASSUME NEW b \in before
      PROVE  b \in Ancestors(t, n + 1)'
  <2>1. f # 0 /\ f \in 1 .. n /\ b \in Ancestors(t, f) /\ b \in DOMAIN attempts'[t]
    BY <1>0, <1>1, <1>2 DEF Lengthens
  <2> SUFFICES ASSUME NEW visited \in SUBSET DOMAIN attempts'[t], n + 1 \in visited,
                      \A d \in visited : attempts'[t][d].from # 0 => attempts'[t][d].from \in visited
               PROVE  b \in visited
    BY <2>1 DEF Ancestors
  <2> DEFINE inner == visited \cap 1 .. n
  <2>2. inner \in SUBSET DOMAIN attempts[t] /\ f \in inner
    BY <2>1 DEF Lengthens
  <2>3. \A d \in inner : attempts[t][d].from # 0 => attempts[t][d].from \in inner
    BY DEF Lengthens, Closed
  <2> HIDE DEF inner
  <2>4. b \in inner
    BY <2>1, <2>2, <2>3 DEF Ancestors
  <2> QED BY <2>4 DEF inner
<1>3. n + 1 \in Ancestors(t, n + 1)'
  BY <1>0 DEF Ancestors, Lengthens
<1>4. ASSUME NEW b \in Ancestors(t, n + 1)'
      PROVE  b \in {n + 1} \cup before
  <2> DEFINE all == {n + 1} \cup before
  <2>1. all \in SUBSET DOMAIN attempts'[t] /\ n + 1 \in all
    BY <1>0, <1>1 DEF Lengthens
  <2>2. \A d \in all : attempts'[t][d].from # 0 => attempts'[t][d].from \in all
    BY <1>1 DEF Lengthens
  <2> HIDE DEF all
  <2>3. b \in all
    BY <1>4, <2>1, <2>2 DEF Ancestors
  <2> QED BY <2>3 DEF all
<1> QED BY <1>2, <1>3, <1>4

-----------------------------------------------------------------------------
(* Numbers of events *)

LEMMA OldNumbers ==
    ASSUME TypeInv, EvidenceContiguous, NEW t \in Tasks, NEW i \in Events(t)
    PROVE  /\ history[t][i].seq \in Nat /\ nextSeq[t] \in Nat /\ history[t][i].seq < nextSeq[t]
           /\ i \in DOMAIN history[t]
<1>1. nextSeq[t] \in Nat
  BY DEF TypeInv, TypeOK, StoreType
<1>2. history[t][i].seq \in 0 .. nextSeq[t] - 1
  BY DEF EvidenceContiguous
<1> QED BY <1>1, <1>2 DEF Events

LEMMA NewNumbers ==
    ASSUME TypeInv, TypeInv', EvidenceContiguous, EvidenceContiguous', NEW t \in Tasks, Keeps(t)
    PROVE  /\ nextSeq[t] \in Nat /\ nextSeq'[t] \in Nat /\ nextSeq[t] <= nextSeq'[t]
           /\ \A i \in Events(t) : i \in Events(t)' /\ history'[t][i] = history[t][i]
           /\ \A i \in Events(t)' : i \notin Events(t) =>
                 /\ NewAt(t, i) /\ history'[t][i].seq \in Nat
                 /\ history'[t][i].seq >= nextSeq[t] /\ history'[t][i].seq < nextSeq'[t]
<1>1. nextSeq[t] \in Nat /\ nextSeq'[t] \in Nat
  BY DEF TypeInv, TypeOK, StoreType
<1>2. \A i \in Events(t) : i \in Events(t)' /\ history'[t][i] = history[t][i]
  BY DEF Events, Keeps, IsEvent
<1>3. nextSeq[t] <= nextSeq'[t]
  <2>1. SUFFICES ASSUME nextSeq[t] > nextSeq'[t]
                 PROVE  FALSE
    BY <1>1
  <2>2. nextSeq'[t] \in 0 .. nextSeq[t] - 1
    BY <1>1, <2>1
  <2>3. PICK i \in Events(t) : history[t][i].seq = nextSeq'[t]
    BY <2>2 DEF EvidenceContiguous
  <2>4. history'[t][i].seq \in 0 .. nextSeq'[t] - 1
    BY <1>2 DEF EvidenceContiguous
  <2> QED BY <1>1, <1>2, <2>3, <2>4
<1>4. ASSUME NEW i \in Events(t)', i \notin Events(t)
      PROVE  /\ NewAt(t, i) /\ history'[t][i].seq \in Nat
             /\ history'[t][i].seq >= nextSeq[t] /\ history'[t][i].seq < nextSeq'[t]
  <2>1. NewAt(t, i)
    BY <1>4 DEF NewAt, Events, IsEvent, Keeps
  <2>2. history'[t][i].seq \in 0 .. nextSeq'[t] - 1
    BY <1>4 DEF EvidenceContiguous
  <2>3. ASSUME history'[t][i].seq < nextSeq[t]
        PROVE  FALSE
    <3>1. history'[t][i].seq \in 0 .. nextSeq[t] - 1
      BY <1>1, <2>2, <2>3
    <3>2. PICK j \in Events(t) : history[t][j].seq = history'[t][i].seq
      BY <3>1 DEF EvidenceContiguous
    <3>3. history'[t][j].seq = history'[t][i].seq /\ j \in Events(t)' /\ j \in DOMAIN history[t]
      BY <1>2, <3>2 DEF Events
    <3>4. j < i
      <4>1. /\ DOMAIN history[t] = 1 .. Len(history[t]) /\ Len(history[t]) \in Nat
            /\ DOMAIN history'[t] = 1 .. Len(history'[t]) /\ Len(history'[t]) \in Nat
        BY LenProperties DEF TypeInv, TypeOK, StoreType
      <4> QED BY <2>1, <3>3, <4>1 DEF NewAt
    <3>5. history'[t][j].seq < history'[t][i].seq
      BY <1>4, <3>3, <3>4 DEF EvidenceContiguous
    <3> QED BY <2>2, <3>3, <3>5
  <2> QED BY <1>1, <2>1, <2>2, <2>3
<1> QED BY <1>1, <1>2, <1>3, <1>4

-----------------------------------------------------------------------------
(* What a step adds to an observation *)

LEMMA ObservedFacts ==
    ASSUME ObservedInv, LedgerInv', ContiguousInv', ConstantAssumption, NEW p \in Procs, Step(p),
           NEW t \in Tasks
    PROVE  /\ TypeInv /\ TypeInv' /\ StageInv /\ EvidenceContiguous /\ EvidenceContiguous'
           /\ HistoryBound /\ HistoryBound' /\ Keeps(t)
           /\ \E m \in Nat : Lengthens(t, Current(t), m)
           /\ Current(t) \in Nat /\ Closed(t, Current(t))
           /\ \A a \in 1 .. Current(t) :
                 /\ attempts[t][a] \in AttemptType
                 /\ attempts[t][a].from # 0 => attempts[t][a].limit < nextSeq[t]
<1>1. /\ TypeInv /\ TypeInv' /\ StageInv /\ EvidenceContiguous /\ EvidenceContiguous'
      /\ HistoryBound /\ HistoryBound'
  BY DEF ObservedInv, LedgerInv, ContiguousInv, StageInv
<1>2. Keeps(t)
  BY <1>1, StepKeeps
<1>3. /\ Current(t) \in Nat /\ DOMAIN attempts[t] = 1 .. Current(t)
      /\ \E m \in Nat : Lengthens(t, Current(t), m)
  <2>1. /\ Current(t) \in Nat /\ DOMAIN attempts[t] = 1 .. Current(t)
        /\ \A a \in 1 .. Current(t) : attempts'[t][a] = attempts[t][a]
        /\ \E m \in {Current(t), Current(t) + 1} : DOMAIN attempts'[t] = 1 .. m
    BY <1>1, AttemptsKeep
  <2> QED BY <2>1 DEF Lengthens
<1>4. \A a \in 1 .. Current(t) : attempts[t][a] \in AttemptType
  BY <1>1, <1>3 DEF TypeInv, TypeOK, StoreType
<1> QED BY <1>1, <1>2, <1>3, <1>4 DEF ObservedInv, AncestorsOK, Closed

(* An event that was not there is observed when it is the attempt's own. *)
LEMMA StepProjected ==
    ASSUME ObservedInv, LedgerInv', ContiguousInv', ConstantAssumption, NEW p \in Procs, Step(p),
           NEW t \in Tasks, NEW a \in 1 .. Current(t), NEW n \in Int
    PROVE  /\ \A i \in Events(t) : i \in Projected(t, a, n)' <=> i \in Projected(t, a, n)
           /\ \A i \in Events(t)' : i \notin Events(t) =>
                 (i \in Projected(t, a, n)' <=> history'[t][i].attempt = a /\ history'[t][i].seq <= n)
<1>0. /\ TypeInv /\ TypeInv' /\ EvidenceContiguous /\ EvidenceContiguous' /\ HistoryBound' /\ Keeps(t)
      /\ Current(t) \in Nat /\ Closed(t, Current(t))
      /\ \A b \in 1 .. Current(t) :
            /\ attempts[t][b] \in AttemptType
            /\ attempts[t][b].from # 0 => attempts[t][b].limit < nextSeq[t]
  BY ObservedFacts
<1>1. PICK m \in Nat : Lengthens(t, Current(t), m)
  BY ObservedFacts
<1>2. Ancestors(t, a)' = Ancestors(t, a) /\ Ancestors(t, a) \subseteq 1 .. Current(t)
  <2>1. Ancestors(t, a)' = Ancestors(t, a)
    BY <1>0, <1>1, AncestorsStay
  <2>2. DOMAIN attempts[t] = 1 .. Current(t)
    BY <1>1 DEF Lengthens
  <2> QED BY <2>1, <2>2 DEF Ancestors
<1>3. \A c \in Ancestors(t, a) : attempts'[t][c] = attempts[t][c]
  BY <1>1, <1>2 DEF Lengthens
<1>4. /\ nextSeq[t] \in Nat
      /\ \A i \in Events(t) : i \in Events(t)' /\ history'[t][i] = history[t][i]
      /\ \A i \in Events(t)' : i \notin Events(t) =>
            history'[t][i].seq \in Nat /\ history'[t][i].seq >= nextSeq[t]
  BY <1>0, NewNumbers
<1>5. ASSUME NEW i \in Events(t)
      PROVE  i \in Projected(t, a, n)' <=> i \in Projected(t, a, n)
  BY <1>2, <1>3, <1>4 DEF Projected
<1>6. ASSUME NEW i \in Events(t)', i \notin Events(t)
      PROVE  i \in Projected(t, a, n)' <=> history'[t][i].attempt = a /\ history'[t][i].seq <= n
  <2>1. ASSUME NEW c \in Ancestors(t, a), history'[t][i].attempt = attempts'[t][c].from,
               history'[t][i].seq <= attempts'[t][c].limit
        PROVE  FALSE
    <3>1. c \in 1 .. Current(t) /\ attempts'[t][c] = attempts[t][c] /\ attempts[t][c] \in AttemptType
      BY <1>0, <1>2, <1>3
    <3>2. i \in DOMAIN history'[t] /\ history'[t][i].attempt # 0
      BY <1>0 DEF HistoryBound, Events
    <3>3. attempts[t][c].limit < nextSeq[t] /\ attempts[t][c].limit \in Int
      BY <1>0, <2>1, <3>1, <3>2 DEF AttemptType
    <3> QED BY <1>4, <1>6, <2>1, <3>1, <3>3
  <2> QED BY <1>2, <2>1 DEF Projected
<1> QED BY <1>5, <1>6

Observable == {"evaluation", "baseline_ready"}

(* What was observed up to an event is observed for ever; and only its own *)
(* publications add to what is observed of an attempt.                     *)
LEMMA SeenKeeps ==
    ASSUME ObservedInv, LedgerInv', ContiguousInv', ConstantAssumption, NEW p \in Procs, Step(p),
           NEW t \in Tasks, NEW a \in 1 .. Current(t), NEW n \in Int,
           n < nextSeq[t] \/ ~Publishing(p, t, a), NEW kind \in Observable, NEW g
    PROVE  Seen(t, a, n, kind, g)' = Seen(t, a, n, kind, g)
<1>0. /\ TypeInv /\ TypeInv' /\ StageInv /\ EvidenceContiguous /\ EvidenceContiguous' /\ Keeps(t)
  BY ObservedFacts
<1>1. /\ nextSeq[t] \in Nat
      /\ \A i \in Events(t) : i \in Events(t)' /\ history'[t][i] = history[t][i]
      /\ \A i \in Events(t)' : i \notin Events(t) =>
            history'[t][i].seq \in Nat /\ history'[t][i].seq >= nextSeq[t]
  BY <1>0, NewNumbers
<1>2. ASSUME NEW i \in Seen(t, a, n, kind, g)
      PROVE  i \in Seen(t, a, n, kind, g)'
  <2>1. i \in Events(t) /\ i \in Projected(t, a, n)
    BY <1>2 DEF Seen, Projected
  <2>2. i \in Projected(t, a, n)' /\ history'[t][i] = history[t][i]
    BY <1>1, <2>1, StepProjected
  <2> QED BY <1>2, <2>2 DEF Seen
<1>3. ASSUME NEW i \in Seen(t, a, n, kind, g)'
      PROVE  i \in Seen(t, a, n, kind, g)
  <2>1. /\ i \in Events(t)' /\ i \in Projected(t, a, n)' /\ i \in DOMAIN history'[t]
        /\ history'[t][i].kind = kind /\ history'[t][i].gen = g
    BY <1>3 DEF Seen, Projected, Events
  <2>2. CASE i \in Events(t)
    <3>1. i \in Projected(t, a, n) /\ history'[t][i] = history[t][i]
      BY <1>1, <2>1, <2>2, StepProjected
    <3> QED BY <2>1, <3>1 DEF Seen
  <2>3. CASE i \notin Events(t)
    <3>1. history'[t][i].attempt = a /\ history'[t][i].seq <= n
      BY <2>1, <2>3, StepProjected
    <3>2. ~Publishing(p, t, a)
      BY <1>1, <2>1, <2>3, <3>1
    <3>3. i \in DOMAIN history[t] /\ history'[t][i] = history[t][i]
      BY <1>0, <2>1, <3>1, <3>2, KindKeeps DEF Minor, Observable
    <3> QED BY <2>1, <2>3, <3>3 DEF Events
  <2> QED BY <2>2, <2>3
<1> QED BY <1>2, <1>3

LEMMA WholeKeeps ==
    ASSUME ObservedInv, LedgerInv', ContiguousInv', ConstantAssumption, NEW p \in Procs, Step(p),
           NEW t \in Tasks, NEW a \in 1 .. Current(t), NEW n \in Int,
           n < nextSeq[t] \/ ~Publishing(p, t, a), NEW m, NEW based, Whole(t, a, n, m, based)
    PROVE  Whole(t, a, n, m, based)'
<1>1. \A kind \in Observable : \A g \in Nat \cup 1 .. m : Seen(t, a, n, kind, g)' = Seen(t, a, n, kind, g)
  BY SeenKeeps
<1>2. /\ Seen(t, a, n, "baseline_ready", 0)' = Seen(t, a, n, "baseline_ready", 0)
      /\ \A g \in 1 .. m : Seen(t, a, n, "evaluation", g)' = Seen(t, a, n, "evaluation", g)
      /\ \A g \in Nat : Seen(t, a, n, "evaluation", g)' = Seen(t, a, n, "evaluation", g)
  BY <1>1 DEF Observable
<1>3. /\ ExactlyOne(Seen(t, a, n, "baseline_ready", 0))' <=> ExactlyOne(Seen(t, a, n, "baseline_ready", 0))
      /\ \A g \in 1 .. m : ExactlyOne(Seen(t, a, n, "evaluation", g))' <=> ExactlyOne(Seen(t, a, n, "evaluation", g))
  BY <1>2 DEF ExactlyOne
<1> QED BY <1>2, <1>3 DEF Whole

(* No event is numbered above the pointer. *)
LEMMA WholeAll ==
    ASSUME TypeInv, EvidenceContiguous, NEW t \in Tasks, NEW a, NEW n \in Int, n >= nextSeq[t] - 1,
           NEW m, NEW based, Whole(t, a, nextSeq[t] - 1, m, based)
    PROVE  Whole(t, a, n, m, based)
<1>1. \A i \in Events(t) : history[t][i].seq <= n /\ history[t][i].seq <= nextSeq[t] - 1
  BY OldNumbers
<1>2. Projected(t, a, n) = Projected(t, a, nextSeq[t] - 1)
  BY <1>1 DEF Projected
<1>3. \A kind, g : Seen(t, a, n, kind, g) = Seen(t, a, nextSeq[t] - 1, kind, g)
  BY <1>2 DEF Seen
<1> QED BY <1>3 DEF Whole

-----------------------------------------------------------------------------
(* What a publication adds to the observation of its attempt *)

LEMMA SeenMore ==
    ASSUME ObservedInv, LedgerInv', ContiguousInv', ConstantAssumption, NEW p \in Procs, Step(p),
           Publishes(p), NEW t \in Tasks, t = TaskOf[p], NEW a \in 1 .. Current(t), a = attempt[p],
           NEW n \in Int, n >= nextSeq'[t] - 1, NEW kind \in Observable, NEW g, NEW i
    PROVE  i \in Seen(t, a, n, kind, g)' <=>
              \/ i \in Seen(t, a, n, kind, g)
              \/ /\ NewAt(t, i) /\ IsEvent(history'[t][i])
                 /\ history'[t][i].kind = kind /\ history'[t][i].gen = g
<1>0. /\ TypeInv /\ TypeInv' /\ StageInv /\ EvidenceContiguous /\ EvidenceContiguous' /\ Keeps(t)
  BY ObservedFacts
<1>1. /\ nextSeq[t] \in Nat /\ nextSeq'[t] \in Nat
      /\ \A j \in Events(t) : j \in Events(t)' /\ history'[t][j] = history[t][j]
      /\ \A j \in Events(t)' : j \notin Events(t) =>
            NewAt(t, j) /\ history'[t][j].seq \in Nat /\ history'[t][j].seq < nextSeq'[t]
  BY <1>0, NewNumbers
<1>2. CASE i \in Events(t)
  <2>1. /\ i \in Projected(t, a, n)' <=> i \in Projected(t, a, n)
        /\ history'[t][i] = history[t][i] /\ i \in DOMAIN history[t]
    BY <1>1, <1>2, StepProjected DEF Events
  <2> QED BY <2>1 DEF Seen, NewAt
<1>3. CASE i \notin Events(t) /\ i \in Events(t)'
  <2>1. NewAt(t, i) /\ history'[t][i].seq <= n /\ IsEvent(history'[t][i])
    BY <1>1, <1>3 DEF Events
  <2>2. history'[t][i].attempt = a
    BY <1>0, <2>1, PublishedReady
  <2>3. i \in Projected(t, a, n)'
    BY <1>3, <2>1, <2>2, StepProjected
  <2>4. i \notin Seen(t, a, n, kind, g)
    BY <1>3 DEF Seen, Projected
  <2> QED BY <2>1, <2>3, <2>4 DEF Seen
<1>4. CASE i \notin Events(t) /\ i \notin Events(t)'
  BY <1>4 DEF Seen, Projected, Events, NewAt
<1> QED BY <1>2, <1>3, <1>4

Based(p, t, a) == resume[p] # Fresh \/ HasBaseline(t, a)

(* The attempt of a publication under way is observed as far as it has published. *)
LEMMA PublishesFrom ==
    ASSUME ObservedInv, LedgerInv', ContiguousInv', ConstantAssumption, NEW p \in Procs, Step(p),
           Publishes(p), NEW t, t = TaskOf[p], NEW a, a = attempt[p], NEW n \in Int,
           n >= nextSeq'[t] - 1, NEW l, l = Len(chain[p]), NEW based, based = Based(p, t, a)
    PROVE  /\ t \in Tasks /\ a \in 1 .. Current(t) /\ l \in Nat /\ uncertain[p] = "none"
           /\ Whole(t, a, n, l, based)
           /\ StageInv /\ TypeInv /\ StageAt(p) /\ CallTypes(p) /\ LedgerAt(p) /\ ExactAt(p)
           /\ pc[p] = "commit" /\ job[p] \in SegmentJobs \cup EventJobs
           /\ nextSeq[t] \in Nat /\ snap[p].seq = nextSeq[t]
<1>1. /\ StageInv /\ TypeInv /\ StageAt(p) /\ CallTypes(p) /\ LedgerAt(p) /\ ExactAt(p) /\ JobAt(p)
      /\ t \in Tasks /\ l \in Nat /\ pc[p] = "commit"
  BY LedgerTypes DEF ObservedInv, Publishes
<1>2. /\ TypeInv /\ TypeInv' /\ EvidenceContiguous /\ EvidenceContiguous' /\ Keeps(t)
  BY <1>1, ObservedFacts
<1>3. nextSeq[t] \in Nat /\ nextSeq'[t] \in Nat /\ nextSeq[t] <= nextSeq'[t]
  BY <1>1, <1>2, NewNumbers
<1>4. attempt[p] # 0 /\ uncertain[p] = "none" /\ a \in 1 .. Current(t)
  BY <1>1 DEF StageAt, ClaimOK, Unclaimed, CallTypes
<1>5. Level(p) = l /\ ~Diagnosed(p)
  BY <1>1 DEF Level, Diagnosed
<1>6. Whole(t, a, nextSeq[t] - 1, l, based)
  BY <1>4, <1>5 DEF ObservedInv, WholeAt, Based
<1>7. Whole(t, a, n, l, based)
  BY <1>1, <1>2, <1>3, <1>6, WholeAll
<1>8. snap[p].seq = nextSeq[t]
  BY <1>1 DEF ObservedInv, ContiguousInv, FreshInv, SnapshotFresh
<1> QED BY <1>1, <1>3, <1>4, <1>7, <1>8 DEF JobAt

(* The baseline. *)
LEMMA BaselineWhole ==
    ASSUME ObservedInv, LedgerInv', ContiguousInv', ConstantAssumption, NEW p \in Procs, Step(p),
           Publishes(p), NEW t, t = TaskOf[p], NEW a, a = attempt[p], NEW n \in Int,
           n >= nextSeq'[t] - 1, job[p] \in SegmentJobs, completed[p] = << 0 >>
    PROVE  Whole(t, a, n, 0, TRUE)'
<1>a. PICK l, based : l = Len(chain[p]) /\ based = Based(p, t, a)
  OBVIOUS
<1>0. /\ t \in Tasks /\ a \in 1 .. Current(t) /\ uncertain[p] = "none" /\ Whole(t, a, n, l, based)
      /\ StageInv /\ TypeInv /\ StageAt(p) /\ CallTypes(p) /\ LedgerAt(p) /\ pc[p] = "commit"
      /\ nextSeq[t] \in Nat /\ snap[p].seq = nextSeq[t]
  BY <1>a, PublishesFrom
<1>1. BaselineStaged(p)
  BY <1>0 DEF StageAt, StagedOK, GenerationsStaged
<1>2. chain[p] = <<>> /\ resume[p] = Fresh /\ l = 0
  BY <1>1, <1>a DEF BaselineStaged
<1>3. ~HasBaseline(t, a)
  BY <1>0 DEF LedgerAt, BaselineOK, BaselineDue
<1>4. based = FALSE
  BY <1>2, <1>3, <1>a DEF Based
<1>5. /\ Seen(t, a, n, "baseline_ready", 0) = {}
      /\ \A g \in Nat : g > 0 => Seen(t, a, n, "evaluation", g) = {}
  BY <1>0, <1>2, <1>4 DEF Whole
<1>6. /\ Len(NewChanges(p)) = 1
      /\ NewChanges(p)[1] = Change("baseline_ready", attempt[p], 0, snap[p].seq)
  BY BaselineChanges
<1>7. /\ Len(history[t]) \in Nat /\ DOMAIN history[t] = 1 .. Len(history[t])
      /\ DOMAIN history'[t] = 1 .. Len(history[t]) + 1
      /\ history'[t][Len(history[t]) + 1] = NewChanges(p)[1]
  <2>1. /\ Len(history[t]) \in Nat /\ DOMAIN history[t] = 1 .. Len(history[t])
        /\ DOMAIN history'[t] = 1 .. Len(history[t]) + Len(NewChanges(p))
        /\ \A k \in 1 .. Len(NewChanges(p)) : history'[t][Len(history[t]) + k] = NewChanges(p)[k]
    BY <1>0, PublishesHistory
  <2>2. 1 \in 1 .. Len(NewChanges(p))
    BY <1>6
  <2> QED BY <1>6, <2>1, <2>2
<1>b. PICK new : new = Len(history[t]) + 1
  OBVIOUS
<1>8. /\ \A i : NewAt(t, i) <=> i = new
      /\ history'[t][new].kind = "baseline_ready" /\ history'[t][new].gen = 0
      /\ IsEvent(history'[t][new])
  <2>1. \A i : NewAt(t, i) <=> i = new
    BY <1>7, <1>b DEF NewAt
  <2>2. history'[t][new] = Change("baseline_ready", attempt[p], 0, snap[p].seq)
    BY <1>6, <1>7, <1>b
  <2>3. snap[p].seq # NoEvent
    BY <1>0 DEF NoEvent
  <2> QED BY <2>1, <2>2, <2>3 DEF Change, IsEvent
<1>9. \A i : i \in Seen(t, a, n, "baseline_ready", 0)' <=> i = new
  BY <1>0, <1>5, <1>8, SeenMore DEF Observable
<1>10. \A g \in Nat : g > 0 => \A i : i \notin Seen(t, a, n, "evaluation", g)'
  BY <1>0, <1>5, <1>8, SeenMore DEF Observable
<1>11. ExactlyOne(Seen(t, a, n, "baseline_ready", 0))'
  <2>1. Seen(t, a, n, "baseline_ready", 0)' = {new}
    BY <1>9
  <2> QED BY <2>1 DEF ExactlyOne
<1>12. \A g \in Nat : g > 0 => Seen(t, a, n, "evaluation", g)' = {}
  BY <1>10
<1> QED BY <1>11, <1>12 DEF Whole

(* A group: one evaluation for each of its generations, which are the next ones. *)
LEMMA GroupWhole ==
    ASSUME ObservedInv, LedgerInv', ContiguousInv', ConstantAssumption, NEW p \in Procs, Step(p),
           Publishes(p), NEW t, t = TaskOf[p], NEW a, a = attempt[p], NEW n \in Int,
           n >= nextSeq'[t] - 1, job[p] \in SegmentJobs, completed[p] # << 0 >>,
           NEW m, m = Len(Reached(p))
    PROVE  Whole(t, a, n, m, TRUE)'
<1>a. PICK l, based : l = Len(chain[p]) /\ based = Based(p, t, a)
  OBVIOUS
<1>b. PICK h, s : h = Len(history[t]) /\ s = Len(completed[p])
  OBVIOUS
<1>0. /\ t \in Tasks /\ a \in 1 .. Current(t) /\ uncertain[p] = "none" /\ Whole(t, a, n, l, based)
      /\ StageInv /\ TypeInv /\ StageAt(p) /\ CallTypes(p) /\ LedgerAt(p) /\ ExactAt(p)
      /\ pc[p] = "commit" /\ nextSeq[t] \in Nat /\ snap[p].seq = nextSeq[t] /\ l \in Nat
  BY <1>a, PublishesFrom
<1>1. GenerationsStaged(p)
  BY <1>0 DEF StageAt, StagedOK, BaselineStaged
<1>2. /\ s \in Nat /\ s > 0 /\ Len(NewChanges(p)) = 2 * s
      /\ \A k \in 1 .. s :
            /\ 2 * k - 1 \in 1 .. 2 * s
            /\ NewChanges(p)[2 * k - 1] =
                  Change("evaluation", attempt[p], completed[p][k], snap[p].seq + 2 * k - 2)
            /\ NewChanges(p)[2 * k] =
                  Change("generation_ready", attempt[p], completed[p][k], snap[p].seq + 2 * k - 1)
      /\ \A i \in 1 .. 2 * s : \E k \in 1 .. s : i = 2 * k - 1 \/ i = 2 * k
  BY <1>0, <1>1, <1>b, GenerationChanges
<1>3. /\ h \in Nat /\ DOMAIN history[t] = 1 .. h /\ DOMAIN history'[t] = 1 .. h + 2 * s
      /\ \A k \in 1 .. 2 * s : history'[t][h + k] = NewChanges(p)[k]
  BY <1>0, <1>2, <1>b, PublishesHistory
<1>4. m = l + s /\ \A k \in 1 .. s : completed[p][k] = l + k
  <2>1. completed[p] # <<>>
    BY <1>2, <1>b
  <2>2. LinksOK(p)
    BY <1>0 DEF ExactAt
  <2> QED BY <1>0, <1>1, <1>a, <1>b, <2>1, <2>2, StagedNumbers
<1>5. based = TRUE
  <2>1. completed[p] # <<>>
    BY <1>2, <1>b
  <2>2. BaselineDone(p)
    BY <2>1 DEF BaselineDone
  <2>3. attempt[p] # 0
    BY <1>0
  <2>4. resume[p] = Fresh => HasBaseline(TaskOf[p], attempt[p])
    BY <1>0, <2>2, <2>3 DEF LedgerAt, BaselineOK
  <2>5. resume[p] # Fresh \/ HasBaseline(t, a)
    BY <2>4
  <2> QED BY <1>a, <2>5, Zenon DEF Based
<1>6. \A k \in 1 .. s :
         /\ NewAt(t, h + (2 * k - 1)) /\ IsEvent(history'[t][h + (2 * k - 1)])
         /\ history'[t][h + (2 * k - 1)].kind = "evaluation"
         /\ history'[t][h + (2 * k - 1)].gen = l + k
  <2> SUFFICES ASSUME NEW k \in 1 .. s
               PROVE  /\ NewAt(t, h + (2 * k - 1)) /\ IsEvent(history'[t][h + (2 * k - 1)])
                      /\ history'[t][h + (2 * k - 1)].kind = "evaluation"
                      /\ history'[t][h + (2 * k - 1)].gen = l + k
    OBVIOUS
  <2>a. PICK i : i = 2 * k - 1
    OBVIOUS
  <2>b. PICK q : q = snap[p].seq + 2 * k - 2
    OBVIOUS
  <2>1. i \in 1 .. 2 * s /\ NewChanges(p)[i] = Change("evaluation", attempt[p], l + k, q)
    BY <1>2, <1>4, <2>a, <2>b
  <2>2. h + i \in 1 .. h + 2 * s /\ h + i \notin 1 .. h
    BY <1>2, <1>3, <2>1
  <2>3. NewAt(t, h + i) /\ history'[t][h + i] = Change("evaluation", attempt[p], l + k, q)
    BY <1>3, <2>1, <2>2 DEF NewAt
  <2>4. q # NoEvent
    BY <1>0, <1>2, <2>b DEF NoEvent
  <2>5. IsEvent(history'[t][h + i]) /\ history'[t][h + i].kind = "evaluation" /\ history'[t][h + i].gen = l + k
    BY <2>3, <2>4 DEF Change, IsEvent
  <2> QED BY <2>3, <2>5, <2>a
<1>7. \A i : NewAt(t, i) =>
         \E k \in 1 .. s : \/ i = h + (2 * k - 1)
                           \/ history'[t][i].kind = "generation_ready"
  <2> SUFFICES ASSUME NEW i, NewAt(t, i)
               PROVE  \E k \in 1 .. s : \/ i = h + (2 * k - 1)
                                        \/ history'[t][i].kind = "generation_ready"
    OBVIOUS
  <2>1. i \in 1 .. h + 2 * s /\ i \notin 1 .. h
    BY <1>3 DEF NewAt
  <2>a. PICK j : j = i - h
    OBVIOUS
  <2>2. j \in 1 .. 2 * s /\ i = h + j
    BY <1>2, <1>3, <2>1, <2>a
  <2>3. PICK k \in 1 .. s : j = 2 * k - 1 \/ j = 2 * k
    BY <1>2, <2>2
  <2>4. CASE j = 2 * k - 1
    BY <2>2, <2>4
  <2>5. CASE j = 2 * k
    <3>1. history'[t][i] = NewChanges(p)[2 * k]
      BY <1>3, <2>2, <2>5
    <3>a. PICK q : q = snap[p].seq + 2 * k - 1
      OBVIOUS
    <3>2. history'[t][i] = Change("generation_ready", attempt[p], completed[p][k], q)
      BY <1>2, <3>1, <3>a
    <3>3. history'[t][i].kind = "generation_ready"
      BY <3>2 DEF Change
    <3> QED BY <3>3
  <2> QED BY <2>3, <2>4, <2>5
<1>8. \A g, i : i \in Seen(t, a, n, "evaluation", g)' <=>
                   \/ i \in Seen(t, a, n, "evaluation", g)
                   \/ \E k \in 1 .. s : i = h + (2 * k - 1) /\ g = l + k
  <2> SUFFICES ASSUME NEW g, NEW i
               PROVE  i \in Seen(t, a, n, "evaluation", g)' <=>
                         \/ i \in Seen(t, a, n, "evaluation", g)
                         \/ \E k \in 1 .. s : i = h + (2 * k - 1) /\ g = l + k
    OBVIOUS
  <2>1. i \in Seen(t, a, n, "evaluation", g)' <=>
           \/ i \in Seen(t, a, n, "evaluation", g)
           \/ /\ NewAt(t, i) /\ IsEvent(history'[t][i])
              /\ history'[t][i].kind = "evaluation" /\ history'[t][i].gen = g
    <3>1. "evaluation" \in Observable
      BY DEF Observable
    <3> QED BY <1>0, <3>1, SeenMore
  <2>2. ASSUME NEW k \in 1 .. s, i = h + (2 * k - 1), g = l + k
        PROVE  /\ NewAt(t, i) /\ IsEvent(history'[t][i])
               /\ history'[t][i].kind = "evaluation" /\ history'[t][i].gen = g
    BY <1>6, <2>2
  <2>3. ASSUME NewAt(t, i), history'[t][i].kind = "evaluation", history'[t][i].gen = g
        PROVE  \E k \in 1 .. s : i = h + (2 * k - 1) /\ g = l + k
    <3>1. PICK k \in 1 .. s : i = h + (2 * k - 1) \/ history'[t][i].kind = "generation_ready"
      BY <1>7, <2>3
    <3>2. i = h + (2 * k - 1)
      BY <2>3, <3>1
    <3>3. g = l + k
      BY <1>6, <2>3, <3>2
    <3> QED BY <3>2, <3>3
  <2> QED BY <2>1, <2>2, <2>3
<1>9. \A i : i \in Seen(t, a, n, "baseline_ready", 0)' <=> i \in Seen(t, a, n, "baseline_ready", 0)
  <2> SUFFICES ASSUME NEW i
               PROVE  i \in Seen(t, a, n, "baseline_ready", 0)' <=> i \in Seen(t, a, n, "baseline_ready", 0)
    OBVIOUS
  <2>1. i \in Seen(t, a, n, "baseline_ready", 0)' <=>
           \/ i \in Seen(t, a, n, "baseline_ready", 0)
           \/ /\ NewAt(t, i) /\ IsEvent(history'[t][i])
              /\ history'[t][i].kind = "baseline_ready" /\ history'[t][i].gen = 0
    BY <1>0, SeenMore DEF Observable
  <2> QED BY <1>6, <1>7, <2>1
<1>10. ExactlyOne(Seen(t, a, n, "baseline_ready", 0))'
  <2>1. Seen(t, a, n, "baseline_ready", 0)' = Seen(t, a, n, "baseline_ready", 0)
    BY <1>9
  <2>2. ExactlyOne(Seen(t, a, n, "baseline_ready", 0))
    BY <1>0, <1>5 DEF Whole
  <2> QED BY <2>1, <2>2 DEF ExactlyOne
<1>11. ASSUME NEW g \in 1 .. m
       PROVE  ExactlyOne(Seen(t, a, n, "evaluation", g))'
  <2>1. CASE g <= l
    <3>1. \A k \in 1 .. s : g # l + k
      BY <1>0, <1>2, <2>1
    <3>2. Seen(t, a, n, "evaluation", g)' = Seen(t, a, n, "evaluation", g)
      <4>1. \A i : i \in Seen(t, a, n, "evaluation", g)' <=> i \in Seen(t, a, n, "evaluation", g)
        BY <1>8, <3>1, Zenon
      <4> QED BY <4>1, Zenon DEF Seen
    <3>3. g \in 1 .. l
      BY <1>0, <1>2, <1>4, <2>1
    <3> QED BY <1>0, <3>2, <3>3 DEF Whole, ExactlyOne
  <2>2. CASE g > l
    <3>a. PICK k : k = g - l
      OBVIOUS
    <3>1. k \in 1 .. s /\ g = l + k /\ g \in Nat /\ \A j \in 1 .. s : g = l + j => j = k
      BY <1>0, <1>2, <1>4, <2>2, <3>a
    <3>2. Seen(t, a, n, "evaluation", g) = {}
      BY <1>0, <2>2, <3>1 DEF Whole
    <3>3. \A i : i \in Seen(t, a, n, "evaluation", g)' <=> i = h + (2 * k - 1)
      BY <1>8, <3>1, <3>2
    <3>4. Seen(t, a, n, "evaluation", g)' = {h + (2 * k - 1)}
      BY <3>3
    <3> QED BY <3>4 DEF ExactlyOne
  <2> QED BY <1>0, <1>2, <1>4, <2>1, <2>2
<1>12. ASSUME NEW g \in Nat, g > m
       PROVE  Seen(t, a, n, "evaluation", g)' = {}
  <2>1. g > l /\ \A k \in 1 .. s : g # l + k
    BY <1>0, <1>2, <1>4, <1>12
  <2>2. Seen(t, a, n, "evaluation", g) = {}
    BY <1>0, <2>1 DEF Whole
  <2> QED BY <1>8, <2>1, <2>2
<1> QED BY <1>10, <1>11, <1>12 DEF Whole

(* An event that archives no diagnostics. *)
LEMMA EventWhole ==
    ASSUME ObservedInv, LedgerInv', ContiguousInv', ConstantAssumption, NEW p \in Procs, Step(p),
           Publishes(p), NEW t, t = TaskOf[p], NEW a, a = attempt[p], NEW n \in Int,
           n >= nextSeq'[t] - 1, job[p] \in EventJobs, job[p] # "failed", NEW m, m = Len(Reached(p)),
           NEW based, based = Based(p, t, a)
    PROVE  Whole(t, a, n, m, based)'
<1>a. PICK l : l = Len(chain[p])
  OBVIOUS
<1>0. /\ t \in Tasks /\ a \in 1 .. Current(t) /\ uncertain[p] = "none" /\ Whole(t, a, n, l, based)
      /\ StageInv /\ TypeInv /\ StageAt(p) /\ CallTypes(p) /\ LedgerAt(p) /\ ExactAt(p)
      /\ pc[p] = "commit" /\ nextSeq[t] \in Nat /\ snap[p].seq = nextSeq[t] /\ l \in Nat
  BY <1>a, PublishesFrom
<1>1. m = l
  <2>1. completed[p] = <<>>
    BY <1>0 DEF StageAt, StagedOK, InPublication
  <2> QED BY <1>0, <1>a, <2>1, NothingStaged DEF Reached, CallTypes
<1>2. pending[p] = <<>>
  BY <1>0 DEF ObservedInv, PendingOK, AtGeneration, EventJobs
<1>3. \A i : NewAt(t, i) => history'[t][i].kind \notin Observable
  <2> SUFFICES ASSUME NEW i, NewAt(t, i)
               PROVE  history'[t][i].kind \notin Observable
    OBVIOUS
  <2>1. PublishedChange(p, i - Len(history[t]), history'[t][i])
    BY <1>0, PublishedReady
  <2>2. Len(pending[p]) = 0
    BY <1>2
  <2>3. job[p] \notin SegmentJobs /\ job[p] \notin Observable
    BY DEF SegmentJobs, BarrierJobs, FlushJobs, EventJobs, Observable
  <2>4. ~DiagnosticChange(p, i - Len(history[t]), history'[t][i])
    BY <2>2 DEF DiagnosticChange
  <2> QED BY <2>1, <2>3, <2>4 DEF PublishedChange, BaselineChange, GenerationChange, EventChange,
             SuccessChange, Observable
<1>4. \A kind \in Observable : \A g : Seen(t, a, n, kind, g)' = Seen(t, a, n, kind, g)
  <2> SUFFICES ASSUME NEW kind \in Observable, NEW g
               PROVE  Seen(t, a, n, kind, g)' = Seen(t, a, n, kind, g)
    OBVIOUS
  <2>1. \A i : i \in Seen(t, a, n, kind, g)' <=> i \in Seen(t, a, n, kind, g)
    BY <1>0, <1>3, SeenMore
  <2> QED BY <2>1
<1>5. /\ Seen(t, a, n, "baseline_ready", 0)' = Seen(t, a, n, "baseline_ready", 0)
      /\ \A g : Seen(t, a, n, "evaluation", g)' = Seen(t, a, n, "evaluation", g)
  BY <1>4 DEF Observable
<1> QED BY <1>0, <1>1, <1>5 DEF Whole, ExactlyOne

-----------------------------------------------------------------------------
(* What is observed of published checkpoints, completed events and ancestors *)

LEMMA PointersGrow ==
    ASSUME ObservedInv, LedgerInv', ContiguousInv', ConstantAssumption, NEW p \in Procs, Step(p),
           NEW t \in Tasks
    PROVE  /\ nextSeq[t] \in Nat /\ nextSeq'[t] \in Nat /\ nextSeq[t] <= nextSeq'[t]
           /\ Current(t) \in Nat /\ Current(t)' \in Nat /\ Current(t) <= Current(t)'
<1>1. /\ TypeInv /\ TypeInv' /\ StageInv /\ EvidenceContiguous /\ EvidenceContiguous' /\ Keeps(t)
  BY ObservedFacts
<1>2. nextSeq[t] \in Nat /\ nextSeq'[t] \in Nat /\ nextSeq[t] <= nextSeq'[t]
  BY <1>1, NewNumbers
<1>3. Len(attempts'[t]) \in Nat /\ Len(attempts[t]) \in Nat
  BY <1>1, LenProperties DEF TypeInv, TypeOK, StoreType
<1>4. Len(attempts[t]) <= Len(attempts'[t])
  BY <1>1, StepHistory DEF Step, HistoryMove
<1> QED BY <1>2, <1>3, <1>4 DEF Current

(* What a call resumes is a published checkpoint, observed whole. *)
LEMMA ResumesPoint ==
    ASSUME ObservedInv, ConstantAssumption, NEW p \in Procs, NEW t, t = TaskOf[p], NEW c, c = resume[p]
    PROVE  /\ t \in Tasks /\ c \in CheckpointType
           /\ c = Fresh \/ (/\ c.attempt \in 1 .. Current(t) /\ c.seq < nextSeq[t]
                            /\ Whole(t, c.attempt, c.seq, c.gen, TRUE))
<1>1. LedgerInv /\ LedgerAt(p) /\ StageInv /\ t \in Tasks /\ c \in CheckpointType
  BY LedgerTypes DEF ObservedInv, CallTypes
<1>2. c = Fresh \/ \E i \in DOMAIN checkpoints[t] : c = checkpoints[t][i]
  BY <1>1 DEF LedgerAt, OriginOK
<1>3. ASSUME NEW i \in DOMAIN checkpoints[t], c = checkpoints[t][i]
      PROVE  /\ c.attempt \in 1 .. Current(t) /\ c.seq < nextSeq[t]
             /\ Whole(t, c.attempt, c.seq, c.gen, TRUE)
  BY <1>1, <1>3 DEF StageInv, PointsOK, ObservedInv, PointsWhole
<1> QED BY <1>1, <1>2, <1>3

LEMMA StepAncestors ==
    ASSUME ObservedInv, LedgerInv', ContiguousInv', ConstantAssumption, NEW p \in Procs, Step(p)
    PROVE  AncestorsOK'
<1> SUFFICES ASSUME NEW t \in Tasks, NEW a \in 1 .. Current(t)', attempts'[t][a].from # 0
             PROVE  /\ attempts'[t][a].from \in 1 .. Current(t)'
                    /\ attempts'[t][a].limit < nextSeq'[t]
  BY DEF AncestorsOK
<1>0. StageInv /\ TypeInv /\ TypeInv'
  BY ObservedFacts
<1>1. /\ nextSeq[t] \in Nat /\ nextSeq'[t] \in Nat /\ nextSeq[t] <= nextSeq'[t]
      /\ Current(t) \in Nat /\ Current(t)' \in Nat /\ Current(t) <= Current(t)'
  BY PointersGrow
<1>2. a \in DOMAIN attempts'[t]
  BY <1>0, LenProperties DEF Current, TypeInv, TypeOK, StoreType
<1>3. CASE a \in 1 .. Current(t)
  <2>1. attempts'[t][a] = attempts[t][a] /\ attempts[t][a] \in AttemptType
    <3>1. attempts'[t][a] = attempts[t][a]
      BY <1>0, <1>3, AttemptsKeep
    <3>2. attempts[t][a] \in AttemptType
      BY <1>3, ObservedFacts
    <3> QED BY <3>1, <3>2
  <2>2. attempts[t][a].from \in 1 .. Current(t) /\ attempts[t][a].limit < nextSeq[t]
        /\ attempts[t][a].limit \in Int
    BY <1>3, <2>1 DEF ObservedInv, AncestorsOK, AttemptType
  <2> QED BY <1>1, <2>1, <2>2
<1>4. CASE a \notin 1 .. Current(t)
  <2>1. t = TaskOf[p] /\ a = Current(t) + 1 /\ attempts'[t][a] = AttemptFact(p)
    BY <1>0, <1>1, <1>2, <1>4, AttemptsKeep
  <2>a. PICK c : c = resume[p]
    OBVIOUS
  <2>2. attempts'[t][a].from = c.attempt /\ attempts'[t][a].limit = c.seq
    BY <2>1, <2>a DEF AttemptFact
  <2>3. c # Fresh
    BY <2>2 DEF Fresh
  <2>4. c \in CheckpointType /\ c.attempt \in 1 .. Current(t) /\ c.seq < nextSeq[t]
    BY <2>1, <2>a, <2>3, ResumesPoint
  <2>5. c.seq \in Int
    BY <2>4 DEF CheckpointType
  <2> QED BY <1>1, <2>2, <2>4, <2>5
<1> QED BY <1>3, <1>4

(* The checkpoint of a publication is bound to its last event. *)
LEMMA StepPointsWhole ==
    ASSUME ObservedInv, LedgerInv', ContiguousInv', ConstantAssumption, NEW p \in Procs, Step(p)
    PROVE  PointsWhole'
<1> SUFFICES ASSUME NEW t \in Tasks, NEW i \in DOMAIN checkpoints'[t], NEW c, c = checkpoints'[t][i]
             PROVE  c.seq < nextSeq'[t] /\ Whole(t, c.attempt, c.seq, c.gen, TRUE)'
  <2>1. ASSUME NEW t \in Tasks, NEW i \in DOMAIN checkpoints'[t]
        PROVE  /\ checkpoints'[t][i].seq < nextSeq'[t]
               /\ Whole(t, checkpoints[t][i].attempt, checkpoints[t][i].seq, checkpoints[t][i].gen, TRUE)'
    <3>a. PICK c, a, n, g : c = checkpoints'[t][i] /\ a = c.attempt /\ n = c.seq /\ g = c.gen
      OBVIOUS
    <3>1. c.seq < nextSeq'[t] /\ Whole(t, a, n, g, TRUE)'
      BY <2>1, <3>a
    <3>2. Ancestors(t, checkpoints[t][i].attempt)' = Ancestors(t, a)'
      BY <3>a DEF Ancestors
    <3>3. Projected(t, checkpoints[t][i].attempt, checkpoints[t][i].seq)' = Projected(t, a, n)'
      BY <3>2, <3>a DEF Projected
    <3>4. \A kind, h : Seen(t, checkpoints[t][i].attempt, checkpoints[t][i].seq, kind, h)'
                          = Seen(t, a, n, kind, h)'
      BY <3>3 DEF Seen
    <3> QED BY <3>1, <3>4, <3>a DEF Whole
  <2> QED BY <2>1 DEF PointsWhole
<1>0. /\ TypeInv /\ TypeInv' /\ StageInv /\ EvidenceContiguous /\ EvidenceContiguous' /\ Keeps(t)
  BY ObservedFacts
<1>1. nextSeq[t] \in Nat /\ nextSeq'[t] \in Nat /\ nextSeq[t] <= nextSeq'[t]
  BY PointersGrow
<1>2. c \in CheckpointType
  BY <1>0 DEF TypeInv, TypeOK, StoreType
<1>3. CASE i \in DOMAIN checkpoints[t]
  <2>1. c = checkpoints[t][i]
    BY <1>0, <1>3 DEF Keeps
  <2>2. c.attempt \in 1 .. Current(t) /\ c.seq < nextSeq[t] /\ Whole(t, c.attempt, c.seq, c.gen, TRUE)
    BY <1>0, <1>3, <2>1 DEF StageInv, PointsOK, ObservedInv, PointsWhole
  <2>3. c.seq \in Int
    BY <1>2 DEF CheckpointType
  <2>4. Whole(t, c.attempt, c.seq, c.gen, TRUE)'
    BY <2>2, <2>3, WholeKeeps
  <2>5. c.seq < nextSeq'[t]
    BY <1>1, <2>2, <2>3
  <2> QED BY <2>4, <2>5
<1>4. CASE i \notin DOMAIN checkpoints[t]
  <2>1. Publishes(p) /\ t = TaskOf[p] /\ MakesCheckpoint(p) /\ c = NewCheckpoint(p)
    <3>1. checkpoints'[t] # checkpoints[t]
      BY <1>4
    <3>2. Publishes(p)
      BY <3>1, StoreShape DEF storeVars, Begins, Updates
    <3>3. t = TaskOf[p]
      BY <1>0, <3>1, <3>2, PublishesStore DEF OnlyTask
    <3>4. MakesCheckpoint(p)
      BY <1>0, <3>1, <3>2, PublishesPoint
    <3>5. i = Len(checkpoints[t]) + 1
      <4>1. /\ Len(checkpoints[t]) \in Nat /\ DOMAIN checkpoints[t] = 1 .. Len(checkpoints[t])
            /\ DOMAIN checkpoints'[t] = 1 .. Len(checkpoints[t]) + 1
        BY <1>0, <3>2, <3>3, <3>4, PublishesPoint
      <4> QED BY <1>4, <4>1
    <3> QED BY <1>0, <3>2, <3>3, <3>4, <3>5, PublishesPoint
  <2>a. PICK a, n : a = attempt[p] /\ n = nextSeq'[t] - 1
    OBVIOUS
  <2>2. c.attempt = a /\ c.gen = LastOf(completed[p]) /\ c.seq = n
    <3>1. nextSeq'[t] = snap[p].seq + NewEventCount(p)
      BY <1>0, <2>1, PublishesStore
    <3>2. c.attempt = attempt[p] /\ c.gen = LastOf(completed[p])
      BY <2>1 DEF NewCheckpoint
    <3>3. c.seq = snap[p].seq + NewEventCount(p) - 1
      BY <2>1 DEF NewCheckpoint
    <3>4. snap[p].seq \in Nat /\ NewEventCount(p) \in Nat
      BY <1>0, <2>1, NewEventCountType DEF TypeInv, TypeOK, WriterType, Publishes
    <3>5. c.seq = nextSeq'[t] - 1
      BY <3>1, <3>3, <3>4
    <3> QED BY <2>a, <3>2, <3>5
  <2>3. n \in Int /\ n >= nextSeq'[t] - 1 /\ n < nextSeq'[t] /\ job[p] \in SegmentJobs
    BY <1>1, <2>1, <2>a DEF MakesCheckpoint
  <2>4. CASE completed[p] = << 0 >>
    <3>1. Whole(t, a, n, 0, TRUE)'
      BY <2>1, <2>3, <2>4, <2>a, BaselineWhole
    <3>2. c.gen = 0
      BY <2>2, <2>4 DEF LastOf
    <3> QED BY <2>2, <2>3, <3>1, <3>2
  <2>5. CASE completed[p] # << 0 >>
    <3>a. PICK m : m = Len(Reached(p))
      OBVIOUS
    <3>1. Whole(t, a, n, m, TRUE)'
      BY <2>1, <2>3, <2>5, <2>a, <3>a, GroupWhole
    <3>2. ExactAt(p) /\ JobAt(p)
      BY LedgerTypes DEF ObservedInv
    <3>3. completed[p] # <<>>
      BY <2>1, <2>3, <3>2 DEF JobAt, Publishes
    <3>4. c.gen = m
      BY <2>2, <3>2, <3>3, <3>a DEF ExactAt, LinksOK
    <3> QED BY <2>2, <2>3, <3>1, <3>4
  <2> QED BY <2>4, <2>5
<1> QED BY <1>3, <1>4

(* A completed event closes an attempt that has published every generation. *)
LEMMA StepCompletedWhole ==
    ASSUME ObservedInv, LedgerInv', ContiguousInv', ConstantAssumption, NEW p \in Procs, Step(p)
    PROVE  CompletedWhole'
<1> SUFFICES ASSUME NEW t \in Tasks, NEW i \in DOMAIN history'[t], history'[t][i].kind = "completed",
                    NEW c, c = history'[t][i]
             PROVE  IsEvent(c) /\ Whole(t, c.attempt, c.seq, MaxGen, TRUE)'
  <2>1. ASSUME NEW t \in Tasks, NEW i \in DOMAIN history'[t], history'[t][i].kind = "completed"
        PROVE  /\ IsEvent(history'[t][i])
               /\ Whole(t, history[t][i].attempt, history[t][i].seq, MaxGen, TRUE)'
    <3>a. PICK c, a, n : c = history'[t][i] /\ a = c.attempt /\ n = c.seq
      OBVIOUS
    <3>1. IsEvent(history'[t][i]) /\ Whole(t, a, n, MaxGen, TRUE)'
      BY <2>1, <3>a
    <3>2. Ancestors(t, history[t][i].attempt)' = Ancestors(t, a)'
      BY <3>a DEF Ancestors
    <3>3. Projected(t, history[t][i].attempt, history[t][i].seq)' = Projected(t, a, n)'
      BY <3>2, <3>a DEF Projected
    <3>4. \A kind, h : Seen(t, history[t][i].attempt, history[t][i].seq, kind, h)'
                          = Seen(t, a, n, kind, h)'
      BY <3>3 DEF Seen
    <3> QED BY <3>1, <3>4 DEF Whole
  <2> QED BY <2>1 DEF CompletedWhole, IsEvent
<1>0. /\ TypeInv /\ TypeInv' /\ StageInv /\ EvidenceContiguous /\ EvidenceContiguous' /\ Keeps(t)
      /\ HistoryBound
  BY ObservedFacts
<1>1. nextSeq[t] \in Nat /\ nextSeq'[t] \in Nat /\ nextSeq[t] <= nextSeq'[t]
  BY PointersGrow
<1>2. CASE i \in DOMAIN history[t]
  <2>1. c = history[t][i] /\ history[t][i].kind = "completed"
    BY <1>0, <1>2 DEF Keeps
  <2>2. IsEvent(c) /\ Whole(t, c.attempt, c.seq, MaxGen, TRUE) /\ c.attempt \in 1 .. Current(t)
    BY <1>0, <1>2, <2>1 DEF ObservedInv, CompletedWhole, HistoryBound
  <2>3. c.seq \in Int /\ c.seq < nextSeq[t]
    <3>1. i \in Events(t)
      BY <1>2, <2>1, <2>2 DEF Events
    <3> QED BY <1>0, <2>1, <3>1, OldNumbers
  <2>4. Whole(t, c.attempt, c.seq, MaxGen, TRUE)'
    BY <2>2, <2>3, WholeKeeps
  <2> QED BY <2>2, <2>4
<1>3. CASE i \notin DOMAIN history[t]
  <2>0. NewAt(t, i)
    BY <1>3 DEF NewAt
  <2>1. Publishes(p) /\ t = TaskOf[p]
    BY <1>0, <2>0, StepAdds DEF Allocation, Update
  <2>a. PICK a, n, k, m : /\ a = attempt[p] /\ n = nextSeq'[t] - 1 /\ k = i - Len(history[t])
                          /\ m = Len(Reached(p))
    OBVIOUS
  <2>2. c.attempt = a /\ c = NewChanges(p)[k] /\ PublishedChange(p, k, c)
    BY <1>0, <2>0, <2>1, <2>a, PublishedReady
  <2>3. job[p] = "completed" /\ k = Len(pending[p]) + 1
    BY <2>2 DEF PublishedChange, BaselineChange, GenerationChange, DiagnosticChange, EventChange, SuccessChange
  <2>4. /\ StageAt(p) /\ ExactAt(p) /\ LedgerAt(p) /\ CallTypes(p) /\ Len(pending[p]) \in Nat
        /\ pc[p] = "commit" /\ attempt[p] # 0 /\ snap[p].seq = nextSeq[t]
    <3>1. StageAt(p) /\ ExactAt(p) /\ LedgerAt(p) /\ CallTypes(p) /\ pc[p] = "commit"
      BY <2>1, LedgerTypes DEF ObservedInv, Publishes
    <3>2. attempt[p] # 0
      BY <3>1 DEF StageAt, ClaimOK, Unclaimed
    <3>3. snap[p].seq = nextSeq[t]
      BY <2>1, <3>1 DEF ObservedInv, ContiguousInv, FreshInv, SnapshotFresh
    <3> QED BY <3>1, <3>2, <3>3, LenProperties DEF CallTypes
  <2>5. c.seq = n /\ n \in Nat
    <3>1. job[p] \in EventJobs
      BY <2>3 DEF EventJobs
    <3>2. /\ EventShape(job[p], attempt[p], pending[p], gen[p], snap[p].seq)
          /\ NewChanges(p) = EventChanges(job[p], attempt[p], pending[p], gen[p], snap[p].seq)
          /\ NewEventCount(p) = Len(pending[p]) + 1
      BY <1>0, <2>4, <3>1, ChangesOfEvent
    <3>3. c = Change(job[p], attempt[p], gen[p], snap[p].seq + Len(pending[p]))
      BY <2>2, <2>3, <3>2 DEF EventShape
    <3>4. c.seq = snap[p].seq + Len(pending[p])
      BY <3>3 DEF Change
    <3>5. nextSeq'[t] = snap[p].seq + (Len(pending[p]) + 1)
      BY <1>0, <2>1, <3>2, PublishesStore
    <3>b. PICK x, y, z : x = nextSeq[t] /\ y = Len(pending[p]) /\ z = nextSeq'[t]
      OBVIOUS
    <3>6. c.seq = x + y /\ z = x + (y + 1) /\ x \in Nat /\ y \in Nat /\ n = z - 1
      BY <1>1, <2>4, <2>a, <3>4, <3>5, <3>b
    <3> QED BY <3>6
  <2>6. IsEvent(c)
    BY <2>5 DEF IsEvent, NoEvent
  <2>7. m = MaxGen
    <3>1. gen[p] = Len(Reached(p))
      BY <2>3, <2>4 DEF ExactAt, PlaceOK, AtGeneration
    <3>2. gen[p] = MaxGen
      BY <2>3, <2>4 DEF StageAt, GenOK, Telling, InPublication
    <3> QED BY <2>a, <3>1, <3>2
  <2>8. Based(p, t, a)
    <3>1. BaselineDone(p)
      BY <2>3, <2>4 DEF BaselineDone, Telling, InPublication
    <3> QED BY <2>1, <2>4, <2>a, <3>1 DEF LedgerAt, BaselineOK, Based
  <2>9. Whole(t, a, n, m, TRUE)'
    <3>1. TRUE = Based(p, t, a)
      BY <2>8, Zenon
    <3>2. n \in Int /\ n >= nextSeq'[t] - 1
      BY <1>1, <2>a
    <3>3. job[p] \in EventJobs /\ job[p] # "failed"
      BY <2>3 DEF EventJobs
    <3> QED BY <2>1, <2>a, <3>1, <3>2, <3>3, EventWhole
  <2> QED BY <2>2, <2>5, <2>6, <2>7, <2>9
<1> QED BY <1>2, <1>3

-----------------------------------------------------------------------------
(* What is observed of the attempt of a caller *)

LEMMA StepPending ==
    ASSUME ObservedInv, ConstantAssumption, NEW p \in Procs, Step(p), OnlyCaller(p), Move(p), NEW q \in Procs
    PROVE  PendingOK(q)'
<1>0. PendingOK(q) /\ StageAt(p) /\ JobAt(p) /\ ClaimOK(p)
  BY LedgerTypes DEF ObservedInv, StageAt
<1>1. CASE q # p
  <2>1. Untouched(q)
    BY <1>1 DEF OnlyCaller
  <2> QED BY <1>0, <2>1 DEF Untouched, Same, PendingOK, AtBaseline, AtGeneration
<1>2. CASE q = p
  <2>1. CASE Leaves(p) \/ Starts(p) \/ Allocates(p) \/ Evaluates(p) \/ Tells(p) \/ Escapes(p)
    BY <1>2, <2>1 DEF Leaves, Starts, Allocates, Evaluates, Tells, Escapes, PendingOK, AtBaseline, AtGeneration
  <2>2. CASE Opens(p)
    BY <1>0, <1>2, <2>2 DEF Opens, ClaimOK, PendingOK
  <2>3. CASE StoresState(p)
    BY <1>0, <1>2, <2>3 DEF StoresState, PendingOK, AtBaseline, AtGeneration
  <2>4. CASE Stages(p) \/ Clears(p)
    BY <1>0, <1>2, <2>4 DEF Stages, Clears, PendingOK, AtBaseline, AtGeneration, JobAt, SegmentJobs,
       BarrierJobs, FlushJobs
  <2>5. CASE Walks(p) \/ Commits(p)
    <3>1. pending'[p] = pending[p]
      BY <2>5 DEF Walks, Commits, Rests
    <3>2. AtBaseline(p)' \/ (AtGeneration(p)' /\ pc'[p] # "evaluated") =>
             AtBaseline(p) \/ (AtGeneration(p) /\ pc[p] # "evaluated")
      BY <1>0, <2>5 DEF Walks, WalksOutside, WalksIn, WalksOut, Commits, Publishes, AtBaseline, AtGeneration,
         JobAt
    <3> QED BY <1>0, <1>2, <3>1, <3>2 DEF PendingOK
  <2> QED BY <2>1, <2>2, <2>3, <2>4, <2>5 DEF Move
<1> QED BY <1>1, <1>2

(* Between two publications the level stays. *)
LEMMA LevelStays ==
    ASSUME ObservedInv, ConstantAssumption, ~AsyncSignals, NEW p \in Procs, Step(p), Move(p),
           attempt'[p] # 0, uncertain'[p] = "none", ~Diagnosed(p)', ~Allocates(p), ~Publishes(p)
    PROVE  /\ attempt[p] # 0 /\ uncertain[p] = "none" /\ ~Diagnosed(p)
           /\ attempt'[p] = attempt[p] /\ resume'[p] = resume[p] /\ Level(p)' = Level(p)
<1>0. /\ StageAt(p) /\ JobAt(p) /\ ClaimOK(p) /\ StagedOK(p) /\ ExactAt(p) /\ resume[p].gen \in Nat
      /\ CallTypes(p)
  BY LedgerTypes DEF ObservedInv, StageAt
<1>1. CASE Leaves(p) \/ Starts(p)
  BY <1>0, <1>1 DEF Leaves, Starts, ClaimOK, Unclaimed
<1>2. CASE Opens(p)
  <2>1. /\ pc[p] = "open" /\ chain'[p] = resume[p].chain /\ attempt'[p] = attempt[p]
        /\ resume'[p] = resume[p] /\ uncertain[p] = "none" /\ pc'[p] \in {"baseline", "announce", "failing"}
        /\ attempt[p] # 0
    BY <1>0, <1>2 DEF Opens, ClaimOK, Unclaimed
  <2>2. Len(resume[p].chain) = resume[p].gen
    BY <1>0, UpToLen DEF ExactAt, Exact
  <2> QED BY <2>1, <2>2 DEF Level, Diagnosed
<1>3. CASE Evaluates(p) \/ Tells(p) \/ StoresState(p) \/ Stages(p)
  <2>1. /\ pc[p] \in {"generate", "evaluated", "baseline", "barrier", "staged"}
        /\ pc'[p] \in {"evaluated", "barrier", "staged", "snapshot", "generate"}
        /\ attempt'[p] = attempt[p] /\ resume'[p] = resume[p] /\ uncertain'[p] = uncertain[p]
        /\ chain'[p] = chain[p]
    BY <1>3 DEF Evaluates, Tells, StoresState, Stages, Kept
  <2> QED BY <2>1 DEF Level, Diagnosed
<1>4. CASE Walks(p)
  <2>1. /\ attempt'[p] = attempt[p] /\ resume'[p] = resume[p] /\ uncertain'[p] = uncertain[p]
        /\ chain'[p] = chain[p]
    BY <1>4 DEF Walks, Rests, Kept
  <2>2. pc[p] \notin {"open", "clear", "record"} /\ pc'[p] \notin {"open", "clear", "record"}
    BY <1>4 DEF Walks, WalksOutside, WalksIn, WalksOut
  <2> QED BY <2>1, <2>2 DEF Level, Diagnosed
<1>5. CASE Commits(p)
  BY <1>5 DEF Commits
<1>6. CASE Clears(p)
  <2>1. /\ attempt'[p] = attempt[p] /\ resume'[p] = resume[p] /\ uncertain'[p] = uncertain[p]
        /\ pc[p] = "clear" /\ pc'[p] = "notify" /\ job[p] # "failed"
    BY <1>6 DEF Clears, Diagnosed
  <2>2. chain'[p] = Reached(p)
    <3>1. CASE job[p] \in SegmentJobs
      BY <1>6, <3>1 DEF Clears, PublishedSegments, Reached
    <3>2. CASE job[p] \notin SegmentJobs
      <4>1. completed[p] = <<>>
        BY <1>0, <2>1, <3>2 DEF StagedOK, InPublication, JobAt
      <4> QED BY <1>6, <3>2, <4>1 DEF Clears, PublishedSegments, Reached, ChainAfter
    <3> QED BY <3>1, <3>2
  <2> QED BY <2>1, <2>2 DEF Level, Diagnosed
<1>7. CASE Escapes(p)
  <2>1. /\ pc[p] = "snapshot" /\ chain'[p] = chain[p] /\ pc'[p] = "failing"
        /\ attempt'[p] = attempt[p] /\ resume'[p] = resume[p]
    BY <1>7 DEF Escapes, Holding
  <2>2. uncertain[p] = "none" /\ attempt[p] # 0
    BY <1>0, <2>1 DEF ClaimOK, Unclaimed
  <2> QED BY <2>1, <2>2 DEF Level, Diagnosed
<1> QED BY <1>1, <1>2, <1>3, <1>4, <1>5, <1>6, <1>7 DEF Move

(* And with it what is observed. *)
LEMMA WholeStays ==
    ASSUME ObservedInv, LedgerInv', ContiguousInv', ConstantAssumption, NEW p \in Procs, Step(p),
           NEW q \in Procs, attempt[q] # 0, uncertain[q] = "none", ~Diagnosed(q),
           NEW t, t = TaskOf[q], NEW a, a = attempt[q], ~Publishing(p, t, a),
           NEW n, n = nextSeq'[t] - 1, NEW m, m = Level(q), NEW based, based = Based(q, t, a)
    PROVE  /\ Whole(t, a, n, m, based)' /\ HasBaseline(t, a)' = HasBaseline(t, a)
<1>0. t \in Tasks /\ StageAt(q) /\ CallTypes(q) /\ WholeAt(q)
  BY LedgerTypes DEF ObservedInv
<1>1. a \in 1 .. Current(t)
  BY <1>0 DEF StageAt, ClaimOK, CallTypes
<1>2. /\ TypeInv /\ StageInv /\ EvidenceContiguous
      /\ nextSeq[t] \in Nat /\ nextSeq'[t] \in Nat /\ nextSeq[t] <= nextSeq'[t]
  BY <1>0, ObservedFacts, PointersGrow
<1>3. n \in Int /\ n >= nextSeq[t] - 1
  BY <1>2
<1>4. Whole(t, a, nextSeq[t] - 1, m, based)
  BY <1>0 DEF WholeAt, Based
<1>5. Whole(t, a, n, m, based)
  BY <1>0, <1>2, <1>3, <1>4, WholeAll
<1>6. Whole(t, a, n, m, based)'
  BY <1>0, <1>1, <1>3, <1>5, WholeKeeps
<1>7. HasBaseline(t, a)' = HasBaseline(t, a)
  BY <1>0, <1>2, ReadyKeeps
<1> QED BY <1>6, <1>7

LEMMA NamedWhole ==
    ASSUME NEW q, NEW t, t = TaskOf[q], NEW a, a = attempt'[q], NEW n, n = nextSeq'[t] - 1,
           NEW m, m = Level(q)', NEW based \in BOOLEAN,
           based <=> resume'[q] # Fresh \/ HasBaseline(t, a)', Whole(t, a, n, m, based)'
    PROVE  WholeAt(q)'
<1>1. HasBaseline(TaskOf[q], attempt[q])' <=> HasBaseline(t, a)'
  BY DEF HasBaseline
<1>2. Ancestors(TaskOf[q], attempt[q])' = Ancestors(t, a)'
  BY DEF Ancestors
<1>3. Projected(TaskOf[q], attempt[q], nextSeq[TaskOf[q]] - 1)' = Projected(t, a, n)'
  BY <1>2 DEF Projected, Events
<1>4. \A kind, h : Seen(TaskOf[q], attempt[q], nextSeq[TaskOf[q]] - 1, kind, h)' = Seen(t, a, n, kind, h)'
  BY <1>3 DEF Seen
<1>5. Whole(TaskOf[q], attempt[q], nextSeq[TaskOf[q]] - 1, Level(q),
            resume[q] # Fresh \/ HasBaseline(TaskOf[q], attempt[q]))'
  BY <1>1, <1>4 DEF Whole
<1> QED BY <1>5 DEF WholeAt

(* A new attempt is observed as far as what it resumes. *)
LEMMA AllocatesWhole ==
    ASSUME ObservedInv, LedgerInv', ContiguousInv', ConstantAssumption, NEW p \in Procs, Step(p),
           Allocates(p)
    PROVE  WholeAt(p)'
<1>a. PICK t, c, n : t = TaskOf[p] /\ c = resume[p] /\ n = nextSeq[t] - 1
  OBVIOUS
<1>b. PICK a, f : a = Current(t) + 1 /\ f = c.attempt
  OBVIOUS
<1>0. /\ t \in Tasks /\ c \in CheckpointType
      /\ c = Fresh \/ (/\ f \in 1 .. Current(t) /\ c.seq < nextSeq[t]
                       /\ Whole(t, f, c.seq, c.gen, TRUE))
  BY <1>a, <1>b, ResumesPoint
<1>1. /\ TypeInv /\ TypeInv' /\ StageInv /\ EvidenceContiguous /\ EvidenceContiguous'
      /\ HistoryBound /\ HistoryBound' /\ Keeps(t)
      /\ Current(t) \in Nat /\ Closed(t, Current(t))
      /\ \A b \in 1 .. Current(t) : attempts[t][b] \in AttemptType
  BY <1>0, ObservedFacts
<1>2. /\ Begins(p) /\ nextSeq' = nextSeq /\ attempt'[p] = a /\ resume'[p] = c /\ pc'[p] = "open"
  BY <1>a, <1>b DEF Allocates, Begins, Kept
<1>3. Lengthens(t, Current(t), Current(t) + 1) /\ attempts'[t][a].from = f /\ attempts'[t][a].limit = c.seq
  <2>1. /\ DOMAIN attempts[t] = 1 .. Current(t) /\ DOMAIN attempts'[t] = 1 .. Current(t) + 1
        /\ \A b \in 1 .. Current(t) : attempts'[t][b] = attempts[t][b]
        /\ attempts'[t][a] = AttemptFact(p)
    BY <1>0, <1>1, <1>2, <1>a, <1>b, BeginsStore, AttemptsKeep
  <2>2. Current(t) + 1 \in Nat /\ Current(t) <= Current(t) + 1
    BY <1>1
  <2> QED BY <1>1, <1>a, <1>b, <2>1, <2>2 DEF Lengthens, AttemptFact
<1>4. f = 0 <=> c = Fresh
  <2>1. c = Fresh => f = 0
    BY <1>b DEF Fresh
  <2>2. c # Fresh => f # 0
    <3>1. c # Fresh => f \in 1 .. Current(t)
      BY <1>0
    <3> QED BY <1>1, <3>1
  <2> QED BY <2>1, <2>2
<1>5. Ancestors(t, a)' = {a} \cup (IF f = 0 THEN {} ELSE Ancestors(t, f))
  <2>1. f = 0 \/ f \in 1 .. Current(t)
    BY <1>0, <1>4
  <2> QED BY <1>1, <1>3, <1>b, <2>1, AncestorsNew
<1>6. \A b \in 1 .. Current(t) : attempts'[t][b] = attempts[t][b]
  BY <1>3 DEF Lengthens
<1>7. Events(t)' = Events(t) /\ \A i \in Events(t) : /\ i \in DOMAIN history[t]
                                                     /\ history'[t][i] = history[t][i]
                                                     /\ history[t][i].attempt \in 1 .. Current(t)
  <2>1. \A i \in Events(t) : /\ i \in Events(t)' /\ i \in DOMAIN history[t]
                             /\ history'[t][i] = history[t][i]
                             /\ history[t][i].attempt \in 1 .. Current(t)
    BY <1>0, <1>1 DEF Events, Keeps, IsEvent, HistoryBound
  <2>2. ASSUME NEW i \in Events(t)', i \notin Events(t)
        PROVE  FALSE
    <3>1. history'[t][i].seq \in Nat /\ history'[t][i].seq >= nextSeq[t] /\ history'[t][i].seq < nextSeq'[t]
          /\ nextSeq[t] \in Nat
      BY <1>0, <1>1, <2>2, NewNumbers
    <3> QED BY <1>2, <3>1
  <2> QED BY <2>1, <2>2
<1>8. \A i \in Events(t) : history[t][i].attempt # a /\ history[t][i].attempt # 0
  BY <1>1, <1>7, <1>b
<1>9. ~HasBaseline(t, a)'
  <2>1. ~HasBaseline(t, a)
    BY <1>0, <1>1, <1>b DEF HasBaseline, HistoryBound
  <2>2. ~Publishing(p, t, a)
    BY <1>2 DEF Begins, Publishing, Publishes
  <2> QED BY <1>0, <1>1, <2>1, <2>2, ReadyKeeps
<1>10. n = nextSeq'[t] - 1 /\ Level(p)' = c.gen
  BY <1>2, <1>a DEF Level
<1>11. CASE c = Fresh
  <2>1. Projected(t, a, n)' = {}
    <3>1. Ancestors(t, a)' = {a}
      BY <1>4, <1>5, <1>11
    <3>2. \A i \in Events(t)' : history'[t][i].attempt # a /\ history'[t][i].attempt # attempts'[t][a].from
      BY <1>3, <1>4, <1>7, <1>8, <1>11
    <3> QED BY <3>1, <3>2 DEF Projected
  <2>2. \A kind, g : Seen(t, a, n, kind, g)' = {}
    BY <2>1 DEF Seen
  <2>3. c.gen = 0
    BY <1>11 DEF Fresh
  <2>4. Whole(t, a, n, 0, FALSE)'
    BY <2>2 DEF Whole
  <2>5. Whole(t, a, n, c.gen, FALSE)'
    BY <2>3, <2>4
  <2>6. FALSE <=> resume'[p] # Fresh \/ HasBaseline(t, a)'
    BY <1>2, <1>9, <1>11
  <2> QED BY <1>2, <1>10, <1>a, <2>5, <2>6, NamedWhole
<1>12. CASE c # Fresh
  <2>1. f \in 1 .. Current(t) /\ Whole(t, f, c.seq, c.gen, TRUE)
        /\ Ancestors(t, a)' = {a} \cup Ancestors(t, f)
    BY <1>0, <1>4, <1>5, <1>12
  <2>2. Ancestors(t, f) \subseteq 1 .. Current(t)
    BY <1>3 DEF Ancestors, Lengthens
  <2>3. Projected(t, a, n)' = Projected(t, f, c.seq)
    <3>1. ASSUME NEW i \in Events(t)
          PROVE  i \in Projected(t, a, n)' <=> i \in Projected(t, f, c.seq)
      <4>1. history'[t][i] = history[t][i] /\ history[t][i].attempt # a /\ i \in Events(t)'
        BY <1>7, <1>8, <3>1
      <4>2. i \in Projected(t, a, n)' <=>
               \E b \in {a} \cup Ancestors(t, f) :
                  history[t][i].attempt = attempts'[t][b].from /\ history[t][i].seq <= attempts'[t][b].limit
        BY <2>1, <4>1 DEF Projected
      <4>3. i \in Projected(t, f, c.seq) <=>
               \/ history[t][i].attempt = f /\ history[t][i].seq <= c.seq
               \/ \E b \in Ancestors(t, f) :
                     history[t][i].attempt = attempts[t][b].from /\ history[t][i].seq <= attempts[t][b].limit
        BY <3>1 DEF Projected
      <4> QED BY <1>3, <1>6, <2>2, <4>2, <4>3
    <3>2. \A i : i \in Projected(t, a, n)' => i \in Events(t)
      BY <1>7 DEF Projected
    <3>3. \A i : i \in Projected(t, f, c.seq) => i \in Events(t)
      BY DEF Projected
    <3> QED BY <3>1, <3>2, <3>3
  <2>4. \A kind, g : Seen(t, a, n, kind, g)' = Seen(t, f, c.seq, kind, g)
    <3>1. \A i \in Projected(t, f, c.seq) : history'[t][i] = history[t][i]
      BY <1>7 DEF Projected
    <3> QED BY <2>3, <3>1 DEF Seen
  <2>5. Whole(t, a, n, c.gen, TRUE)'
    BY <2>1, <2>4 DEF Whole, ExactlyOne
  <2>6. TRUE <=> resume'[p] # Fresh \/ HasBaseline(t, a)'
    BY <1>2, <1>12
  <2> QED BY <1>2, <1>10, <1>a, <2>5, <2>6, NamedWhole
<1> QED BY <1>11, <1>12

(* A publication is observed as soon as it is committed. *)
LEMMA CommitsWhole ==
    ASSUME ObservedInv, LedgerInv', ContiguousInv', ConstantAssumption, NEW p \in Procs, Step(p),
           Commits(p), ~Diagnosed(p)'
    PROVE  WholeAt(p)'
<1>a. PICK t, a, n, m : t = TaskOf[p] /\ a = attempt[p] /\ n = nextSeq'[t] - 1 /\ m = Len(Reached(p))
  OBVIOUS
<1>1. /\ Publishes(p) /\ attempt'[p] = a /\ resume'[p] = resume[p] /\ pc'[p] = "clear"
      /\ Reached(p)' = Reached(p) /\ job'[p] = job[p] /\ job[p] # "failed"
  BY <1>a DEF Commits, Rests, Kept, Reached, Diagnosed
<1>2. Level(p)' = m
  BY <1>1, <1>a DEF Level
<1>3. /\ StageInv /\ TypeInv /\ StageAt(p) /\ JobAt(p) /\ LedgerAt(p) /\ ExactAt(p) /\ CallTypes(p)
      /\ t \in Tasks /\ pc[p] = "commit" /\ attempt[p] # 0
  <2>1. StageInv /\ TypeInv /\ StageAt(p) /\ JobAt(p) /\ LedgerAt(p) /\ ExactAt(p) /\ CallTypes(p) /\ pc[p] = "commit"
    BY <1>1, LedgerTypes DEF ObservedInv, Publishes
  <2> QED BY <1>a, <2>1 DEF StageAt, ClaimOK, Unclaimed, CallTypes
<1>4. n \in Int /\ n >= nextSeq'[t] - 1 /\ Keeps(t)
  BY <1>3, <1>a, PointersGrow, ObservedFacts
<1>5. CASE job[p] \in SegmentJobs /\ completed[p] = << 0 >>
  <2>1. m = 0
    <3>1. Reached(p) = <<>>
      BY <1>3, <1>5, LinksAfter DEF Reached, CallTypes
    <3> QED BY <1>a, <3>1
  <2>2. Whole(t, a, n, m, TRUE)'
    BY <1>1, <1>4, <1>5, <1>a, <2>1, BaselineWhole
  <2>3. HasBaseline(t, a)'
    BY <1>1, <1>3, <1>5, <1>a, BaselineReady
  <2>4. TRUE <=> resume'[p] # Fresh \/ HasBaseline(t, a)'
    BY <2>3
  <2> QED BY <1>1, <1>2, <1>a, <2>2, <2>4, NamedWhole
<1>6. CASE job[p] \in SegmentJobs /\ completed[p] # << 0 >>
  <2>2. Whole(t, a, n, m, TRUE)'
    BY <1>1, <1>4, <1>6, <1>a, GroupWhole
  <2>3. resume[p] = Fresh => HasBaseline(t, a)
    <3>1. BaselineDone(p)
      BY <1>3, <1>6 DEF BaselineDone, JobAt
    <3> QED BY <1>3, <1>a, <3>1 DEF LedgerAt, BaselineOK
  <2>4. HasBaseline(t, a) => HasBaseline(t, a)'
    BY <1>4 DEF Keeps, HasBaseline
  <2>5. TRUE <=> resume'[p] # Fresh \/ HasBaseline(t, a)'
    BY <1>1, <2>3, <2>4
  <2> QED BY <1>1, <1>2, <1>a, <2>2, <2>5, NamedWhole
<1>7. CASE job[p] \in EventJobs
  <2>a. PICK based : based = Based(p, t, a)
    OBVIOUS
  <2>1. Whole(t, a, n, m, based)'
    BY <1>1, <1>4, <1>7, <1>a, <2>a, EventWhole
  <2>2. HasBaseline(t, a)' = HasBaseline(t, a)
    BY <1>1, <1>3, <1>7, <1>a, EventReady
  <2>3. based \in BOOLEAN
    BY <2>a, Zenon DEF Based
  <2>4. based <=> resume'[p] # Fresh \/ HasBaseline(t, a)'
    BY <1>1, <2>2, <2>a, Zenon DEF Based
  <2> QED BY <1>1, <1>2, <1>a, <2>1, <2>3, <2>4, NamedWhole
<1> QED BY <1>3, <1>5, <1>6, <1>7 DEF JobAt

LEMMA StepWholeAt ==
    ASSUME ObservedInv, LedgerInv', ContiguousInv', ConstantAssumption, ~AsyncSignals,
           NEW p \in Procs, Step(p), OnlyCaller(p), Move(p), NEW q \in Procs
    PROVE  WholeAt(q)'
<1> SUFFICES ASSUME attempt'[q] # 0, uncertain'[q] = "none", ~Diagnosed(q)'
             PROVE  WholeAt(q)'
  BY DEF WholeAt
<1>1. ASSUME attempt[q] # 0, uncertain[q] = "none", ~Diagnosed(q), attempt'[q] = attempt[q],
             resume'[q] = resume[q], Level(q)' = Level(q), ~Publishing(p, TaskOf[q], attempt[q])
      PROVE  WholeAt(q)'
  <2>a. PICK t, a, n, m : t = TaskOf[q] /\ a = attempt[q] /\ n = nextSeq'[t] - 1 /\ m = Level(q)
    OBVIOUS
  <2>b. PICK based : based = Based(q, t, a)
    OBVIOUS
  <2>1. Whole(t, a, n, m, based)' /\ HasBaseline(t, a)' = HasBaseline(t, a)
    BY <1>1, <2>a, <2>b, WholeStays
  <2>2. based \in BOOLEAN
    BY <2>b, Zenon DEF Based
  <2>3. based <=> resume'[q] # Fresh \/ HasBaseline(t, a)'
    BY <1>1, <2>1, <2>b, Zenon DEF Based
  <2>4. a = attempt'[q] /\ m = Level(q)'
    BY <1>1, <2>a
  <2> QED BY <2>1, <2>2, <2>3, <2>4, <2>a, NamedWhole
<1>2. CASE q # p
  <2>1. Untouched(q)
    BY <1>2 DEF OnlyCaller
  <2>2. /\ attempt'[q] = attempt[q] /\ resume'[q] = resume[q] /\ uncertain'[q] = uncertain[q]
        /\ Level(q)' = Level(q) /\ Diagnosed(q)' = Diagnosed(q)
    BY <2>1 DEF Untouched, Same, Level, Reached, Diagnosed
  <2>3. ~Publishing(p, TaskOf[q], attempt[q])
    BY <1>2, <2>2 DEF ObservedInv, LedgerInv, StageInv, OneClaim, Publishing
  <2> QED BY <1>1, <2>2, <2>3
<1>3. CASE q = p /\ Allocates(p)
  BY <1>3, AllocatesWhole
<1>4. CASE q = p /\ Publishes(p)
  <2>1. ~Allocates(p) /\ Commits(p)
    <3>1. pc[p] = "commit"
      BY <1>4 DEF Publishes
    <3>2. StageAt(p)
      BY LedgerTypes DEF ObservedInv
    <3>3. ~Starts(p) /\ ~Allocates(p) /\ ~Opens(p) /\ ~Evaluates(p) /\ ~Tells(p) /\ ~StoresState(p)
          /\ ~Stages(p) /\ ~Walks(p) /\ ~Clears(p)
      BY <3>1 DEF Starts, Allocates, Begins, Opens, Evaluates, Tells, StoresState, Stages, Walks,
         WalksOutside, WalksIn, WalksOut, Clears
    <3>4. ~Leaves(p)
      BY <1>4 DEF Leaves
    <3>5. ~Escapes(p)
      BY <1>4, <3>1 DEF Escapes
    <3> QED BY <3>3, <3>4, <3>5 DEF Move
  <2> QED BY <1>4, <2>1, CommitsWhole
<1>5. CASE q = p /\ ~Allocates(p) /\ ~Publishes(p)
  <2>1. ~Publishing(p, TaskOf[q], attempt[q])
    BY <1>5 DEF Publishing
  <2> QED BY <1>1, <1>5, <2>1, LevelStays
<1> QED BY <1>2, <1>3, <1>4, <1>5

-----------------------------------------------------------------------------
(* What is observed of a selected result *)

LEMMA StepObserved ==
    ASSUME ObservedInv, ConstantAssumption, ~AsyncSignals, NEW p \in Procs, Step(p)
    PROVE  ObservedInv'
<1>1. LedgerInv /\ CompletedInv /\ ContiguousInv
  BY DEF ObservedInv
<1>2. LedgerInv'
  BY <1>1, StepLedger
<1>3. CompletedInv'
  BY <1>1, StepStage, StepSelected, StepBound, StepCompleted DEF CompletedInv
<1>4. ContiguousInv'
  <2>1. FreshInv'
    BY <1>1, NextFresh DEF ContiguousInv, Next, Step
  <2> QED BY <1>1, <2>1, StepContiguous DEF ContiguousInv
<1>5. OnlyCaller(p) /\ Move(p)
  BY <1>1, StepMoves DEF CompletedInv, StageInv
<1>6. AncestorsOK' /\ PointsWhole' /\ CompletedWhole'
  BY <1>2, <1>4, StepAncestors, StepPointsWhole, StepCompletedWhole
<1>7. \A q \in Procs : PendingOK(q)' /\ WholeAt(q)'
  BY <1>2, <1>4, <1>5, StepPending, StepWholeAt
<1> QED BY <1>2, <1>3, <1>4, <1>6, <1>7 DEF ObservedInv

LEMMA StutterObserved ==
    ASSUME ObservedInv, ConstantAssumption, ~AsyncSignals, UNCHANGED vars
    PROVE  ObservedInv'
<1>1. /\ history' = history /\ attempts' = attempts /\ checkpoints' = checkpoints
      /\ nextSeq' = nextSeq /\ selected' = selected /\ pc' = pc /\ job' = job
      /\ attempt' = attempt /\ resume' = resume /\ gen' = gen /\ pending' = pending
      /\ completed' = completed /\ chain' = chain /\ uncertain' = uncertain
  BY DEF vars, storeVars, callVars, writerVars
<1>2. LedgerInv'
  BY StutterLedger DEF ObservedInv
<1>3. CompletedInv'
  <2>1. StageInv'
    BY StutterStage DEF ObservedInv, CompletedInv
  <2>2. SelectedDone' /\ HistoryBound' /\ CompletedLast'
    BY <1>1 DEF ObservedInv, CompletedInv, SelectedDone, HistoryBound, CompletedLast, Finished, Current
  <2> QED BY <2>1, <2>2 DEF CompletedInv
<1>4. ContiguousInv'
  <2>1. FreshInv'
    BY NextFresh DEF ObservedInv, ContiguousInv
  <2>2. EvidenceContiguous' = EvidenceContiguous
    BY <1>1 DEF EvidenceContiguous, Events
  <2> QED BY <2>1, <2>2 DEF ObservedInv, ContiguousInv
<1>5. \A t, a, n, m, based : Whole(t, a, n, m, based)' = Whole(t, a, n, m, based)
  <2>1. \A t, a, n : Projected(t, a, n)' = Projected(t, a, n)
    BY <1>1 DEF Projected, Ancestors, Events
  <2>2. \A t, a, n, kind, g : Seen(t, a, n, kind, g)' = Seen(t, a, n, kind, g)
    BY <1>1, <2>1 DEF Seen
  <2> QED BY <2>2 DEF Whole
<1>6. AncestorsOK' /\ PointsWhole' /\ CompletedWhole'
  <2>1. AncestorsOK'
    BY <1>1 DEF ObservedInv, AncestorsOK, Current
  <2>2. PointsWhole'
    BY <1>1, <1>5 DEF ObservedInv, PointsWhole
  <2>3. CompletedWhole'
    BY <1>1, <1>5 DEF ObservedInv, CompletedWhole
  <2> QED BY <2>1, <2>2, <2>3
<1>7. ASSUME NEW q \in Procs
      PROVE  PendingOK(q)' /\ WholeAt(q)'
  <2>1. PendingOK(q)' = PendingOK(q)
    BY <1>1 DEF PendingOK, AtBaseline, AtGeneration, InPublication, Telling
  <2>2. Level(q)' = Level(q) /\ Diagnosed(q)' = Diagnosed(q)
    BY <1>1 DEF Level, Reached, Diagnosed
  <2>3. HasBaseline(TaskOf[q], attempt[q])' = HasBaseline(TaskOf[q], attempt[q])
    BY <1>1 DEF HasBaseline
  <2>4. PendingOK(q) /\ WholeAt(q)
    BY DEF ObservedInv
  <2>5. WholeAt(q)'
    BY <1>1, <1>5, <2>2, <2>3, <2>4 DEF WholeAt
  <2> QED BY <2>1, <2>4, <2>5
<1> QED BY <1>2, <1>3, <1>4, <1>6, <1>7 DEF ObservedInv

LEMMA InitObserved ==
    ASSUME ConstantAssumption, Init
    PROVE  ObservedInv
<1>1. /\ \A t \in Tasks : /\ history[t] = <<>> /\ attempts[t] = <<>> /\ checkpoints[t] = <<>>
                          /\ nextSeq[t] = 0
      /\ \A q \in Procs : attempt[q] = 0 /\ pending[q] = <<>>
      /\ selected = {}
  BY DEF Init
<1>2. LedgerInv /\ FreshInv /\ StageInv
  BY InitLedger, InitFresh, InitStage
<1>3. EvidenceContiguous
  BY EmptySeq DEF Init, EvidenceContiguous, Events
<1>4. CompletedInv
  <2>1. \A t \in Tasks : DOMAIN history[t] = {}
    BY <1>1
  <2> QED BY <1>1, <1>2, <2>1 DEF CompletedInv, SelectedDone, HistoryBound, CompletedLast
<1>5. AncestorsOK
  <2>1. \A t \in Tasks : Current(t) = 0
    BY <1>1, EmptySeq DEF Current
  <2> QED BY <2>1 DEF AncestorsOK
<1>6. PointsWhole /\ CompletedWhole
  <2>1. \A t \in Tasks : DOMAIN history[t] = {} /\ DOMAIN checkpoints[t] = {}
    BY <1>1
  <2> QED BY <2>1 DEF PointsWhole, CompletedWhole
<1>7. \A q \in Procs : PendingOK(q) /\ WholeAt(q)
  BY <1>1 DEF PendingOK, WholeAt
<1> QED BY <1>2, <1>3, <1>4, <1>5, <1>6, <1>7 DEF ObservedInv, ContiguousInv

LEMMA ObservedInvariant ==
    ASSUME ~AsyncSignals
    PROVE  Spec => []ObservedInv
<1>1. Init => ObservedInv
  BY ConstantAssumption, InitObserved
<1>2. ObservedInv /\ [Next]_vars => ObservedInv'
  BY ConstantAssumption, StepObserved, StutterObserved DEF Next, Step
<1> QED BY <1>1, <1>2, PTL DEF Spec

(* An attempt completes at most once. *)
LEMMA CompletedOnce ==
    ASSUME TypeInv, CompletedLast, NEW t \in Tasks,
           NEW i \in DOMAIN history[t], history[t][i].kind = "completed",
           NEW j \in DOMAIN history[t], history[t][j].kind = "completed",
           history[t][j].attempt = history[t][i].attempt
    PROVE  j = i
<1>1. i \in Nat /\ j \in Nat
  BY LenProperties DEF TypeInv, TypeOK, StoreType
<1>2. ~(j > i + 1) /\ history[t][i + 1].kind = "success"
  BY DEF CompletedLast
<1>3. ~(i > j + 1) /\ history[t][j + 1].kind = "success"
  BY DEF CompletedLast
<1>4. j # i + 1 /\ i # j + 1
  BY <1>2, <1>3
<1> QED BY <1>1, <1>2, <1>3, <1>4

(* The result that is selected can be decoded: up to its completed event the  *)
(* projection over the attempts it resumed shows one baseline and every       *)
(* generation's evaluation once, however many calls, crashes and retries it   *)
(* took and wherever their publications stopped.                              *)
THEOREM SelectionComplete == ~AsyncSignals => (Spec => []SelectedComplete)
<1> SUFFICES ASSUME ~AsyncSignals
             PROVE  Spec => []SelectedComplete
  OBVIOUS
<1>1. ASSUME ObservedInv, NEW s \in selected
      PROVE  LET done == {i \in Events(s.task) : history[s.task][i].kind = "completed"
                                                 /\ history[s.task][i].attempt = s.attempt}
             IN /\ ExactlyOne(done)
                /\ \A d \in done : Complete(s.task, s.attempt, history[s.task][d].seq)
  <2> DEFINE done == {i \in Events(s.task) : history[s.task][i].kind = "completed"
                                             /\ history[s.task][i].attempt = s.attempt}
  <2>1. TypeInv /\ CompletedLast /\ SelectedDone /\ CompletedWhole
    BY <1>1 DEF ObservedInv, CompletedInv, StageInv
  <2>2. s.task \in Tasks
    BY <2>1 DEF TypeInv, TypeOK, StoreType
  <2>3. PICK i \in DOMAIN history[s.task] :
           history[s.task][i].kind = "completed" /\ history[s.task][i].attempt = s.attempt
    BY <2>1 DEF SelectedDone
  <2>4. i \in done
    BY <2>1, <2>2, <2>3 DEF CompletedWhole, Events
  <2>5. ASSUME NEW j \in done
        PROVE  j = i
    <3>1. /\ j \in DOMAIN history[s.task] /\ history[s.task][j].kind = "completed"
          /\ history[s.task][j].attempt = history[s.task][i].attempt
      BY <2>3, <2>5 DEF Events
    <3> QED BY <2>1, <2>2, <2>3, <3>1, CompletedOnce
  <2>6. ExactlyOne(done)
    <3>1. done = {i}
      BY <2>4, <2>5
    <3> QED BY <3>1 DEF ExactlyOne
  <2>7. Complete(s.task, s.attempt, history[s.task][i].seq)
    <3>1. Whole(s.task, s.attempt, history[s.task][i].seq, MaxGen, TRUE)
      BY <2>1, <2>2, <2>3 DEF CompletedWhole
    <3> QED BY <3>1 DEF Whole, Complete, Seen
  <2> QED BY <2>5, <2>6, <2>7
<1>2. ObservedInv => SelectedComplete
  BY <1>1 DEF SelectedComplete
<1> QED BY <1>2, ObservedInvariant, PTL

=============================================================================
