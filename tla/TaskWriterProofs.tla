-------------------------- MODULE TaskWriterProofs --------------------------
(***************************************************************************)
(* Theorems about TaskWriter for any number of callers, tasks, generations  *)
(* and calls, under every fault: its types, mutual exclusion by the Plan     *)
(* lock, the freshness of what a publication read before its transaction,    *)
(* and the fencing of superseded attempts.                                   *)
(***************************************************************************)
EXTENDS TaskWriterProperties, SequenceTheorems, TLAPS

-----------------------------------------------------------------------------
(* Lemmas about the published changes *)

(* The changes one attempt appends. *)
ChangeOf(a) == [kind: Kinds, attempt: {a}, gen: Nat, seq: Nat \cup {NoEvent}]

LEMMA ChangeOfType ==
    ASSUME NEW a \in Nat, NEW s \in Seq(ChangeOf(a))
    PROVE  s \in Seq(ChangeType)
<1>1. ChangeOf(a) \subseteq ChangeType
  BY DEF ChangeOf, ChangeType
<1> QED BY <1>1, SeqMonotonic

(* What a segment publication appends is a sequence of typed changes of its attempt. *)
LEMMA SegmentChangesType ==
    ASSUME NEW a \in Nat, NEW segments \in Seq(Nat), segments # <<>>, NEW from \in Nat
    PROVE  SegmentChanges(a, segments, from) \in Seq(ChangeOf(a))
<1>1. Len(segments) \in Nat /\ Len(segments) > 0
  BY EmptySeq, LenProperties
<1>2. ASSUME NEW i \in 1 .. 2 * (Len(segments) - 1)
      PROVE  Change(IF i % 2 = 1 THEN "evaluation" ELSE "generation_ready",
                    a, segments[1 + ((i + 1) \div 2)], from + i) \in ChangeOf(a)
  <2>1. 1 + ((i + 1) \div 2) \in 1 .. Len(segments)
    BY <1>1
  <2>2. segments[1 + ((i + 1) \div 2)] \in Nat
    BY <2>1, ElementOfSeq
  <2> QED BY <2>2, <1>1 DEF Change, ChangeOf, Kinds, BarrierJobs
<1>3. ASSUME NEW i \in 1 .. 2 * Len(segments)
      PROVE  Change(IF i % 2 = 1 THEN "evaluation" ELSE "generation_ready",
                    a, segments[(i + 1) \div 2], from + i - 1) \in ChangeOf(a)
  <2>1. (i + 1) \div 2 \in 1 .. Len(segments)
    BY <1>1
  <2>2. segments[(i + 1) \div 2] \in Nat
    BY <2>1, ElementOfSeq
  <2> QED BY <2>2, <1>1 DEF Change, ChangeOf, Kinds, BarrierJobs
<1>4. [i \in 1 .. 2 * (Len(segments) - 1) |->
          Change(IF i % 2 = 1 THEN "evaluation" ELSE "generation_ready",
                 a, segments[1 + ((i + 1) \div 2)], from + i)] \in Seq(ChangeOf(a))
  BY <1>1, <1>2
<1>5. << Change("baseline_ready", a, 0, from) >> \in Seq(ChangeOf(a))
  BY DEF Change, ChangeOf, Kinds, BarrierJobs
<1>6. [i \in 1 .. 2 * Len(segments) |->
          Change(IF i % 2 = 1 THEN "evaluation" ELSE "generation_ready",
                 a, segments[(i + 1) \div 2], from + i - 1)] \in Seq(ChangeOf(a))
  BY <1>1, <1>3
<1> QED
  BY <1>4, <1>5, <1>6, ConcatProperties DEF SegmentChanges

(* What an event publication appends is a sequence of typed changes of its attempt. *)
LEMMA EventChangesType ==
    ASSUME NEW kind \in EventJobs, NEW a \in Nat, NEW buffered \in Seq(Nat), NEW g \in Nat,
           NEW from \in Nat
    PROVE  EventChanges(kind, a, buffered, g, from) \in Seq(ChangeOf(a))
<1>1. Len(buffered) \in Nat
  BY LenProperties
<1>2. ASSUME NEW i \in 1 .. Len(buffered)
      PROVE  Change("evaluation", a, buffered[i], from + i - 1) \in ChangeOf(a)
  <2>1. buffered[i] \in Nat
    BY ElementOfSeq
  <2> QED BY <2>1, <1>1 DEF Change, ChangeOf, Kinds, EventJobs, BarrierJobs
<1>3. [i \in 1 .. Len(buffered) |-> Change("evaluation", a, buffered[i], from + i - 1)]
         \in Seq(ChangeOf(a))
  BY <1>1, <1>2
<1>4. << Change(kind, a, g, from + Len(buffered)) >> \in Seq(ChangeOf(a))
  BY <1>1 DEF Change, ChangeOf, Kinds
<1>5. << Change("success", a, g, NoEvent) >> \in Seq(ChangeOf(a))
  BY DEF Change, ChangeOf, Kinds
<1>6. (IF kind = "completed" THEN << Change("success", a, g, NoEvent) >> ELSE <<>>)
         \in Seq(ChangeOf(a))
  BY <1>5
<1> QED
  BY <1>3, <1>4, <1>6, ConcatProperties DEF EventChanges

(* The evidence links stay a sequence of generations. *)
LEMMA ChainAfterType ==
    ASSUME NEW links \in Seq(Nat), NEW segments \in Seq(Nat)
    PROVE  ChainAfter(links, segments) \in Seq(Nat)
BY HeadTailProperties, ConcatProperties DEF ChainAfter

LEMMA LastOfType ==
    ASSUME NEW S, NEW s \in Seq(S), s # <<>>
    PROVE  LastOf(s) \in S
BY EmptySeq, ElementOfSeq DEF LastOf

-----------------------------------------------------------------------------
(* Types and the lock *)

(* The critical sections of the writer: the caller holds the Plan lock. *)
Holding == {"staged", "snapshot", "commit", "clear", "record"}

(* Which publication a caller can be in at each place, and that a segment     *)
(* publication has something staged.                                          *)
JobAt(p) ==
    /\ pc[p] = "staged" => job[p] \in BarrierJobs
    /\ pc[p] \in {"snapshot", "commit", "clear"} =>
          /\ job[p] \in SegmentJobs \cup EventJobs
          /\ job[p] \in SegmentJobs => completed[p] # <<>>
    /\ pc[p] = "notify" => job[p] \in (SegmentJobs \cup EventJobs) \ {"failed"}

JobOK == \A p \in Procs : JobAt(p)

LockOK == \A p \in Procs : pc[p] \in Holding => planLock = {p}

TypeInv == TypeOK /\ JobOK

(* The new history is typed: a publication appends typed changes. *)
LEMMA NewChangesType ==
    ASSUME TypeInv, NEW p \in Procs, pc[p] = "commit"
    PROVE  NewChanges(p) \in Seq(ChangeOf(attempt[p]))
<1>1. /\ attempt[p] \in Nat /\ completed[p] \in Seq(Nat) /\ pending[p] \in Seq(Nat)
      /\ gen[p] \in Nat /\ snap[p].seq \in Nat
  BY DEF TypeInv, TypeOK, StoreType, CallType, WriterType
<1>2. /\ job[p] \in SegmentJobs \cup EventJobs
      /\ job[p] \in SegmentJobs => completed[p] # <<>>
  BY DEF TypeInv, JobOK, JobAt
<1>3. CASE job[p] \in SegmentJobs
  BY <1>1, <1>2, <1>3, SegmentChangesType DEF NewChanges
<1>4. CASE job[p] \notin SegmentJobs
  BY <1>1, <1>2, <1>4, EventChangesType DEF NewChanges
<1> QED BY <1>3, <1>4

LEMMA NewEventCountType ==
    ASSUME TypeInv, NEW p \in Procs, pc[p] = "commit"
    PROVE  NewEventCount(p) \in Nat \ {0}
<1>1. /\ completed[p] \in Seq(Nat) /\ pending[p] \in Seq(Nat)
      /\ job[p] \in SegmentJobs => completed[p] # <<>>
  BY DEF TypeInv, TypeOK, StoreType, CallType, WriterType, JobOK, JobAt
<1>2. Len(pending[p]) \in Nat /\ Len(completed[p]) \in Nat
  BY <1>1, LenProperties
<1>3. job[p] \in SegmentJobs => Len(completed[p]) > 0
  BY <1>1, EmptySeq
<1> QED BY <1>2, <1>3 DEF NewEventCount

LEMMA NewCheckpointType ==
    ASSUME TypeInv, NEW p \in Procs, pc[p] = "commit", MakesCheckpoint(p)
    PROVE  NewCheckpoint(p) \in CheckpointType
<1>1. /\ attempt[p] \in Nat /\ completed[p] \in Seq(Nat) /\ chain[p] \in Seq(Nat)
      /\ latest[p] \in Nat /\ snap[p].seq \in Nat /\ completed[p] # <<>>
  BY DEF TypeInv, TypeOK, StoreType, CallType, WriterType, JobOK, JobAt, MakesCheckpoint
<1>2. ChainAfter(chain[p], completed[p]) \in Seq(Nat)
  BY <1>1, ChainAfterType
<1>3. LastOf(completed[p]) \in Nat
  BY <1>1, LastOfType
<1>4. NewEventCount(p) \in Nat \ {0}
  BY NewEventCountType
<1> QED BY <1>1, <1>2, <1>3, <1>4 DEF NewCheckpoint, CheckpointType

(* A committed publication leaves the store well typed. *)
LEMMA PublishType ==
    ASSUME TypeInv, ConstantAssumption, NEW p \in Procs, pc[p] = "commit", Publish(p)
    PROVE  /\ history' \in [Tasks -> Seq(ChangeType)]
           /\ nextSeq' \in [Tasks -> Nat]
           /\ attempts' \in [Tasks -> Seq(AttemptType)]
           /\ checkpoints' \in [Tasks -> Seq(CheckpointType)]
           /\ selected' \subseteq [task: Tasks, attempt: Nat]
<1> DEFINE t == TaskOf[p]
<1>1. t \in Tasks
  BY DEF ConstantAssumption
<1>2. history' \in [Tasks -> Seq(ChangeType)]
  <2>1. attempt[p] \in Nat /\ history[t] \in Seq(ChangeType)
    BY <1>1 DEF TypeInv, TypeOK, StoreType, CallType
  <2>2. NewChanges(p) \in Seq(ChangeType)
    BY <2>1, NewChangesType, ChangeOfType
  <2>3. history[t] \o NewChanges(p) \in Seq(ChangeType)
    BY <2>1, <2>2, ConcatProperties
  <2> QED BY <2>3 DEF Publish, TypeInv, TypeOK, StoreType
<1>3. nextSeq' \in [Tasks -> Nat]
  <2>1. NewEventCount(p) \in Nat \ {0}
    BY NewEventCountType
  <2>2. snap[p].seq + NewEventCount(p) \in Nat
    BY SMTT(30), <2>1 DEF TypeInv, TypeOK, StoreType, CallType, WriterType
  <2> QED BY <2>2 DEF Publish, TypeInv, TypeOK, StoreType, CallType, WriterType
<1>4. checkpoints' \in [Tasks -> Seq(CheckpointType)]
  <2>1. CASE MakesCheckpoint(p)
    <3>1. Append(checkpoints[t], NewCheckpoint(p)) \in Seq(CheckpointType)
      BY <1>1, <2>1, NewCheckpointType, AppendProperties DEF TypeInv, TypeOK, StoreType,
         CallType, WriterType
    <3> QED BY <2>1, <3>1 DEF Publish, TypeInv, TypeOK, StoreType, CallType, WriterType
  <2>2. CASE ~MakesCheckpoint(p)
    BY <2>2 DEF Publish, TypeInv, TypeOK, StoreType, CallType, WriterType
  <2> QED BY <2>1, <2>2
<1>5. selected' \subseteq [task: Tasks, attempt: Nat]
  BY <1>1 DEF Publish, Selection, TypeInv, TypeOK, StoreType, CallType, WriterType
<1> QED BY <1>2, <1>3, <1>4, <1>5 DEF Publish, TypeInv, TypeOK, StoreType, CallType, WriterType
-----------------------------------------------------------------------------
(* What the helpers of the actions leave typed *)

LEMMA GotoType ==
    ASSUME TypeInv, NEW p \in Procs, NEW label \in Places, Goto(p, label)
    PROVE  pc' \in [Procs -> Places]
BY DEF TypeInv, TypeOK, CallType, Goto

(* JobOK of one caller, and how it carries over when only that caller moves. *)
LEMMA JobStep ==
    ASSUME JobOK, NEW p \in Procs, JobAt(p)',
           \A q \in Procs \ {p} : pc'[q] = pc[q] /\ job'[q] = job[q] /\ completed'[q] = completed[q]
    PROVE  JobOK'
BY DEF JobOK, JobAt

(* A caller that moves on within its call. *)
LEMMA MoveOthers ==
    ASSUME TypeInv, NEW p \in Procs, NEW label \in Places, Goto(p, label)
    PROVE  /\ pc'[p] = label
           /\ \A q \in Procs \ {p} : pc'[q] = pc[q]
BY DEF TypeInv, TypeOK, CallType, Goto

LEMMA ForgetType ==
    ASSUME TypeInv, NEW p \in Procs, Forget(p)
    PROVE  /\ job' \in [Procs -> {"none"} \cup SegmentJobs \cup EventJobs]
           /\ attempt' \in [Procs -> Nat]
           /\ resume' \in [Procs -> CheckpointType]
           /\ gen' \in [Procs -> Nat]
           /\ WriterType'
<1>1. job' \in [Procs -> {"none"} \cup SegmentJobs \cup EventJobs]
  BY DEF Forget, TypeInv, TypeOK, CallType
<1>2. attempt' \in [Procs -> Nat]
  BY DEF Forget, TypeInv, TypeOK, CallType
<1>3. resume' \in [Procs -> CheckpointType]
  <2>1. Fresh \in CheckpointType
    BY DEF Fresh, CheckpointType
  <2> QED BY <2>1 DEF Forget, TypeInv, TypeOK, CallType
<1>4. gen' \in [Procs -> Nat]
  BY DEF Forget, TypeInv, TypeOK, CallType
<1>5. pending' \in [Procs -> Seq(Nat)]
  BY DEF Forget, TypeInv, TypeOK, WriterType
<1>6. completed' \in [Procs -> Seq(Nat)]
  BY DEF Forget, TypeInv, TypeOK, WriterType
<1>7. latest' \in [Procs -> Nat \cup {NoState}]
  BY DEF Forget, TypeInv, TypeOK, WriterType
<1>8. chain' \in [Procs -> Seq(Nat)]
  BY DEF Forget, TypeInv, TypeOK, WriterType
<1>9. uncertain' \in [Procs -> {"none", "committed", "not_committed", "unknown"}]
  BY DEF Forget, TypeInv, TypeOK, WriterType
<1>10. snap' \in [Procs -> [rev: Nat, seq: Nat]]
  <2>1. NoSnap \in [rev: Nat, seq: Nat]
    BY DEF NoSnap
  <2> QED BY <2>1 DEF Forget, TypeInv, TypeOK, WriterType
<1> QED BY <1>1, <1>2, <1>3, <1>4, <1>5, <1>6, <1>7, <1>8, <1>9, <1>10 DEF WriterType

(* A caller whose call is over (or whose process died) keeps nothing. *)
LEMMA LeaveType ==
    ASSUME TypeInv, NEW p \in Procs, Forget(p), NEW label \in {"finish", "idle"}, Goto(p, label)
    PROVE  CallType' /\ WriterType' /\ JobOK'
<1>1. label \in Places
  BY DEF Places
<1>2. pc' \in [Procs -> Places]
  BY <1>1, GotoType
<1>3. CallType' /\ WriterType'
  BY <1>2, ForgetType DEF CallType
<1>4. JobOK'
  <2>1. pc'[p] = label /\ \A q \in Procs \ {p} : pc'[q] = pc[q]
    BY <1>1, MoveOthers
  <2>2. JobAt(p)'
    BY <2>1 DEF JobAt
  <2>3. \A q \in Procs \ {p} : job'[q] = job[q] /\ completed'[q] = completed[q]
    BY DEF Forget, TypeInv, TypeOK, CallType, WriterType
  <2> QED BY <2>1, <2>2, <2>3, JobStep DEF TypeInv
<1> QED BY <1>3, <1>4

(* An exception either ends the call or sends it to its failure handling. *)
LEMMA EscapeType ==
    ASSUME TypeInv, NEW p \in Procs,
           NEW outcome \in {"none", "committed", "not_committed", "unknown"},
           NEW buffered \in Seq(Nat), NEW links \in Seq(Nat),
           Escape(p, outcome, buffered, links)
    PROVE  planLock' \in SUBSET Procs /\ CallType' /\ WriterType' /\ JobOK'
<1>1. planLock' \in SUBSET Procs
  BY DEF Escape, Unlock
<1>2. CASE job[p] \in {"flush_failure", "failed"}
  BY <1>1, <1>2, LeaveType DEF Escape, End
<1>3. CASE job[p] \notin {"flush_failure", "failed"}
  <2>1. /\ Goto(p, "failing")
        /\ uncertain' = [uncertain EXCEPT ![p] = outcome]
        /\ pending' = [pending EXCEPT ![p] = buffered]
        /\ chain' = [chain EXCEPT ![p] = links]
        /\ UNCHANGED <<job, callVars, completed, latest, snap>>
    BY <1>3 DEF Escape
  <2>2. "failing" \in Places
    BY DEF Places
  <2>3. CallType'
    BY <2>1, <2>2, GotoType DEF CallType, callVars, TypeInv, TypeOK
  <2>4. uncertain' \in [Procs -> {"none", "committed", "not_committed", "unknown"}]
    BY <2>1 DEF TypeInv, TypeOK, WriterType
  <2>5. pending' \in [Procs -> Seq(Nat)] /\ chain' \in [Procs -> Seq(Nat)]
    BY <2>1 DEF TypeInv, TypeOK, WriterType
  <2>6. WriterType'
    BY <2>1, <2>4, <2>5 DEF WriterType, TypeInv, TypeOK
  <2>7. pc'[p] = "failing" /\ \A q \in Procs \ {p} : pc'[q] = pc[q]
    BY <2>1, <2>2, MoveOthers
  <2>8. JobOK'
    BY <2>1, <2>7, JobStep DEF JobAt, TypeInv
  <2> QED BY <1>1, <2>3, <2>6, <2>8
<1> QED BY <1>2, <1>3

LEMMA RaiseType ==
    ASSUME TypeInv, NEW p \in Procs,
           NEW outcome \in {"none", "committed", "not_committed", "unknown"}, Raise(p, outcome)
    PROVE  planLock' \in SUBSET Procs /\ CallType' /\ WriterType' /\ JobOK'
BY EscapeType DEF Raise, TypeInv, TypeOK, WriterType

-----------------------------------------------------------------------------
(* Every action keeps the types *)

LEMMA StartType ==
    ASSUME TypeInv, ConstantAssumption, NEW p \in Procs, Start(p)
    PROVE  TypeInv'
<1>g. Goto(p, "lookup")
  BY DEF Start
<1>l. "lookup" \in Places
  BY DEF Places
<1>m. pc'[p] = "lookup" /\ \A q \in Procs \ {p} : pc'[q] = pc[q]
  BY <1>g, <1>l, MoveOthers
<1>p. pc' \in [Procs -> Places]
  BY <1>g, <1>l, GotoType
<1>1. StoreType'
  BY DEF Start, storeVars, TypeInv, TypeOK, StoreType
<1>2. SharedType'
  <2>1. hot' = FALSE /\ calls' = calls + 1
    BY DEF Start
  <2>2. planLock' = planLock /\ notes' = notes
    BY DEF Start
  <2>3. calls' \in Nat
    BY <2>1 DEF TypeInv, TypeOK, SharedType
  <2>4. hot' \in BOOLEAN
    BY <2>1
  <2> QED BY <2>2, <2>3, <2>4 DEF TypeInv, TypeOK, SharedType
<1>3. CallType'
  <2>1. resume' \in [Procs -> CheckpointType]
    <3>1. Fresh \in CheckpointType
      BY DEF Fresh, CheckpointType
    <3>2. TaskOf[p] \in Tasks
      BY DEF ConstantAssumption
    <3>3. \A i \in DOMAIN checkpoints[TaskOf[p]] : checkpoints[TaskOf[p]][i] \in CheckpointType
      BY <3>2, ElementOfSeq DEF TypeInv, TypeOK, StoreType
    <3>4. PICK c \in CheckpointType : resume' = [resume EXCEPT ![p] = c]
      BY <3>1, <3>3 DEF Start
    <3> QED BY <3>4 DEF TypeInv, TypeOK, CallType
  <2> QED BY <1>p, <2>1 DEF Start, TypeInv, TypeOK, CallType
<1>4. WriterType'
  BY DEF Start, writerVars, TypeInv, TypeOK, WriterType
<1>5. JobOK'
  <2>1. JobAt(p)'
    BY <1>m DEF Start, JobAt, TypeInv, TypeOK, CallType, BarrierJobs, FlushJobs, SegmentJobs,
       EventJobs
  <2>2. \A q \in Procs \ {p} : job'[q] = job[q] /\ completed'[q] = completed[q]
    BY DEF Start, writerVars, TypeInv, TypeOK, CallType, WriterType
  <2> QED BY <2>1, <2>2, <1>m, JobStep DEF TypeInv
<1> QED BY <1>1, <1>2, <1>3, <1>4, <1>5 DEF TypeInv, TypeOK

LEMMA RecoverType ==
    ASSUME TypeInv, ConstantAssumption, NEW p \in Procs, Recover(p)
    PROVE  TypeInv'
<1>1. StoreType'
  BY DEF Recover, storeVars, TypeInv, TypeOK, StoreType
<1>2. SharedType'
  BY DEF Recover, TypeInv, TypeOK, SharedType
<1>3. CallType'
  BY DEF Recover, callVars, TypeInv, TypeOK, CallType
<1>4. WriterType'
  BY DEF Recover, writerVars, TypeInv, TypeOK, WriterType
<1>5. JobOK'
  BY DEF Recover, writerVars, TypeInv, JobOK, JobAt
<1> QED BY <1>1, <1>2, <1>3, <1>4, <1>5 DEF TypeInv, TypeOK

LEMMA LookupType ==
    ASSUME TypeInv, ConstantAssumption, NEW p \in Procs, Lookup(p)
    PROVE  TypeInv'
<1>1. StoreType'
  BY DEF Lookup, storeVars, TypeInv, TypeOK, StoreType
<1>2. SharedType'
  BY DEF Lookup, TypeInv, TypeOK, SharedType
<1>3. CASE End(p)
  BY <1>1, <1>2, <1>3, LeaveType DEF End, TypeInv, TypeOK
<1>4. CASE ~End(p)
  <2>1. PICK label \in {"reuse", "begin"} :
           Goto(p, label) /\ UNCHANGED <<job, callVars, writerVars, snap>>
    BY <1>4 DEF Lookup
  <2>2. label \in Places
    BY DEF Places
  <2>3. CallType'
    BY <2>1, <2>2, GotoType DEF callVars, TypeInv, TypeOK, CallType
  <2>4. WriterType'
    BY <2>1 DEF writerVars, TypeInv, TypeOK, WriterType
  <2>5. pc'[p] = label /\ \A q \in Procs \ {p} : pc'[q] = pc[q]
    BY <2>1, <2>2, MoveOthers
  <2>6. JobOK'
    BY <2>1, <2>5, JobStep DEF JobAt, writerVars, TypeInv
  <2> QED BY <1>1, <1>2, <2>3, <2>4, <2>6 DEF TypeInv, TypeOK
<1> QED BY <1>3, <1>4

LEMMA ReuseType ==
    ASSUME TypeInv, ConstantAssumption, NEW p \in Procs, Reuse(p)
    PROVE  TypeInv'
<1>a. CallType' /\ WriterType' /\ JobOK'
  BY LeaveType DEF Reuse, End
<1>1. StoreType'
  BY DEF Reuse, storeVars, TypeInv, TypeOK, StoreType
<1>2. SharedType'
  <2>1. notes' \subseteq [kind: SegmentJobs \cup EventJobs \cup {"result_reuse"},
                         task: Tasks, attempt: Nat, gen: Nat]
    BY DEF Reuse, ConstantAssumption, TypeInv, TypeOK, StoreType, SharedType
  <2> QED BY <2>1 DEF Reuse, TypeInv, TypeOK, SharedType
<1> QED BY <1>1, <1>2, <1>a DEF TypeInv, TypeOK

LEMMA BeginType ==
    ASSUME TypeInv, ConstantAssumption, NEW p \in Procs, Begin(p)
    PROVE  TypeInv'
<1>t. TaskOf[p] \in Tasks
  BY DEF ConstantAssumption
<1>n. Len(attempts[TaskOf[p]]) + 1 \in Nat
  BY <1>t, LenProperties DEF TypeInv, TypeOK, StoreType
<1>g. Goto(p, "open")
  BY DEF Begin
<1>l. "open" \in Places
  BY DEF Places
<1>m. pc'[p] = "open" /\ \A q \in Procs \ {p} : pc'[q] = pc[q]
  BY <1>g, <1>l, MoveOthers
<1>p. pc' \in [Procs -> Places]
  BY <1>g, <1>l, GotoType
<1>1. StoreType'
  <2>1. [from |-> resume[p].attempt, limit |-> resume[p].seq, base |-> resume[p].gen] \in AttemptType
    BY DEF TypeInv, TypeOK, CallType, CheckpointType, AttemptType
  <2>2. attempts' \in [Tasks -> Seq(AttemptType)]
    BY <1>t, <2>1, AppendProperties DEF Begin, TypeInv, TypeOK, StoreType
  <2>3. Change("attempt_begin", Len(attempts[TaskOf[p]]) + 1, 0, NoEvent) \in ChangeType
    BY <1>n DEF Change, ChangeType, Kinds
  <2>4. history' \in [Tasks -> Seq(ChangeType)]
    BY <1>t, <2>3, AppendProperties DEF Begin, TypeInv, TypeOK, StoreType
  <2> QED BY <2>2, <2>4 DEF Begin, TypeInv, TypeOK, StoreType
<1>2. SharedType'
  BY DEF Begin, Lock, Unlock, TypeInv, TypeOK, SharedType
<1>3. CallType'
  <2>1. attempt' \in [Procs -> Nat]
    BY <1>n DEF Begin, TypeInv, TypeOK, CallType
  <2> QED BY <1>p, <2>1 DEF Begin, TypeInv, TypeOK, CallType
<1>4. WriterType'
  BY DEF Begin, writerVars, TypeInv, TypeOK, WriterType
<1>5. JobOK'
  <2>1. JobAt(p)'
    BY <1>m DEF Begin, JobAt, TypeInv, TypeOK, CallType, BarrierJobs, FlushJobs, SegmentJobs,
       EventJobs
  <2>2. \A q \in Procs \ {p} : job'[q] = job[q] /\ completed'[q] = completed[q]
    BY DEF Begin, writerVars, TypeInv, TypeOK, CallType, WriterType
  <2> QED BY <2>1, <2>2, <1>m, JobStep DEF TypeInv
<1> QED BY <1>1, <1>2, <1>3, <1>4, <1>5 DEF TypeInv, TypeOK

LEMMA OpenType ==
    ASSUME TypeInv, ConstantAssumption, NEW p \in Procs, Open(p)
    PROVE  TypeInv'
<1>t. TaskOf[p] \in Tasks
  BY DEF ConstantAssumption
<1>1. StoreType'
  <2>1. Change("running", attempt[p], 0, NoEvent) \in ChangeType
    BY DEF Change, ChangeType, Kinds, TypeInv, TypeOK, CallType
  <2>2. [history EXCEPT ![TaskOf[p]] = Append(@, Change("running", attempt[p], 0, NoEvent))] \in [Tasks -> Seq(ChangeType)]
    BY <1>t, <2>1, AppendProperties DEF TypeInv, TypeOK, StoreType
  <2>3. history' \in {history, [history EXCEPT ![TaskOf[p]] = Append(@, Change("running", attempt[p], 0, NoEvent))]}
    BY DEF Open
  <2> QED BY <2>2, <2>3 DEF Open, TypeInv, TypeOK, StoreType
<1>2. SharedType'
  BY DEF Open, TypeInv, TypeOK, SharedType
<1>3. CASE End(p)
  BY <1>1, <1>2, <1>3, LeaveType DEF End, TypeInv, TypeOK
<1>4. CASE ~End(p)
  <2>1. PICK label \in {"baseline", "announce"} :
           /\ Goto(p, label)
           /\ chain' = [chain EXCEPT ![p] = resume[p].chain]
           /\ gen' = [gen EXCEPT ![p] = resume[p].cma]
           /\ UNCHANGED <<job, attempt, resume, pending, completed, latest, uncertain, snap>>
    BY <1>4 DEF Open
  <2>2. label \in Places
    BY DEF Places
  <2>3. resume[p].chain \in Seq(Nat) /\ resume[p].cma \in Nat
    BY DEF TypeInv, TypeOK, CallType, CheckpointType
  <2>4. gen' \in [Procs -> Nat]
    BY <2>1, <2>3 DEF TypeInv, TypeOK, CallType
  <2>5. CallType'
    BY <2>1, <2>2, <2>4, GotoType DEF TypeInv, TypeOK, CallType
  <2>6. chain' \in [Procs -> Seq(Nat)]
    BY <2>1, <2>3 DEF TypeInv, TypeOK, WriterType
  <2>7. WriterType'
    BY <2>1, <2>6 DEF TypeInv, TypeOK, WriterType
  <2>8. pc'[p] = label /\ \A q \in Procs \ {p} : pc'[q] = pc[q]
    BY <2>1, <2>2, MoveOthers
  <2>9. JobOK'
    BY <2>1, <2>8, JobStep DEF JobAt, TypeInv
  <2> QED BY <1>1, <1>2, <2>5, <2>7, <2>9 DEF TypeInv, TypeOK
<1> QED BY <1>3, <1>4

LEMMA AnnounceType ==
    ASSUME TypeInv, ConstantAssumption, NEW p \in Procs, Announce(p)
    PROVE  TypeInv'
<1>g. Goto(p, "snapshot")
  BY DEF Announce
<1>l. "snapshot" \in Places
  BY DEF Places
<1>m. pc'[p] = "snapshot" /\ \A q \in Procs \ {p} : pc'[q] = pc[q]
  BY <1>g, <1>l, MoveOthers
<1>p. pc' \in [Procs -> Places]
  BY <1>g, <1>l, GotoType
<1>1. StoreType'
  BY DEF Announce, storeVars, TypeInv, TypeOK, StoreType
<1>2. SharedType'
  BY DEF Announce, Lock, Unlock, TypeInv, TypeOK, SharedType
<1>3. CallType'
  <2>1. job' \in [Procs -> {"none"} \cup SegmentJobs \cup EventJobs]
    BY DEF Announce, TypeInv, TypeOK, CallType, BarrierJobs, FlushJobs, SegmentJobs, EventJobs
  <2> QED BY <1>p, <2>1 DEF Announce, callVars, TypeInv, TypeOK, CallType
<1>4. WriterType'
  BY DEF Announce, writerVars, TypeInv, TypeOK, WriterType
<1>5. JobOK'
  <2>1. JobAt(p)'
    BY <1>m DEF Announce, JobAt, TypeInv, TypeOK, CallType, BarrierJobs, FlushJobs, SegmentJobs,
       EventJobs
  <2>2. \A q \in Procs \ {p} : job'[q] = job[q] /\ completed'[q] = completed[q]
    BY DEF Announce, writerVars, TypeInv, TypeOK, CallType, WriterType
  <2> QED BY <2>1, <2>2, <1>m, JobStep DEF TypeInv
<1> QED BY <1>1, <1>2, <1>3, <1>4, <1>5 DEF TypeInv, TypeOK

LEMMA EvaluateType ==
    ASSUME TypeInv, ConstantAssumption, NEW p \in Procs, Evaluate(p)
    PROVE  TypeInv'
<1>g. Goto(p, "evaluated")
  BY DEF Evaluate
<1>l. "evaluated" \in Places
  BY DEF Places
<1>m. pc'[p] = "evaluated" /\ \A q \in Procs \ {p} : pc'[q] = pc[q]
  BY <1>g, <1>l, MoveOthers
<1>p. pc' \in [Procs -> Places]
  BY <1>g, <1>l, GotoType
<1>1. StoreType'
  BY DEF Evaluate, storeVars, TypeInv, TypeOK, StoreType
<1>2. SharedType'
  BY DEF Evaluate, Lock, Unlock, TypeInv, TypeOK, SharedType
<1>3. CallType'
  BY <1>p DEF Evaluate, callVars, TypeInv, TypeOK, CallType
<1>4. WriterType'
  <2>1. gen[p] + 1 \in Nat
    BY DEF TypeInv, TypeOK, CallType
  <2>2. Append(pending[p], gen[p] + 1) \in Seq(Nat)
    BY <2>1, AppendProperties DEF TypeInv, TypeOK, WriterType
  <2>3. pending' \in [Procs -> Seq(Nat)]
    BY <2>2 DEF Evaluate, TypeInv, TypeOK, WriterType
  <2> QED BY <2>3 DEF Evaluate, TypeInv, TypeOK, WriterType
<1>5. JobOK'
  <2>1. JobAt(p)'
    BY <1>m DEF Evaluate, JobAt, TypeInv, TypeOK, CallType, BarrierJobs, FlushJobs, SegmentJobs,
       EventJobs
  <2>2. \A q \in Procs \ {p} : job'[q] = job[q] /\ completed'[q] = completed[q]
    BY DEF Evaluate, writerVars, TypeInv, TypeOK, CallType, WriterType
  <2> QED BY <2>1, <2>2, <1>m, JobStep DEF TypeInv
<1> QED BY <1>1, <1>2, <1>3, <1>4, <1>5 DEF TypeInv, TypeOK

LEMMA TellType ==
    ASSUME TypeInv, ConstantAssumption, NEW p \in Procs, Tell(p)
    PROVE  TypeInv'
<1>g. Goto(p, "barrier")
  BY DEF Tell
<1>l. "barrier" \in Places
  BY DEF Places
<1>m. pc'[p] = "barrier" /\ \A q \in Procs \ {p} : pc'[q] = pc[q]
  BY <1>g, <1>l, MoveOthers
<1>p. pc' \in [Procs -> Places]
  BY <1>g, <1>l, GotoType
<1>1. StoreType'
  BY DEF Tell, storeVars, TypeInv, TypeOK, StoreType
<1>2. SharedType'
  BY DEF Tell, Lock, Unlock, TypeInv, TypeOK, SharedType
<1>3. CallType'
  <2>1. gen' \in [Procs -> Nat]
    BY DEF Tell, TypeInv, TypeOK, CallType, BarrierJobs, FlushJobs, SegmentJobs, EventJobs
  <2> QED BY <1>p, <2>1 DEF Tell, callVars, TypeInv, TypeOK, CallType
<1>4. WriterType'
  BY DEF Tell, writerVars, TypeInv, TypeOK, WriterType
<1>5. JobOK'
  <2>1. JobAt(p)'
    BY <1>m DEF Tell, JobAt, TypeInv, TypeOK, CallType, BarrierJobs, FlushJobs, SegmentJobs,
       EventJobs
  <2>2. \A q \in Procs \ {p} : job'[q] = job[q] /\ completed'[q] = completed[q]
    BY DEF Tell, writerVars, TypeInv, TypeOK, CallType, WriterType
  <2> QED BY <2>1, <2>2, <1>m, JobStep DEF TypeInv
<1> QED BY <1>1, <1>2, <1>3, <1>4, <1>5 DEF TypeInv, TypeOK

LEMMA EnterBarrierType ==
    ASSUME TypeInv, ConstantAssumption, NEW p \in Procs, EnterBarrier(p)
    PROVE  TypeInv'
<1>g. Goto(p, "staged")
  BY DEF EnterBarrier
<1>l. "staged" \in Places
  BY DEF Places
<1>m. pc'[p] = "staged" /\ \A q \in Procs \ {p} : pc'[q] = pc[q]
  BY <1>g, <1>l, MoveOthers
<1>p. pc' \in [Procs -> Places]
  BY <1>g, <1>l, GotoType
<1>1. StoreType'
  BY DEF EnterBarrier, storeVars, TypeInv, TypeOK, StoreType
<1>2. SharedType'
  BY DEF EnterBarrier, Lock, Unlock, TypeInv, TypeOK, SharedType
<1>3. CallType'
  <2>1. job' \in [Procs -> {"none"} \cup SegmentJobs \cup EventJobs]
    BY DEF EnterBarrier, TypeInv, TypeOK, CallType, BarrierJobs, FlushJobs, SegmentJobs,
       EventJobs
  <2> QED BY <1>p, <2>1 DEF EnterBarrier, callVars, TypeInv, TypeOK, CallType
<1>4. WriterType'
  <2>1. latest' \in [Procs -> Nat \cup {NoState}]
    BY DEF EnterBarrier, TypeInv, TypeOK, CallType, WriterType
  <2> QED BY <2>1 DEF EnterBarrier, TypeInv, TypeOK, WriterType
<1>5. JobOK'
  <2>1. JobAt(p)'
    BY <1>m DEF EnterBarrier, JobAt, TypeInv, TypeOK, CallType, BarrierJobs, FlushJobs,
       SegmentJobs, EventJobs
  <2>2. \A q \in Procs \ {p} : job'[q] = job[q] /\ completed'[q] = completed[q]
    BY DEF EnterBarrier, writerVars, TypeInv, TypeOK, CallType, WriterType
  <2> QED BY <2>1, <2>2, <1>m, JobStep DEF TypeInv
<1> QED BY <1>1, <1>2, <1>3, <1>4, <1>5 DEF TypeInv, TypeOK

LEMMA StageType ==
    ASSUME TypeInv, ConstantAssumption, NEW p \in Procs, Stage(p)
    PROVE  TypeInv'
<1>g. PICK label \in {"snapshot", "generate"} : Goto(p, label)
  BY DEF Stage
<1>l. label \in Places
  BY DEF Places
<1>m. pc'[p] = label /\ \A q \in Procs \ {p} : pc'[q] = pc[q]
  BY <1>g, <1>l, MoveOthers
<1>p. pc' \in [Procs -> Places]
  BY <1>g, <1>l, GotoType
<1>c. Append(completed[p], gen[p]) \in Seq(Nat) /\ Append(completed[p], gen[p]) # <<>>
  <2>1. completed[p] \in Seq(Nat)
    BY DEF TypeInv, TypeOK, WriterType
  <2>2. gen[p] \in Nat
    BY DEF TypeInv, TypeOK, CallType
  <2> QED BY SMTT(30), <2>1, <2>2, AppendProperties
<1>1. StoreType'
  BY DEF Stage, storeVars, TypeInv, TypeOK, StoreType
<1>2. SharedType'
  BY DEF Stage, Lock, Unlock, TypeInv, TypeOK, SharedType
<1>3. CallType'
  BY <1>p DEF Stage, callVars, TypeInv, TypeOK, CallType
<1>4. WriterType'
  <2>1. completed' \in [Procs -> Seq(Nat)]
    BY <1>c DEF Stage, TypeInv, TypeOK, WriterType
  <2>2. pending' \in [Procs -> Seq(Nat)]
    BY DEF Stage, TypeInv, TypeOK, WriterType
  <2> QED BY <2>1, <2>2 DEF Stage, TypeInv, TypeOK, WriterType
<1>5. JobOK'
  <2>1. completed'[p] # <<>> /\ job' = job
    BY <1>c DEF Stage, TypeInv, TypeOK, WriterType
  <2>2. job[p] \in BarrierJobs
    BY DEF Stage, TypeInv, JobOK, JobAt
  <2>3. JobAt(p)'
    BY <1>m, <2>1, <2>2 DEF JobAt, SegmentJobs
  <2>4. \A q \in Procs \ {p} : job'[q] = job[q] /\ completed'[q] = completed[q]
    BY DEF Stage, TypeInv, TypeOK, WriterType
  <2> QED BY <2>3, <2>4, <1>m, JobStep DEF TypeInv
<1> QED BY <1>1, <1>2, <1>3, <1>4, <1>5 DEF TypeInv, TypeOK

LEMMA FlushType ==
    ASSUME TypeInv, ConstantAssumption, NEW p \in Procs, Flush(p)
    PROVE  TypeInv'
<1>g. PICK label \in {"snapshot", "fail_event", "complete"} : Goto(p, label)
  BY DEF Flush
<1>l. label \in Places
  BY DEF Places
<1>m. pc'[p] = label /\ \A q \in Procs \ {p} : pc'[q] = pc[q]
  BY <1>g, <1>l, MoveOthers
<1>p. pc' \in [Procs -> Places]
  BY <1>g, <1>l, GotoType
<1>1. StoreType'
  BY DEF Flush, storeVars, TypeInv, TypeOK, StoreType
<1>2. SharedType'
  BY DEF Flush, Lock, Unlock, TypeInv, TypeOK, SharedType
<1>3. CallType'
  <2>1. job' \in [Procs -> {"none"} \cup SegmentJobs \cup EventJobs]
    BY DEF Flush, TypeInv, TypeOK, CallType, BarrierJobs, FlushJobs, SegmentJobs, EventJobs
  <2> QED BY <1>p, <2>1 DEF Flush, callVars, TypeInv, TypeOK, CallType
<1>4. WriterType'
  BY DEF Flush, writerVars, TypeInv, TypeOK, WriterType
<1>5. JobOK'
  <2>1. pc'[p] = "snapshot" => job'[p] \in FlushJobs /\ completed'[p] # <<>>
    BY <1>m DEF Flush, FlushesTail, Goto, writerVars, TypeInv, TypeOK, CallType, FlushJobs
  <2>2. JobAt(p)'
    BY <1>m, <2>1 DEF JobAt, SegmentJobs
  <2>3. \A q \in Procs \ {p} : job'[q] = job[q] /\ completed'[q] = completed[q]
    BY DEF Flush, writerVars, TypeInv, TypeOK, CallType
  <2> QED BY <2>2, <2>3, <1>m, JobStep DEF TypeInv
<1> QED BY <1>1, <1>2, <1>3, <1>4, <1>5 DEF TypeInv, TypeOK

LEMMA EnterEventType ==
    ASSUME TypeInv, ConstantAssumption, NEW p \in Procs, EnterEvent(p)
    PROVE  TypeInv'
<1>g. Goto(p, "snapshot")
  BY DEF EnterEvent
<1>l. "snapshot" \in Places
  BY DEF Places
<1>m. pc'[p] = "snapshot" /\ \A q \in Procs \ {p} : pc'[q] = pc[q]
  BY <1>g, <1>l, MoveOthers
<1>p. pc' \in [Procs -> Places]
  BY <1>g, <1>l, GotoType
<1>1. StoreType'
  BY DEF EnterEvent, storeVars, TypeInv, TypeOK, StoreType
<1>2. SharedType'
  BY DEF EnterEvent, Lock, Unlock, TypeInv, TypeOK, SharedType
<1>3. CallType'
  <2>1. job' \in [Procs -> {"none"} \cup SegmentJobs \cup EventJobs]
    BY DEF EnterEvent, TypeInv, TypeOK, CallType, BarrierJobs, FlushJobs, SegmentJobs, EventJobs
  <2> QED BY <1>p, <2>1 DEF EnterEvent, callVars, TypeInv, TypeOK, CallType
<1>4. WriterType'
  BY DEF EnterEvent, writerVars, TypeInv, TypeOK, WriterType
<1>5. JobOK'
  <2>1. JobAt(p)'
    BY <1>m DEF EnterEvent, JobAt, TypeInv, TypeOK, CallType, BarrierJobs, FlushJobs,
       SegmentJobs, EventJobs
  <2>2. \A q \in Procs \ {p} : job'[q] = job[q] /\ completed'[q] = completed[q]
    BY DEF EnterEvent, writerVars, TypeInv, TypeOK, CallType, WriterType
  <2> QED BY <2>1, <2>2, <1>m, JobStep DEF TypeInv
<1> QED BY <1>1, <1>2, <1>3, <1>4, <1>5 DEF TypeInv, TypeOK

LEMMA SnapshotType ==
    ASSUME TypeInv, ConstantAssumption, NEW p \in Procs, Snapshot(p)
    PROVE  TypeInv'
<1>1. StoreType'
  BY DEF Snapshot, storeVars, TypeInv, TypeOK, StoreType
<1>2. CASE Raise(p, "none")
  <2>1. planLock' \in SUBSET Procs /\ CallType' /\ WriterType' /\ JobOK'
    BY <1>2, RaiseType
  <2>2. SharedType'
    BY <2>1 DEF Snapshot, TypeInv, TypeOK, SharedType
  <2> QED BY <1>1, <2>1, <2>2 DEF TypeInv, TypeOK
<1>3. CASE ~Raise(p, "none")
  <2>1. /\ snap' = [snap EXCEPT ![p] = [rev |-> Len(history[TaskOf[p]]), seq |-> nextSeq[TaskOf[p]]]]
        /\ Goto(p, "commit")
        /\ UNCHANGED <<planLock, job, callVars, writerVars>>
    BY <1>3 DEF Snapshot
  <2>2. "commit" \in Places
    BY DEF Places
  <2>3. SharedType'
    BY <2>1 DEF Snapshot, TypeInv, TypeOK, SharedType
  <2>4. CallType'
    BY <2>1, <2>2, GotoType DEF callVars, TypeInv, TypeOK, CallType
  <2>5. [rev |-> Len(history[TaskOf[p]]), seq |-> nextSeq[TaskOf[p]]] \in [rev: Nat, seq: Nat]
    BY LenProperties DEF ConstantAssumption, TypeInv, TypeOK, StoreType
  <2>6. snap' \in [Procs -> [rev: Nat, seq: Nat]]
    BY <2>1, <2>5 DEF TypeInv, TypeOK, WriterType
  <2>7. WriterType'
    BY <2>1, <2>6 DEF writerVars, TypeInv, TypeOK, WriterType
  <2>8. pc'[p] = "commit" /\ \A q \in Procs \ {p} : pc'[q] = pc[q]
    BY <2>1, <2>2, MoveOthers
  <2>9. JobOK'
    BY <2>1, <2>8, JobStep DEF Snapshot, JobAt, JobOK, writerVars, TypeInv
  <2> QED BY <1>1, <2>3, <2>4, <2>7, <2>9 DEF TypeInv, TypeOK
<1> QED BY <1>2, <1>3

LEMMA CommitType ==
    ASSUME TypeInv, ConstantAssumption, NEW p \in Procs, Commit(p)
    PROVE  TypeInv'
<1>g. Goto(p, "clear")
  BY DEF Commit
<1>l. "clear" \in Places
  BY DEF Places
<1>m. pc'[p] = "clear" /\ \A q \in Procs \ {p} : pc'[q] = pc[q]
  BY <1>g, <1>l, MoveOthers
<1>p. pc' \in [Procs -> Places]
  BY <1>g, <1>l, GotoType
<1>1. StoreType'
  BY PublishType DEF Commit, StoreType
<1>2. SharedType'
  BY DEF Commit, Lock, Unlock, TypeInv, TypeOK, SharedType
<1>3. CallType'
  BY <1>p DEF Commit, callVars, TypeInv, TypeOK, CallType
<1>4. WriterType'
  BY DEF Commit, writerVars, TypeInv, TypeOK, WriterType
<1>5. JobOK'
  <2>1. JobAt(p)'
    BY <1>m DEF Commit, JobOK, JobAt, writerVars, TypeInv
  <2> QED BY <2>1, <1>m, JobStep DEF Commit, writerVars, TypeInv
<1> QED BY <1>1, <1>2, <1>3, <1>4, <1>5 DEF TypeInv, TypeOK

LEMMA RejectType ==
    ASSUME TypeInv, ConstantAssumption, NEW p \in Procs, Reject(p)
    PROVE  TypeInv'
<1>1. StoreType'
  BY DEF Reject, storeVars, TypeInv, TypeOK, StoreType
<1>2. planLock' \in SUBSET Procs /\ CallType' /\ WriterType' /\ JobOK'
  BY RaiseType DEF Reject
<1>3. SharedType'
  BY <1>2 DEF Reject, TypeInv, TypeOK, SharedType
<1> QED BY <1>1, <1>2, <1>3 DEF TypeInv, TypeOK

LEMMA CommitErrorType ==
    ASSUME TypeInv, ConstantAssumption, NEW p \in Procs, CommitError(p)
    PROVE  TypeInv'
<1>1. StoreType'
  <2>1. CASE Publish(p)
    BY <2>1, PublishType DEF CommitError, StoreType
  <2>2. CASE UNCHANGED storeVars
    BY <2>2 DEF storeVars, TypeInv, TypeOK, StoreType
  <2> QED BY <2>1, <2>2 DEF CommitError
<1>2. PICK outcome \in {"committed", "not_committed", "unknown"} : Raise(p, outcome)
  BY DEF CommitError
<1>3. planLock' \in SUBSET Procs /\ CallType' /\ WriterType' /\ JobOK'
  BY <1>2, RaiseType
<1>4. hot' \in BOOLEAN
  BY DEF CommitError
<1>5. SharedType'
  BY <1>3, <1>4 DEF CommitError, TypeInv, TypeOK, SharedType
<1> QED BY <1>1, <1>3, <1>5 DEF TypeInv, TypeOK

LEMMA ClearType ==
    ASSUME TypeInv, ConstantAssumption, NEW p \in Procs, Clear(p)
    PROVE  TypeInv'
<1>g. PICK label \in {"record", "notify"} : Goto(p, label)
  BY DEF Clear
<1>l. label \in Places
  BY DEF Places
<1>m. pc'[p] = label /\ \A q \in Procs \ {p} : pc'[q] = pc[q]
  BY <1>g, <1>l, MoveOthers
<1>p. pc' \in [Procs -> Places]
  BY <1>g, <1>l, GotoType
<1>s. PublishedSegments(p) \in Seq(Nat)
  BY DEF PublishedSegments, TypeInv, TypeOK, WriterType
<1>k. ChainAfter(chain[p], PublishedSegments(p)) \in Seq(Nat)
  BY <1>s, ChainAfterType DEF TypeInv, TypeOK, WriterType
<1>1. StoreType'
  BY DEF Clear, storeVars, TypeInv, TypeOK, StoreType
<1>2. SharedType'
  BY DEF Clear, Lock, Unlock, TypeInv, TypeOK, SharedType
<1>3. CallType'
  BY <1>p DEF Clear, callVars, TypeInv, TypeOK, CallType
<1>4. WriterType'
  <2>1. chain' \in [Procs -> Seq(Nat)]
    BY <1>k DEF Clear, TypeInv, TypeOK, WriterType
  <2>2. completed' \in {completed, [completed EXCEPT ![p] = <<>>]}
        /\ pending' \in {pending, [pending EXCEPT ![p] = <<>>]}
    BY DEF Clear, EmptyStaged
  <2>4. completed' \in [Procs -> Seq(Nat)]
    <3>1. <<>> \in Seq(Nat)
      OBVIOUS
    <3>2. [completed EXCEPT ![p] = <<>>] \in [Procs -> Seq(Nat)]
      BY <3>1 DEF TypeInv, TypeOK, WriterType
    <3> QED BY <2>2, <3>2 DEF TypeInv, TypeOK, WriterType
  <2>5. pending' \in [Procs -> Seq(Nat)]
    <3>1. <<>> \in Seq(Nat)
      OBVIOUS
    <3>2. [pending EXCEPT ![p] = <<>>] \in [Procs -> Seq(Nat)]
      BY <3>1 DEF TypeInv, TypeOK, WriterType
    <3> QED BY <2>2, <3>2 DEF TypeInv, TypeOK, WriterType
  <2>3. latest' \in [Procs -> Nat \cup {NoState}]
    BY DEF Clear, EmptyStaged, TypeInv, TypeOK, WriterType
  <2> QED BY <2>1, <2>3, <2>4, <2>5 DEF Clear, TypeInv, TypeOK, WriterType
<1>5. JobOK'
  <2>1. pc'[p] = "notify" => job[p] # "failed"
    BY <1>m DEF Clear, Goto, TypeInv, TypeOK, CallType
  <2>2. job' = job /\ job[p] \in SegmentJobs \cup EventJobs
    BY DEF Clear, TypeInv, JobOK, JobAt
  <2>3. JobAt(p)'
    BY <1>m, <2>1, <2>2 DEF JobAt
  <2>4. \A q \in Procs \ {p} : completed'[q] = completed[q]
    BY DEF Clear, EmptyStaged, TypeInv, TypeOK, WriterType
  <2> QED BY <2>2, <2>3, <2>4, <1>m, JobStep DEF TypeInv
<1> QED BY <1>1, <1>2, <1>3, <1>4, <1>5 DEF TypeInv, TypeOK

LEMMA RecordType ==
    ASSUME TypeInv, ConstantAssumption, NEW p \in Procs, Record(p)
    PROVE  TypeInv'
<1>t. TaskOf[p] \in Tasks
  BY DEF ConstantAssumption
<1>a. CallType' /\ WriterType' /\ JobOK'
  BY LeaveType DEF Record, End
<1>1. StoreType'
  <2>1. Change("failure", attempt[p], gen[p], NoEvent) \in ChangeType
    BY DEF Change, ChangeType, Kinds, TypeInv, TypeOK, CallType
  <2>2. [history EXCEPT ![TaskOf[p]] = Append(@, Change("failure", attempt[p], gen[p], NoEvent))] \in [Tasks -> Seq(ChangeType)]
    BY <1>t, <2>1, AppendProperties DEF TypeInv, TypeOK, StoreType
  <2>3. history' \in {history, [history EXCEPT ![TaskOf[p]] = Append(@, Change("failure", attempt[p], gen[p], NoEvent))]}
    BY DEF Record
  <2> QED BY <2>2, <2>3 DEF Record, TypeInv, TypeOK, StoreType
<1>2. SharedType'
  BY DEF Record, Lock, Unlock, TypeInv, TypeOK, SharedType
<1> QED BY <1>1, <1>2, <1>a DEF TypeInv, TypeOK

LEMMA DeliverType ==
    ASSUME TypeInv, ConstantAssumption, NEW p \in Procs, pc[p] = "notify", Deliver(p)
    PROVE  notes' \subseteq [kind: SegmentJobs \cup EventJobs \cup {"result_reuse"},
                            task: Tasks, attempt: Nat, gen: Nat]
<1>1. NotifyGen(p) \in Nat
  <2>1. chain[p] # <<>> => LastOf(chain[p]) \in Nat
    BY LastOfType DEF TypeInv, TypeOK, WriterType
  <2>2. resume[p].gen \in Nat /\ gen[p] \in Nat
    BY DEF TypeInv, TypeOK, CallType, CheckpointType
  <2> QED BY <2>1, <2>2 DEF NotifyGen
<1>2. TaskOf[p] \in Tasks /\ attempt[p] \in Nat /\ job[p] \in SegmentJobs \cup EventJobs
  BY DEF ConstantAssumption, TypeInv, TypeOK, CallType, JobOK, JobAt
<1>3. [kind |-> job[p], task |-> TaskOf[p], attempt |-> attempt[p], gen |-> NotifyGen(p)]
         \in [kind: SegmentJobs \cup EventJobs \cup {"result_reuse"},
             task: Tasks, attempt: Nat, gen: Nat]
  BY <1>1, <1>2
<1> QED BY <1>3 DEF Deliver, TypeInv, TypeOK, SharedType

LEMMA NotifyType ==
    ASSUME TypeInv, ConstantAssumption, NEW p \in Procs, Notify(p)
    PROVE  TypeInv'
<1>1. StoreType'
  BY DEF Notify, storeVars, TypeInv, TypeOK, StoreType
<1>2. SharedType'
  <2>1. pc[p] = "notify" /\ Deliver(p)
    BY DEF Notify
  <2> QED BY <2>1, DeliverType DEF Notify, TypeInv, TypeOK, SharedType
<1>3. CASE End(p)
  BY <1>1, <1>2, <1>3, LeaveType DEF End, TypeInv, TypeOK
<1>4. CASE ~End(p)
  <2>1. /\ job[p] # "completed" /\ Goto(p, AfterNotify[job[p]])
        /\ UNCHANGED <<job, callVars, writerVars, snap>>
    BY <1>4 DEF Notify
  <2>2. job[p] \in {"resumed", "baseline_ready", "generation_ready", "flush_terminal", "flush_failure"}
    BY <2>1 DEF Notify, TypeInv, JobOK, JobAt, BarrierJobs, FlushJobs, SegmentJobs, EventJobs
  <2>3. AfterNotify[job[p]] \in {"generate", "complete", "fail_event"}
    BY <2>2 DEF AfterNotify
  <2>4. AfterNotify[job[p]] \in Places
    BY <2>3 DEF Places
  <2>5. CallType'
    BY <2>1, <2>4, GotoType DEF callVars, TypeInv, TypeOK, CallType
  <2>6. WriterType'
    BY <2>1 DEF writerVars, TypeInv, TypeOK, WriterType
  <2>7. pc'[p] = AfterNotify[job[p]] /\ \A q \in Procs \ {p} : pc'[q] = pc[q]
    BY <2>1, <2>4, MoveOthers
  <2>8. JobOK'
    BY <2>1, <2>3, <2>7, JobStep DEF JobAt, writerVars, TypeInv
  <2> QED BY <1>1, <1>2, <2>5, <2>6, <2>8 DEF TypeInv, TypeOK
<1> QED BY <1>3, <1>4

LEMMA CallbackRaisesType ==
    ASSUME TypeInv, ConstantAssumption, NEW p \in Procs, CallbackRaises(p)
    PROVE  TypeInv'
<1>g. Goto(p, "failing")
  BY DEF CallbackRaises
<1>l. "failing" \in Places
  BY DEF Places
<1>m. pc'[p] = "failing" /\ \A q \in Procs \ {p} : pc'[q] = pc[q]
  BY <1>g, <1>l, MoveOthers
<1>p. pc' \in [Procs -> Places]
  BY <1>g, <1>l, GotoType
<1>1. StoreType'
  BY DEF CallbackRaises, storeVars, TypeInv, TypeOK, StoreType
<1>2. SharedType'
  <2>1. pc[p] = "notify" /\ Deliver(p)
    BY DEF CallbackRaises
  <2> QED BY <2>1, DeliverType DEF CallbackRaises, TypeInv, TypeOK, SharedType
<1>3. CallType'
  BY <1>p DEF CallbackRaises, callVars, TypeInv, TypeOK, CallType
<1>4. WriterType'
  BY DEF CallbackRaises, writerVars, TypeInv, TypeOK, WriterType
<1>5. JobOK'
  <2>1. JobAt(p)'
    BY <1>m DEF CallbackRaises, JobAt, TypeInv, TypeOK, CallType, BarrierJobs, FlushJobs,
       SegmentJobs, EventJobs
  <2>2. \A q \in Procs \ {p} : job'[q] = job[q] /\ completed'[q] = completed[q]
    BY DEF CallbackRaises, writerVars, TypeInv, TypeOK, CallType, WriterType
  <2> QED BY <2>1, <2>2, <1>m, JobStep DEF TypeInv
<1> QED BY <1>1, <1>2, <1>3, <1>4, <1>5 DEF TypeInv, TypeOK

LEMMA FaultType ==
    ASSUME TypeInv, ConstantAssumption, NEW p \in Procs, Fault(p)
    PROVE  TypeInv'
<1>1. StoreType'
  BY DEF Fault, storeVars, TypeInv, TypeOK, StoreType
<1>2. SharedType'
  BY DEF Fault, TypeInv, TypeOK, SharedType
<1>3. CASE End(p)
  BY <1>1, <1>2, <1>3, LeaveType DEF End, TypeInv, TypeOK
<1>4. CASE ~End(p)
  <2>1. Goto(p, "failing") /\ UNCHANGED <<job, callVars, writerVars, snap>>
    BY <1>4 DEF Fault
  <2>2. "failing" \in Places
    BY DEF Places
  <2>3. CallType'
    BY <2>1, <2>2, GotoType DEF callVars, TypeInv, TypeOK, CallType
  <2>4. WriterType'
    BY <2>1 DEF writerVars, TypeInv, TypeOK, WriterType
  <2>5. pc'[p] = "failing" /\ \A q \in Procs \ {p} : pc'[q] = pc[q]
    BY <2>1, <2>2, MoveOthers
  <2>6. JobOK'
    BY <2>1, <2>5, JobStep DEF JobAt, writerVars, TypeInv
  <2> QED BY <1>1, <1>2, <2>3, <2>4, <2>6 DEF TypeInv, TypeOK
<1> QED BY <1>3, <1>4

LEMMA FactErrorType ==
    ASSUME TypeInv, ConstantAssumption, NEW p \in Procs, FactError(p)
    PROVE  TypeInv'
<1> DEFINE t == TaskOf[p]
           running == Change("running", attempt[p], 0, NoEvent)
           failure == Change("failure", attempt[p], gen[p], NoEvent)
           begun   == Change("attempt_begin", Len(attempts[t]) + 1, 0, NoEvent)
           fact    == [from |-> resume[p].attempt, limit |-> resume[p].seq, base |-> resume[p].gen]
<1>t. t \in Tasks
  BY DEF ConstantAssumption
<1>1. StoreType'
  <2>1. running \in ChangeType /\ failure \in ChangeType
    BY DEF Change, ChangeType, Kinds, TypeInv, TypeOK, CallType
  <2>2. begun \in ChangeType
    BY <1>t, LenProperties DEF Change, ChangeType, Kinds, TypeInv, TypeOK, StoreType
  <2>3. fact \in AttemptType
    BY DEF TypeInv, TypeOK, CallType, CheckpointType, AttemptType
  <2>4. \E c \in {running, failure, begun} :
           history' \in {history, [history EXCEPT ![t] = Append(@, c)]}
    BY DEF FactError
  <2>5. history' \in [Tasks -> Seq(ChangeType)]
    <3>1. PICK c \in ChangeType : history' \in {history, [history EXCEPT ![t] = Append(@, c)]}
      BY <2>1, <2>2, <2>4
    <3>2. [history EXCEPT ![t] = Append(@, c)] \in [Tasks -> Seq(ChangeType)]
      BY <1>t, AppendProperties DEF TypeInv, TypeOK, StoreType
    <3> QED BY <3>1, <3>2 DEF TypeInv, TypeOK, StoreType
  <2>6. attempts' \in {attempts, [attempts EXCEPT ![t] = Append(@, fact)]}
    BY DEF FactError
  <2>7. attempts' \in [Tasks -> Seq(AttemptType)]
    <3>1. [attempts EXCEPT ![t] = Append(@, fact)] \in [Tasks -> Seq(AttemptType)]
      <4> HIDE DEF fact
      <4> QED BY <1>t, <2>3, AppendProperties DEF TypeInv, TypeOK, StoreType
    <3> QED BY <2>6, <3>1 DEF TypeInv, TypeOK, StoreType
  <2> QED BY <2>5, <2>7 DEF FactError, TypeInv, TypeOK, StoreType
<1>2. SharedType'
  BY DEF FactError, Unlock, TypeInv, TypeOK, SharedType
<1>3. CASE End(p)
  BY <1>1, <1>2, <1>3, LeaveType DEF End, TypeInv, TypeOK
<1>4. CASE ~End(p)
  <2>1. /\ Goto(p, "failing")
        /\ chain' = [chain EXCEPT ![p] = resume[p].chain]
        /\ UNCHANGED <<job, callVars, pending, completed, latest, uncertain, snap>>
    BY <1>4 DEF FactError
  <2>2. "failing" \in Places
    BY DEF Places
  <2>3. CallType'
    BY <2>1, <2>2, GotoType DEF callVars, TypeInv, TypeOK, CallType
  <2>4. resume[p].chain \in Seq(Nat)
    BY DEF TypeInv, TypeOK, CallType, CheckpointType
  <2>5. chain' \in [Procs -> Seq(Nat)]
    BY <2>1, <2>4 DEF TypeInv, TypeOK, WriterType
  <2>6. WriterType'
    BY <2>1, <2>5 DEF TypeInv, TypeOK, WriterType
  <2>7. pc'[p] = "failing" /\ \A q \in Procs \ {p} : pc'[q] = pc[q]
    BY <2>1, <2>2, MoveOthers
  <2>8. JobOK'
    BY <2>1, <2>7, JobStep DEF JobAt, TypeInv
  <2> QED BY <1>1, <1>2, <2>3, <2>6, <2>8 DEF TypeInv, TypeOK
<1> QED BY <1>3, <1>4

LEMMA InterruptType ==
    ASSUME TypeInv, ConstantAssumption, NEW p \in Procs, Interrupt(p)
    PROVE  TypeInv'
<1>1. StoreType'
  BY DEF Interrupt, storeVars, TypeInv, TypeOK, StoreType
<1>2. \E outcome \in {"none", "not_committed"}, buffered \in {pending[p], <<>>},
         links \in {chain[p], ChainAfter(chain[p], PublishedSegments(p))} :
            Escape(p, outcome, buffered, links)
  BY DEF Interrupt, Raise
<1>3. pending[p] \in Seq(Nat) /\ chain[p] \in Seq(Nat) /\ PublishedSegments(p) \in Seq(Nat)
  BY DEF PublishedSegments, TypeInv, TypeOK, WriterType
<1>4. ChainAfter(chain[p], PublishedSegments(p)) \in Seq(Nat)
  BY <1>3, ChainAfterType
<1>5. planLock' \in SUBSET Procs /\ CallType' /\ WriterType' /\ JobOK'
  <2>1. PICK outcome \in {"none", "not_committed"}, buffered \in {pending[p], <<>>},
             links \in {chain[p], ChainAfter(chain[p], PublishedSegments(p))} :
                Escape(p, outcome, buffered, links)
    BY <1>2
  <2>2. <<>> \in Seq(Nat)
    OBVIOUS
  <2>3. buffered \in Seq(Nat)
    BY <1>3, <2>2
  <2>4. links \in Seq(Nat)
    BY <1>3, <1>4
  <2> QED BY <2>1, <2>3, <2>4, EscapeType
<1>6. SharedType'
  BY <1>5 DEF Interrupt, TypeInv, TypeOK, SharedType
<1> QED BY <1>1, <1>5, <1>6 DEF TypeInv, TypeOK

LEMMA GiveUpType ==
    ASSUME TypeInv, ConstantAssumption, NEW p \in Procs, GiveUp(p)
    PROVE  TypeInv'
<1>a. CallType' /\ WriterType' /\ JobOK'
  BY LeaveType DEF GiveUp, End
<1>1. StoreType'
  BY DEF GiveUp, storeVars, TypeInv, TypeOK, StoreType
<1>2. SharedType'
  BY DEF GiveUp, Lock, Unlock, TypeInv, TypeOK, SharedType
<1> QED BY <1>1, <1>2, <1>a DEF TypeInv, TypeOK

LEMMA FinishType ==
    ASSUME TypeInv, ConstantAssumption, NEW p \in Procs, Finish(p)
    PROVE  TypeInv'
<1>g. Goto(p, "idle")
  BY DEF Finish
<1>l. "idle" \in Places
  BY DEF Places
<1>m. pc'[p] = "idle" /\ \A q \in Procs \ {p} : pc'[q] = pc[q]
  BY <1>g, <1>l, MoveOthers
<1>p. pc' \in [Procs -> Places]
  BY <1>g, <1>l, GotoType
<1>1. StoreType'
  BY DEF Finish, storeVars, TypeInv, TypeOK, StoreType
<1>2. SharedType'
  BY DEF Finish, Lock, Unlock, TypeInv, TypeOK, SharedType
<1>3. CallType'
  BY <1>p DEF Finish, callVars, TypeInv, TypeOK, CallType
<1>4. WriterType'
  BY DEF Finish, writerVars, TypeInv, TypeOK, WriterType
<1>5. JobOK'
  <2>1. JobAt(p)'
    BY <1>m DEF Finish, JobAt, TypeInv, TypeOK, CallType, BarrierJobs, FlushJobs, SegmentJobs,
       EventJobs
  <2>2. \A q \in Procs \ {p} : job'[q] = job[q] /\ completed'[q] = completed[q]
    BY DEF Finish, writerVars, TypeInv, TypeOK, CallType, WriterType
  <2> QED BY <2>1, <2>2, <1>m, JobStep DEF TypeInv
<1> QED BY <1>1, <1>2, <1>3, <1>4, <1>5 DEF TypeInv, TypeOK

LEMMA CrashType ==
    ASSUME TypeInv, ConstantAssumption, NEW p \in Procs, Crash(p)
    PROVE  TypeInv'
<1>a. CallType' /\ WriterType' /\ JobOK'
  BY LeaveType DEF Crash
<1>1. StoreType'
  BY DEF Crash, storeVars, TypeInv, TypeOK, StoreType
<1>2. SharedType'
  BY DEF Crash, Lock, Unlock, TypeInv, TypeOK, SharedType
<1> QED BY <1>1, <1>2, <1>a DEF TypeInv, TypeOK

(* Every action keeps the types, the start has them. *)
LEMMA InitType ==
    ASSUME ConstantAssumption, Init
    PROVE  TypeInv
<1>1. StoreType
  BY DEF Init, StoreType
<1>2. SharedType
  BY DEF Init, SharedType
<1>3. Fresh \in CheckpointType
  BY DEF Fresh, CheckpointType
<1>4. CallType
  BY <1>3 DEF Init, CallType, Places
<1>5. NoSnap \in [rev: Nat, seq: Nat]
  BY DEF NoSnap
<1>6. WriterType
  BY <1>5 DEF Init, WriterType
<1>7. JobOK
  BY DEF Init, JobOK, JobAt
<1> QED BY <1>1, <1>2, <1>4, <1>6, <1>7 DEF TypeInv, TypeOK

LEMMA StutterType ==
    ASSUME TypeInv, UNCHANGED vars
    PROVE  TypeInv'
<1>1. StoreType'
  BY DEF vars, storeVars, TypeInv, TypeOK, StoreType
<1>2. SharedType'
  BY DEF vars, TypeInv, TypeOK, SharedType
<1>3. CallType'
  BY DEF vars, callVars, TypeInv, TypeOK, CallType
<1>4. WriterType'
  BY DEF vars, writerVars, TypeInv, TypeOK, WriterType
<1>5. JobOK'
  BY DEF vars, writerVars, TypeInv, JobOK, JobAt
<1> QED BY <1>1, <1>2, <1>3, <1>4, <1>5 DEF TypeInv, TypeOK

LEMMA NextType ==
    ASSUME TypeInv, ConstantAssumption, [Next]_vars
    PROVE  TypeInv'
<1>1. CASE UNCHANGED vars
  BY <1>1, StutterType
<1>2. ASSUME NEW p \in Procs, Start(p) \/ Recover(p)
      PROVE  TypeInv'
  BY <1>2, StartType, RecoverType
<1>3. ASSUME NEW p \in Procs, Progress(p)
      PROVE  TypeInv'
  BY <1>3, LookupType, ReuseType, BeginType, OpenType, AnnounceType, EvaluateType, TellType,
     EnterBarrierType, StageType, FlushType, EnterEventType, SnapshotType, CommitType,
     RejectType, ClearType, RecordType, NotifyType, GiveUpType, FinishType DEF Progress
<1>4. ASSUME NEW p \in Procs, Disturbance(p)
      PROVE  TypeInv'
  BY <1>4, CommitErrorType, FactErrorType, FaultType, CallbackRaisesType, InterruptType,
     CrashType DEF Disturbance
<1> QED BY <1>1, <1>2, <1>3, <1>4 DEF Next

(* Every variable of the writer, the store and the calls keeps its shape, for *)
(* any number of callers, tasks, generations and calls, under every fault.    *)
THEOREM TypeCorrect == Spec => []TypeOK
<1>1. Init => TypeInv
  BY ConstantAssumption, InitType
<1>2. TypeInv /\ [Next]_vars => TypeInv'
  BY ConstantAssumption, NextType
<1>3. TypeInv => TypeOK
  BY DEF TypeInv
<1> QED BY <1>1, <1>2, <1>3, PTL DEF Spec


-----------------------------------------------------------------------------
(* The lock and the snapshot *)

FreshInv == TypeInv /\ LockOK /\ SnapshotFresh

(* What a step of one caller does to the others and to the lock. *)
Others(p) ==
    \A q \in Procs \ {p} : pc'[q] = pc[q] /\ snap'[q] = snap[q]

LockMove(p) ==
    \/ planLock' = planLock /\ (pc'[p] \in Holding => pc[p] \in Holding)
    \/ planLock = {} /\ planLock' = {p}
    \/ pc[p] \in Holding /\ planLock' = {} /\ pc'[p] \notin Holding
    \/ planLock' = planLock \ {p} /\ pc'[p] \notin Holding

(* A caller writes only while no other is inside its critical section, and    *)
(* enters its transaction straight from the snapshot.                         *)
StoreMove(p) ==
    /\ UNCHANGED <<history, nextSeq>> \/ planLock \in {{}, {p}}
    /\ pc'[p] = "commit" => /\ UNCHANGED <<history, nextSeq>>
                            /\ snap'[p].rev = Len(history[TaskOf[p]])
                            /\ snap'[p].seq = nextSeq[TaskOf[p]]

LEMMA FreshStep ==
    ASSUME FreshInv, NEW p \in Procs, Others(p), LockMove(p), StoreMove(p)
    PROVE  LockOK' /\ SnapshotFresh'
<1>1. LockOK'
  BY DEF FreshInv, LockOK, Others, LockMove
<1>2. SnapshotFresh'
  <2>1. ASSUME NEW q \in Procs, pc'[q] = "commit", q # p
        PROVE  /\ snap'[q].rev = Len(history'[TaskOf[q]])
               /\ snap'[q].seq = nextSeq'[TaskOf[q]]
    <3>1. pc[q] = "commit" /\ snap'[q] = snap[q]
      BY <2>1 DEF Others
    <3>2. planLock = {q}
      BY <3>1 DEF FreshInv, LockOK, Holding
    <3>3. UNCHANGED <<history, nextSeq>>
      BY <3>2, <2>1 DEF StoreMove
    <3> QED BY <3>1, <3>3 DEF FreshInv, SnapshotFresh
  <2>2. ASSUME pc'[p] = "commit"
        PROVE  /\ snap'[p].rev = Len(history'[TaskOf[p]])
               /\ snap'[p].seq = nextSeq'[TaskOf[p]]
    BY <2>2 DEF StoreMove
  <2> QED BY <2>1, <2>2 DEF SnapshotFresh
<1> QED BY <1>1, <1>2

(* An exception gives the lock back. *)
LEMMA EscapeMove ==
    ASSUME TypeInv, NEW p \in Procs, pc[p] \in Holding, NEW outcome, NEW buffered, NEW links,
           Escape(p, outcome, buffered, links)
    PROVE  Others(p) /\ LockMove(p) /\ pc'[p] # "commit"
BY SMTT(30) DEF Escape, End, Forget, Goto, Unlock, Others, LockMove, Holding,
       TypeInv, TypeOK, CallType, WriterType

LEMMA LeaveMove ==
    ASSUME TypeInv, NEW p \in Procs, Forget(p), NEW label \in {"finish", "idle"}, Goto(p, label)
    PROVE  Others(p) /\ pc'[p] = label
BY DEF Forget, Goto, Others, TypeInv, TypeOK, CallType, WriterType

LEMMA StartMove ==
    ASSUME FreshInv, ConstantAssumption, NEW p \in Procs, Start(p)
    PROVE  Others(p) /\ LockMove(p) /\ StoreMove(p)
<1>1. Others(p)
  BY DEF Start, End, Forget, Goto, Others, FreshInv, TypeInv, TypeOK, CallType, WriterType,
     writerVars
<1>2. pc'[p] # "commit"
  BY DEF Start, End, Goto, FreshInv, TypeInv, TypeOK, CallType, writerVars
<1>3. LockMove(p)
  BY <1>2 DEF Start, End, Goto, Lock, Unlock, LockMove, Holding, FreshInv, TypeInv, TypeOK,
     CallType, writerVars
<1>4. UNCHANGED <<history, nextSeq>> \/ planLock \in {{}, {p}}
  BY DEF Start, storeVars, FreshInv, LockOK, Holding
<1> QED BY <1>1, <1>2, <1>3, <1>4 DEF StoreMove

LEMMA RecoverMove ==
    ASSUME FreshInv, ConstantAssumption, NEW p \in Procs, Recover(p)
    PROVE  Others(p) /\ LockMove(p) /\ StoreMove(p)
<1>1. Others(p)
  BY DEF Recover, End, Forget, Goto, Others, FreshInv, TypeInv, TypeOK, CallType, WriterType,
     writerVars
<1>2. pc'[p] # "commit"
  BY DEF Recover, End, Goto, FreshInv, TypeInv, TypeOK, CallType, writerVars
<1>3. LockMove(p)
  BY <1>2 DEF Recover, End, Goto, Lock, Unlock, LockMove, Holding, FreshInv, TypeInv, TypeOK,
     CallType, writerVars
<1>4. UNCHANGED <<history, nextSeq>> \/ planLock \in {{}, {p}}
  BY DEF Recover, storeVars, FreshInv, LockOK, Holding
<1> QED BY <1>1, <1>2, <1>3, <1>4 DEF StoreMove

LEMMA LookupMove ==
    ASSUME FreshInv, ConstantAssumption, NEW p \in Procs, Lookup(p)
    PROVE  Others(p) /\ LockMove(p) /\ StoreMove(p)
<1>1. Others(p)
  BY DEF Lookup, End, Forget, Goto, Others, FreshInv, TypeInv, TypeOK, CallType, WriterType
<1>2. pc'[p] # "commit"
  BY DEF Lookup, End, Goto, FreshInv, TypeInv, TypeOK, CallType
<1>3. LockMove(p)
  BY <1>2 DEF Lookup, End, Goto, Lock, Unlock, LockMove, Holding, FreshInv, TypeInv, TypeOK,
     CallType
<1>4. UNCHANGED <<history, nextSeq>> \/ planLock \in {{}, {p}}
  BY DEF Lookup, storeVars, FreshInv, LockOK, Holding
<1> QED BY <1>1, <1>2, <1>3, <1>4 DEF StoreMove

LEMMA ReuseMove ==
    ASSUME FreshInv, ConstantAssumption, NEW p \in Procs, Reuse(p)
    PROVE  Others(p) /\ LockMove(p) /\ StoreMove(p)
<1>1. Others(p)
  BY DEF Reuse, End, Forget, Goto, Others, FreshInv, TypeInv, TypeOK, CallType, WriterType
<1>2. pc'[p] # "commit"
  BY DEF Reuse, End, Goto, FreshInv, TypeInv, TypeOK, CallType
<1>3. LockMove(p)
  BY <1>2 DEF Reuse, End, Goto, Lock, Unlock, LockMove, Holding, FreshInv, TypeInv, TypeOK,
     CallType
<1>4. UNCHANGED <<history, nextSeq>> \/ planLock \in {{}, {p}}
  BY DEF Reuse, storeVars, FreshInv, LockOK, Holding
<1> QED BY <1>1, <1>2, <1>3, <1>4 DEF StoreMove

LEMMA BeginMove ==
    ASSUME FreshInv, ConstantAssumption, NEW p \in Procs, Begin(p)
    PROVE  Others(p) /\ LockMove(p) /\ StoreMove(p)
<1>1. Others(p)
  BY DEF Begin, End, Forget, Goto, Others, FreshInv, TypeInv, TypeOK, CallType, WriterType
<1>2. pc'[p] # "commit"
  BY DEF Begin, End, Goto, FreshInv, TypeInv, TypeOK, CallType
<1>3. LockMove(p)
  BY <1>2 DEF Begin, End, Goto, Lock, Unlock, LockMove, Holding, FreshInv, TypeInv, TypeOK,
     CallType
<1>4. UNCHANGED <<history, nextSeq>> \/ planLock \in {{}, {p}}
  BY DEF Begin, storeVars, FreshInv, LockOK, Holding
<1> QED BY <1>1, <1>2, <1>3, <1>4 DEF StoreMove

LEMMA OpenMove ==
    ASSUME FreshInv, ConstantAssumption, NEW p \in Procs, Open(p)
    PROVE  Others(p) /\ LockMove(p) /\ StoreMove(p)
<1>1. Others(p)
  BY DEF Open, End, Forget, Goto, Others, FreshInv, TypeInv, TypeOK, CallType, WriterType
<1>2. pc'[p] # "commit"
  BY DEF Open, End, Goto, FreshInv, TypeInv, TypeOK, CallType
<1>3. LockMove(p)
  BY <1>2 DEF Open, End, Goto, Lock, Unlock, LockMove, Holding, FreshInv, TypeInv, TypeOK,
     CallType
<1>4. UNCHANGED <<history, nextSeq>> \/ planLock \in {{}, {p}}
  BY DEF Open, storeVars, FreshInv, LockOK, Holding
<1> QED BY <1>1, <1>2, <1>3, <1>4 DEF StoreMove

LEMMA AnnounceMove ==
    ASSUME FreshInv, ConstantAssumption, NEW p \in Procs, Announce(p)
    PROVE  Others(p) /\ LockMove(p) /\ StoreMove(p)
<1>1. Others(p)
  BY DEF Announce, End, Forget, Goto, Others, FreshInv, TypeInv, TypeOK, CallType, WriterType
<1>2. pc'[p] # "commit"
  BY DEF Announce, End, Goto, FreshInv, TypeInv, TypeOK, CallType
<1>3. LockMove(p)
  BY <1>2 DEF Announce, End, Goto, Lock, Unlock, LockMove, Holding, FreshInv, TypeInv, TypeOK,
     CallType
<1>4. UNCHANGED <<history, nextSeq>> \/ planLock \in {{}, {p}}
  BY DEF Announce, storeVars, FreshInv, LockOK, Holding
<1> QED BY <1>1, <1>2, <1>3, <1>4 DEF StoreMove

LEMMA EvaluateMove ==
    ASSUME FreshInv, ConstantAssumption, NEW p \in Procs, Evaluate(p)
    PROVE  Others(p) /\ LockMove(p) /\ StoreMove(p)
<1>1. Others(p)
  BY DEF Evaluate, End, Forget, Goto, Others, FreshInv, TypeInv, TypeOK, CallType, WriterType
<1>2. pc'[p] # "commit"
  BY DEF Evaluate, End, Goto, FreshInv, TypeInv, TypeOK, CallType
<1>3. LockMove(p)
  BY <1>2 DEF Evaluate, End, Goto, Lock, Unlock, LockMove, Holding, FreshInv, TypeInv, TypeOK,
     CallType
<1>4. UNCHANGED <<history, nextSeq>> \/ planLock \in {{}, {p}}
  BY DEF Evaluate, storeVars, FreshInv, LockOK, Holding
<1> QED BY <1>1, <1>2, <1>3, <1>4 DEF StoreMove

LEMMA TellMove ==
    ASSUME FreshInv, ConstantAssumption, NEW p \in Procs, Tell(p)
    PROVE  Others(p) /\ LockMove(p) /\ StoreMove(p)
<1>1. Others(p)
  BY DEF Tell, End, Forget, Goto, Others, FreshInv, TypeInv, TypeOK, CallType, WriterType
<1>2. pc'[p] # "commit"
  BY DEF Tell, End, Goto, FreshInv, TypeInv, TypeOK, CallType
<1>3. LockMove(p)
  BY <1>2 DEF Tell, End, Goto, Lock, Unlock, LockMove, Holding, FreshInv, TypeInv, TypeOK,
     CallType
<1>4. UNCHANGED <<history, nextSeq>> \/ planLock \in {{}, {p}}
  BY DEF Tell, storeVars, FreshInv, LockOK, Holding
<1> QED BY <1>1, <1>2, <1>3, <1>4 DEF StoreMove

LEMMA EnterBarrierMove ==
    ASSUME FreshInv, ConstantAssumption, NEW p \in Procs, EnterBarrier(p)
    PROVE  Others(p) /\ LockMove(p) /\ StoreMove(p)
<1>1. Others(p)
  BY DEF EnterBarrier, End, Forget, Goto, Others, FreshInv, TypeInv, TypeOK, CallType,
     WriterType
<1>2. pc'[p] # "commit"
  BY DEF EnterBarrier, End, Goto, FreshInv, TypeInv, TypeOK, CallType
<1>3. LockMove(p)
  BY <1>2 DEF EnterBarrier, End, Goto, Lock, Unlock, LockMove, Holding, FreshInv, TypeInv,
     TypeOK, CallType
<1>4. UNCHANGED <<history, nextSeq>> \/ planLock \in {{}, {p}}
  BY DEF EnterBarrier, storeVars, FreshInv, LockOK, Holding
<1> QED BY <1>1, <1>2, <1>3, <1>4 DEF StoreMove

LEMMA StageMove ==
    ASSUME FreshInv, ConstantAssumption, NEW p \in Procs, Stage(p)
    PROVE  Others(p) /\ LockMove(p) /\ StoreMove(p)
<1>1. Others(p)
  BY DEF Stage, End, Forget, Goto, Others, FreshInv, TypeInv, TypeOK, CallType, WriterType
<1>2. pc'[p] # "commit"
  BY DEF Stage, End, Goto, FreshInv, TypeInv, TypeOK, CallType
<1>3. LockMove(p)
  BY <1>2 DEF Stage, End, Goto, Lock, Unlock, LockMove, Holding, FreshInv, TypeInv, TypeOK,
     CallType
<1>4. UNCHANGED <<history, nextSeq>> \/ planLock \in {{}, {p}}
  BY DEF Stage, storeVars, FreshInv, LockOK, Holding
<1> QED BY <1>1, <1>2, <1>3, <1>4 DEF StoreMove

LEMMA FlushMove ==
    ASSUME FreshInv, ConstantAssumption, NEW p \in Procs, Flush(p)
    PROVE  Others(p) /\ LockMove(p) /\ StoreMove(p)
<1>1. Others(p)
  BY DEF Flush, End, Forget, Goto, Others, FreshInv, TypeInv, TypeOK, CallType, WriterType
<1>2. pc'[p] # "commit"
  BY DEF Flush, End, Goto, FreshInv, TypeInv, TypeOK, CallType
<1>3. LockMove(p)
  BY <1>2 DEF Flush, End, Goto, Lock, Unlock, LockMove, Holding, FreshInv, TypeInv, TypeOK,
     CallType
<1>4. UNCHANGED <<history, nextSeq>> \/ planLock \in {{}, {p}}
  BY DEF Flush, storeVars, FreshInv, LockOK, Holding
<1> QED BY <1>1, <1>2, <1>3, <1>4 DEF StoreMove

LEMMA EnterEventMove ==
    ASSUME FreshInv, ConstantAssumption, NEW p \in Procs, EnterEvent(p)
    PROVE  Others(p) /\ LockMove(p) /\ StoreMove(p)
<1>1. Others(p)
  BY DEF EnterEvent, End, Forget, Goto, Others, FreshInv, TypeInv, TypeOK, CallType, WriterType
<1>2. pc'[p] # "commit"
  BY DEF EnterEvent, End, Goto, FreshInv, TypeInv, TypeOK, CallType
<1>3. LockMove(p)
  BY <1>2 DEF EnterEvent, End, Goto, Lock, Unlock, LockMove, Holding, FreshInv, TypeInv, TypeOK,
     CallType
<1>4. UNCHANGED <<history, nextSeq>> \/ planLock \in {{}, {p}}
  BY DEF EnterEvent, storeVars, FreshInv, LockOK, Holding
<1> QED BY <1>1, <1>2, <1>3, <1>4 DEF StoreMove

LEMMA CommitMove ==
    ASSUME FreshInv, ConstantAssumption, NEW p \in Procs, Commit(p)
    PROVE  Others(p) /\ LockMove(p) /\ StoreMove(p)
<1>1. Others(p)
  BY DEF Commit, End, Forget, Goto, Others, FreshInv, TypeInv, TypeOK, CallType, WriterType
<1>2. pc'[p] # "commit"
  BY DEF Commit, End, Goto, FreshInv, TypeInv, TypeOK, CallType
<1>3. LockMove(p)
  BY <1>2 DEF Commit, End, Goto, Lock, Unlock, LockMove, Holding, FreshInv, TypeInv, TypeOK,
     CallType
<1>4. UNCHANGED <<history, nextSeq>> \/ planLock \in {{}, {p}}
  BY DEF Commit, storeVars, FreshInv, LockOK, Holding
<1> QED BY <1>1, <1>2, <1>3, <1>4 DEF StoreMove

LEMMA ClearMove ==
    ASSUME FreshInv, ConstantAssumption, NEW p \in Procs, Clear(p)
    PROVE  Others(p) /\ LockMove(p) /\ StoreMove(p)
<1>1. Others(p)
  BY DEF Clear, End, Forget, Goto, Others, FreshInv, TypeInv, TypeOK, CallType, WriterType
<1>2. pc'[p] # "commit"
  BY DEF Clear, End, Goto, FreshInv, TypeInv, TypeOK, CallType
<1>3. LockMove(p)
  BY <1>2 DEF Clear, End, Goto, Lock, Unlock, LockMove, Holding, FreshInv, TypeInv, TypeOK,
     CallType
<1>4. UNCHANGED <<history, nextSeq>> \/ planLock \in {{}, {p}}
  BY DEF Clear, storeVars, FreshInv, LockOK, Holding
<1> QED BY <1>1, <1>2, <1>3, <1>4 DEF StoreMove

LEMMA RecordMove ==
    ASSUME FreshInv, ConstantAssumption, NEW p \in Procs, Record(p)
    PROVE  Others(p) /\ LockMove(p) /\ StoreMove(p)
<1>1. Others(p)
  BY DEF Record, End, Forget, Goto, Others, FreshInv, TypeInv, TypeOK, CallType, WriterType
<1>2. pc'[p] # "commit"
  BY DEF Record, End, Goto, FreshInv, TypeInv, TypeOK, CallType
<1>3. LockMove(p)
  BY <1>2 DEF Record, End, Goto, Lock, Unlock, LockMove, Holding, FreshInv, TypeInv, TypeOK,
     CallType
<1>4. UNCHANGED <<history, nextSeq>> \/ planLock \in {{}, {p}}
  BY DEF Record, storeVars, FreshInv, LockOK, Holding
<1> QED BY <1>1, <1>2, <1>3, <1>4 DEF StoreMove

LEMMA NotifyMove ==
    ASSUME FreshInv, ConstantAssumption, NEW p \in Procs, Notify(p)
    PROVE  Others(p) /\ LockMove(p) /\ StoreMove(p)
<1>1. Others(p)
  BY SMTT(30) DEF Notify, End, Forget, Goto, Others, FreshInv, TypeInv, TypeOK, CallType, WriterType,
     AfterNotify, JobOK, JobAt, BarrierJobs, FlushJobs, SegmentJobs, EventJobs
<1>2. pc'[p] # "commit"
  BY DEF Notify, End, Goto, FreshInv, TypeInv, TypeOK, CallType, AfterNotify, JobOK, JobAt,
     BarrierJobs, FlushJobs, SegmentJobs, EventJobs
<1>3. LockMove(p)
  BY <1>2 DEF Notify, End, Goto, Lock, Unlock, LockMove, Holding, FreshInv, TypeInv, TypeOK,
     CallType, AfterNotify, JobOK, JobAt, BarrierJobs, FlushJobs, SegmentJobs, EventJobs
<1>4. UNCHANGED <<history, nextSeq>> \/ planLock \in {{}, {p}}
  BY DEF Notify, storeVars, FreshInv, LockOK, Holding
<1> QED BY <1>1, <1>2, <1>3, <1>4 DEF StoreMove

LEMMA CallbackRaisesMove ==
    ASSUME FreshInv, ConstantAssumption, NEW p \in Procs, CallbackRaises(p)
    PROVE  Others(p) /\ LockMove(p) /\ StoreMove(p)
<1>1. Others(p)
  BY DEF CallbackRaises, End, Forget, Goto, Others, FreshInv, TypeInv, TypeOK, CallType,
     WriterType
<1>2. pc'[p] # "commit"
  BY DEF CallbackRaises, End, Goto, FreshInv, TypeInv, TypeOK, CallType
<1>3. LockMove(p)
  BY <1>2 DEF CallbackRaises, End, Goto, Lock, Unlock, LockMove, Holding, FreshInv, TypeInv,
     TypeOK, CallType
<1>4. UNCHANGED <<history, nextSeq>> \/ planLock \in {{}, {p}}
  BY DEF CallbackRaises, storeVars, FreshInv, LockOK, Holding
<1> QED BY <1>1, <1>2, <1>3, <1>4 DEF StoreMove

LEMMA FaultMove ==
    ASSUME FreshInv, ConstantAssumption, NEW p \in Procs, Fault(p)
    PROVE  Others(p) /\ LockMove(p) /\ StoreMove(p)
<1>1. Others(p)
  BY DEF Fault, End, Forget, Goto, Others, FreshInv, TypeInv, TypeOK, CallType, WriterType
<1>2. pc'[p] # "commit"
  BY DEF Fault, End, Goto, FreshInv, TypeInv, TypeOK, CallType
<1>3. LockMove(p)
  BY <1>2 DEF Fault, End, Goto, Lock, Unlock, LockMove, Holding, FreshInv, TypeInv, TypeOK,
     CallType
<1>4. UNCHANGED <<history, nextSeq>> \/ planLock \in {{}, {p}}
  BY DEF Fault, storeVars, FreshInv, LockOK, Holding
<1> QED BY <1>1, <1>2, <1>3, <1>4 DEF StoreMove

LEMMA FactErrorMove ==
    ASSUME FreshInv, ConstantAssumption, NEW p \in Procs, FactError(p)
    PROVE  Others(p) /\ LockMove(p) /\ StoreMove(p)
<1>1. Others(p)
  BY DEF FactError, End, Forget, Goto, Others, FreshInv, TypeInv, TypeOK, CallType, WriterType
<1>2. pc'[p] # "commit"
  BY DEF FactError, End, Goto, FreshInv, TypeInv, TypeOK, CallType
<1>3. LockMove(p)
  BY <1>2 DEF FactError, End, Goto, Lock, Unlock, LockMove, Holding, FreshInv, TypeInv, TypeOK,
     CallType
<1>4. UNCHANGED <<history, nextSeq>> \/ planLock \in {{}, {p}}
  BY DEF FactError, storeVars, FreshInv, LockOK, Holding
<1> QED BY <1>1, <1>2, <1>3, <1>4 DEF StoreMove

LEMMA GiveUpMove ==
    ASSUME FreshInv, ConstantAssumption, NEW p \in Procs, GiveUp(p)
    PROVE  Others(p) /\ LockMove(p) /\ StoreMove(p)
<1>1. Others(p)
  BY DEF GiveUp, End, Forget, Goto, Others, FreshInv, TypeInv, TypeOK, CallType, WriterType
<1>2. pc'[p] # "commit"
  BY DEF GiveUp, End, Goto, FreshInv, TypeInv, TypeOK, CallType
<1>3. LockMove(p)
  BY <1>2 DEF GiveUp, End, Goto, Lock, Unlock, LockMove, Holding, FreshInv, TypeInv, TypeOK,
     CallType
<1>4. UNCHANGED <<history, nextSeq>> \/ planLock \in {{}, {p}}
  BY DEF GiveUp, storeVars, FreshInv, LockOK, Holding
<1> QED BY <1>1, <1>2, <1>3, <1>4 DEF StoreMove

LEMMA FinishMove ==
    ASSUME FreshInv, ConstantAssumption, NEW p \in Procs, Finish(p)
    PROVE  Others(p) /\ LockMove(p) /\ StoreMove(p)
<1>1. Others(p)
  BY DEF Finish, End, Forget, Goto, Others, FreshInv, TypeInv, TypeOK, CallType, WriterType
<1>2. pc'[p] # "commit"
  BY DEF Finish, End, Goto, FreshInv, TypeInv, TypeOK, CallType
<1>3. LockMove(p)
  BY <1>2 DEF Finish, End, Goto, Lock, Unlock, LockMove, Holding, FreshInv, TypeInv, TypeOK,
     CallType
<1>4. UNCHANGED <<history, nextSeq>> \/ planLock \in {{}, {p}}
  BY DEF Finish, storeVars, FreshInv, LockOK, Holding
<1> QED BY <1>1, <1>2, <1>3, <1>4 DEF StoreMove

LEMMA CrashMove ==
    ASSUME FreshInv, ConstantAssumption, NEW p \in Procs, Crash(p)
    PROVE  Others(p) /\ LockMove(p) /\ StoreMove(p)
<1>1. Others(p)
  BY DEF Crash, End, Forget, Goto, Others, FreshInv, TypeInv, TypeOK, CallType, WriterType
<1>2. pc'[p] # "commit"
  BY DEF Crash, End, Goto, FreshInv, TypeInv, TypeOK, CallType
<1>3. LockMove(p)
  BY <1>2 DEF Crash, End, Goto, Lock, Unlock, LockMove, Holding, FreshInv, TypeInv, TypeOK,
     CallType
<1>4. UNCHANGED <<history, nextSeq>> \/ planLock \in {{}, {p}}
  BY DEF Crash, storeVars, FreshInv, LockOK, Holding
<1> QED BY <1>1, <1>2, <1>3, <1>4 DEF StoreMove

LEMMA SnapshotMove ==
    ASSUME FreshInv, ConstantAssumption, NEW p \in Procs, Snapshot(p)
    PROVE  Others(p) /\ LockMove(p) /\ StoreMove(p)
<1>1. pc[p] \in Holding /\ UNCHANGED <<history, nextSeq>>
  BY DEF Snapshot, Holding, storeVars
<1>2. CASE Raise(p, "none")
  BY <1>1, <1>2, EscapeMove DEF Raise, FreshInv, StoreMove
<1>3. CASE ~Raise(p, "none")
  <2>1. /\ snap' = [snap EXCEPT ![p] = [rev |-> Len(history[TaskOf[p]]), seq |-> nextSeq[TaskOf[p]]]]
        /\ Goto(p, "commit") /\ planLock' = planLock
    BY <1>3 DEF Snapshot
  <2>2. Others(p)
    BY <2>1 DEF Goto, Others, FreshInv, TypeInv, TypeOK, CallType, WriterType
  <2>3. LockMove(p)
    BY <1>1, <2>1 DEF LockMove
  <2>4. StoreMove(p)
    BY <1>1, <2>1 DEF StoreMove, FreshInv, TypeInv, TypeOK, WriterType
  <2> QED BY <2>2, <2>3, <2>4
<1> QED BY <1>2, <1>3

LEMMA RejectMove ==
    ASSUME FreshInv, ConstantAssumption, NEW p \in Procs, Reject(p)
    PROVE  Others(p) /\ LockMove(p) /\ StoreMove(p)
<1>1. pc[p] \in Holding /\ UNCHANGED <<history, nextSeq>>
  BY DEF Reject, Holding, storeVars
<1> QED BY <1>1, EscapeMove DEF Reject, Raise, FreshInv, StoreMove

LEMMA CommitErrorMove ==
    ASSUME FreshInv, ConstantAssumption, NEW p \in Procs, CommitError(p)
    PROVE  Others(p) /\ LockMove(p) /\ StoreMove(p)
<1>1. pc[p] \in Holding /\ planLock = {p}
  BY DEF CommitError, Holding, FreshInv, LockOK
<1>2. PICK outcome \in {"committed", "not_committed", "unknown"} : Raise(p, outcome)
  BY DEF CommitError
<1> QED BY <1>1, <1>2, EscapeMove DEF Raise, FreshInv, StoreMove

LEMMA InterruptMove ==
    ASSUME FreshInv, ConstantAssumption, NEW p \in Procs, Interrupt(p)
    PROVE  Others(p) /\ LockMove(p) /\ StoreMove(p)
<1>1. pc[p] \in Holding /\ UNCHANGED <<history, nextSeq>>
  BY DEF Interrupt, Holding, storeVars
<1>2. PICK outcome \in {"none", "not_committed"}, buffered \in {pending[p], <<>>},
           links \in {chain[p], ChainAfter(chain[p], PublishedSegments(p))} :
              Escape(p, outcome, buffered, links)
  BY DEF Interrupt, Raise
<1> QED BY <1>1, <1>2, EscapeMove DEF FreshInv, StoreMove

LEMMA StepMove ==
    ASSUME FreshInv, ConstantAssumption, NEW p \in Procs,
           Start(p) \/ Recover(p) \/ Progress(p) \/ Disturbance(p)
    PROVE  Others(p) /\ LockMove(p) /\ StoreMove(p)
<1>1. CASE Start(p) \/ Recover(p)
  BY <1>1, StartMove, RecoverMove
<1>2. CASE Progress(p)
  BY <1>2, LookupMove, ReuseMove, BeginMove, OpenMove, AnnounceMove, EvaluateMove, TellMove,
     EnterBarrierMove, StageMove, FlushMove, EnterEventMove, SnapshotMove, CommitMove,
     RejectMove, ClearMove, RecordMove, NotifyMove, GiveUpMove, FinishMove DEF Progress
<1>3. CASE Disturbance(p)
  BY <1>3, CommitErrorMove, FactErrorMove, FaultMove, CallbackRaisesMove, InterruptMove,
     CrashMove DEF Disturbance
<1> QED BY <1>1, <1>2, <1>3

LEMMA NextFresh ==
    ASSUME FreshInv, ConstantAssumption, [Next]_vars
    PROVE  FreshInv'
<1>1. TypeInv'
  BY NextType DEF FreshInv
<1>2. CASE UNCHANGED vars
  BY <1>1, <1>2 DEF vars, storeVars, FreshInv, LockOK, SnapshotFresh
<1>3. ASSUME NEW p \in Procs, Start(p) \/ Recover(p) \/ Progress(p) \/ Disturbance(p)
      PROVE  LockOK' /\ SnapshotFresh'
  BY <1>3, StepMove, FreshStep
<1> QED BY <1>1, <1>2, <1>3 DEF Next, FreshInv

LEMMA InitFresh ==
    ASSUME ConstantAssumption, Init
    PROVE  FreshInv
BY InitType DEF Init, FreshInv, LockOK, SnapshotFresh, Holding

(* Whoever is between taking and releasing the Plan lock holds it alone. *)
THEOREM MutualExclusion == Spec => []LockOK
<1>1. Init => FreshInv
  BY ConstantAssumption, InitFresh
<1>2. FreshInv /\ [Next]_vars => FreshInv'
  BY ConstantAssumption, NextFresh
<1>3. FreshInv => LockOK
  BY DEF FreshInv
<1> QED BY <1>1, <1>2, <1>3, PTL DEF Spec

(* What _publish read before its transaction still holds when it commits: no  *)
(* interleaving of calls, crash or fault makes its revision check fail.       *)
THEOREM SnapshotStaysFresh == Spec => []SnapshotFresh
<1>1. Init => FreshInv
  BY ConstantAssumption, InitFresh
<1>2. FreshInv /\ [Next]_vars => FreshInv'
  BY ConstantAssumption, NextFresh
<1>3. FreshInv => SnapshotFresh
  BY DEF FreshInv
<1> QED BY <1>1, <1>2, <1>3, PTL DEF Spec

-----------------------------------------------------------------------------
(* Fencing *)

(* What is appended to a history only ever carries events of the attempt that *)
(* is current at that moment.                                                  *)
OfCurrent(t, ext) ==
    \A k \in 1 .. Len(ext) : IsEvent(ext[k]) => ext[k].attempt = Current(t)

Bounded ==
    \A t \in Tasks : \A i \in 1 .. Len(history[t]) :
        IsEvent(history[t][i]) => history[t][i].attempt <= Current(t)

FenceInv == TypeInv /\ FencedHistory /\ Bounded

Appends(t) ==
    \E ext \in Seq(ChangeType) : history'[t] = history[t] \o ext /\ OfCurrent(t, ext)

HistoryMove == \A t \in Tasks : Len(attempts'[t]) >= Len(attempts[t]) /\ Appends(t)

LEMMA KeepsOne ==
    ASSUME TypeInv, NEW t \in Tasks, history'[t] = history[t]
    PROVE  Appends(t)
<1>1. <<>> \in Seq(ChangeType) /\ history'[t] = history[t] \o <<>>
  BY ConcatEmptySeq, EmptySeq DEF TypeInv, TypeOK, StoreType
<1>2. OfCurrent(t, <<>>)
  BY DEF OfCurrent
<1> QED BY <1>1, <1>2 DEF Appends

(* A change that is not an event is not fenced. *)
LEMMA OneChange ==
    ASSUME TypeInv, NEW u \in Tasks, NEW c \in ChangeType, ~IsEvent(c),
           history' \in {history, [history EXCEPT ![u] = Append(@, c)]}
    PROVE  \A t \in Tasks : Appends(t)
<1>1. history \in [Tasks -> Seq(ChangeType)]
  BY DEF TypeInv, TypeOK, StoreType
<1>2. ASSUME NEW t \in Tasks, history'[t] = history[t]
      PROVE  Appends(t)
  BY <1>2, KeepsOne
<1>3. ASSUME history' = [history EXCEPT ![u] = Append(@, c)]
      PROVE  Appends(u)
  <2>1. history'[u] = history[u] \o <<c>>
    BY <1>1, <1>3, AppendIsConcat
  <2>2. <<c>> \in Seq(ChangeType) /\ Len(<<c>>) = 1 /\ <<c>>[1] = c
    OBVIOUS
  <2>3. OfCurrent(u, <<c>>)
    BY <2>2 DEF OfCurrent
  <2> QED BY <2>1, <2>2, <2>3 DEF Appends
<1>4. \A t \in Tasks \ {u} : history'[t] = history[t]
  BY <1>1
<1> QED BY <1>1, <1>2, <1>3, <1>4

LEMMA NoChange ==
    ASSUME TypeInv, UNCHANGED <<history, attempts>>
    PROVE  HistoryMove
<1>1. \A t \in Tasks : Len(attempts'[t]) >= Len(attempts[t])
  BY LenProperties DEF TypeInv, TypeOK, StoreType
<1> QED BY <1>1, KeepsOne DEF HistoryMove

(* Starting an attempt appends to the list of attempts. *)
LEMMA OneAttempt ==
    ASSUME TypeInv, NEW u \in Tasks, NEW fact \in AttemptType,
           attempts' \in {attempts, [attempts EXCEPT ![u] = Append(@, fact)]}
    PROVE  \A t \in Tasks : Len(attempts'[t]) >= Len(attempts[t])
<1>1. attempts \in [Tasks -> Seq(AttemptType)]
  BY DEF TypeInv, TypeOK, StoreType
<1>2. Len(Append(attempts[u], fact)) = Len(attempts[u]) + 1
  BY <1>1, AppendProperties
<1>3. \A t \in Tasks : Len(attempts[t]) \in Nat
  BY <1>1, LenProperties
<1> QED BY <1>1, <1>2, <1>3

(* A publication is accepted from the current attempt only. *)
LEMMA PublishMove ==
    ASSUME TypeInv, ConstantAssumption, NEW p \in Procs, pc[p] = "commit", PublishAccepted(p),
           Publish(p)
    PROVE  HistoryMove
<1> DEFINE t == TaskOf[p]
           ext == NewChanges(p)
<1>1. t \in Tasks /\ history \in [Tasks -> Seq(ChangeType)] /\ attempt[p] \in Nat
  BY DEF ConstantAssumption, TypeInv, TypeOK, StoreType, CallType
<1>2. ext \in Seq(ChangeOf(attempt[p]))
  BY NewChangesType
<1>3. ext \in Seq(ChangeType)
  BY <1>1, <1>2, ChangeOfType
<1>4. \A k \in 1 .. Len(ext) : ext[k].attempt = attempt[p]
  <2>1. \A k \in 1 .. Len(ext) : ext[k] \in ChangeOf(attempt[p])
    BY <1>2, ElementOfSeq
  <2> QED BY <2>1 DEF ChangeOf
<1>5. OfCurrent(t, ext)
  BY <1>4 DEF OfCurrent, PublishAccepted
<1>6. history'[t] = history[t] \o ext /\ attempts' = attempts
  BY <1>1 DEF Publish
<1>7. \A u \in Tasks \ {t} : history'[u] = history[u]
  BY <1>1 DEF Publish
<1>8. Appends(t)
  BY <1>3, <1>5, <1>6 DEF Appends
<1>9. \A u \in Tasks : Len(attempts'[u]) >= Len(attempts[u])
  BY <1>6, LenProperties DEF TypeInv, TypeOK, StoreType
<1> QED BY <1>7, <1>8, <1>9, KeepsOne DEF HistoryMove

LEMMA StepHistory ==
    ASSUME TypeInv, ConstantAssumption, NEW p \in Procs,
           Start(p) \/ Recover(p) \/ Progress(p) \/ Disturbance(p)
    PROVE  HistoryMove
<1> DEFINE t == TaskOf[p]
           begun   == Change("attempt_begin", Len(attempts[t]) + 1, 0, NoEvent)
           fact    == [from |-> resume[p].attempt, limit |-> resume[p].seq, base |-> resume[p].gen]
           running == Change("running", attempt[p], 0, NoEvent)
           failure == Change("failure", attempt[p], gen[p], NoEvent)
<1>1. t \in Tasks
  BY DEF ConstantAssumption
<1>2. running \in ChangeType /\ failure \in ChangeType
  BY DEF Change, ChangeType, Kinds, TypeInv, TypeOK, CallType
<1>3. begun \in ChangeType
  BY <1>1, LenProperties DEF Change, ChangeType, Kinds, TypeInv, TypeOK, StoreType
<1>4. fact \in AttemptType
  BY DEF TypeInv, TypeOK, CallType, CheckpointType, AttemptType
<1>5. ~IsEvent(running) /\ ~IsEvent(failure) /\ ~IsEvent(begun)
  BY DEF IsEvent, Change
<1>6. ASSUME UNCHANGED <<history, attempts>>
      PROVE  HistoryMove
  BY <1>6, NoChange
<1>7. ASSUME NEW c \in {running, failure, begun},
             history' \in {history, [history EXCEPT ![t] = Append(@, c)]},
             attempts' \in {attempts, [attempts EXCEPT ![t] = Append(@, fact)]}
      PROVE  HistoryMove
  <2> HIDE DEF fact, running, failure, begun
  <2>1. \A u \in Tasks : Appends(u)
    BY <1>1, <1>2, <1>3, <1>5, <1>7, OneChange
  <2>2. \A u \in Tasks : Len(attempts'[u]) >= Len(attempts[u])
    BY <1>1, <1>4, <1>7, OneAttempt
  <2> QED BY <2>1, <2>2 DEF HistoryMove
<1>8. CASE Start(p) \/ Recover(p) \/ Lookup(p) \/ Reuse(p)
  BY <1>6, <1>8 DEF Start, Recover, Lookup, Reuse, storeVars
<1>9. CASE Announce(p) \/ Evaluate(p) \/ Tell(p) \/ EnterBarrier(p) \/ Stage(p) \/ Flush(p)
  BY <1>6, <1>9 DEF Announce, Evaluate, Tell, EnterBarrier, Stage, Flush, storeVars
<1>10. CASE EnterEvent(p) \/ Snapshot(p) \/ Reject(p) \/ Clear(p) \/ Notify(p) \/ GiveUp(p) \/ Finish(p)
  BY <1>6, <1>10 DEF EnterEvent, Snapshot, Reject, Clear, Notify, GiveUp, Finish, storeVars
<1>11. CASE Fault(p) \/ CallbackRaises(p) \/ Interrupt(p) \/ Crash(p)
  BY <1>6, <1>11 DEF Fault, CallbackRaises, Interrupt, Crash, storeVars
<1>12. CASE Begin(p)
  BY <1>7, <1>12 DEF Begin
<1>13. CASE Open(p)
  BY <1>7, <1>13 DEF Open
<1>14. CASE Record(p)
  BY <1>7, <1>14 DEF Record
<1>15. CASE FactError(p)
  BY <1>7, <1>15 DEF FactError
<1>16. CASE Commit(p)
  BY <1>16, PublishMove DEF Commit
<1>17. CASE CommitError(p)
  BY <1>6, <1>17, PublishMove DEF CommitError, storeVars
<1> QED
  BY <1>8, <1>9, <1>10, <1>11, <1>12, <1>13, <1>14, <1>15, <1>16, <1>17 DEF Progress,
     Disturbance

(* Appending events of the current attempt keeps the history fenced. *)
LEMMA FencedStep ==
    ASSUME FenceInv, HistoryMove, TypeInv'
    PROVE  FenceInv'
<1>1. ASSUME NEW t \in Tasks
      PROVE  /\ \A i \in 1 .. Len(history'[t]) :
                   IsEvent(history'[t][i]) => history'[t][i].attempt <= Len(attempts'[t])
             /\ \A i, j \in 1 .. Len(history'[t]) :
                   i < j /\ IsEvent(history'[t][i]) /\ IsEvent(history'[t][j])
                       => history'[t][i].attempt <= history'[t][j].attempt
  <2> DEFINE h == history[t]
             n == Len(h)
             g == history'[t]
  <2>1. PICK ext \in Seq(ChangeType) : g = h \o ext /\ OfCurrent(t, ext)
    BY DEF HistoryMove, Appends
  <2>2. h \in Seq(ChangeType)
    BY DEF FenceInv, TypeInv, TypeOK, StoreType
  <2>3. n \in Nat /\ Len(ext) \in Nat /\ Len(g) = n + Len(ext)
    BY <2>1, <2>2, ConcatProperties, LenProperties
  <2>4. \A i \in 1 .. n : g[i] = h[i]
    BY <2>1, <2>2, <2>3, ConcatProperties
  <2>5. \A i \in n + 1 .. Len(g) : IsEvent(g[i]) => g[i].attempt = Len(attempts[t])
    <3>1. \A i \in n + 1 .. Len(g) : g[i] = ext[i - n] /\ i - n \in 1 .. Len(ext)
      BY <2>1, <2>2, <2>3, ConcatProperties
    <3> QED BY <2>1, <3>1 DEF OfCurrent, Current
  <2>6. \A i \in 1 .. n : IsEvent(g[i]) => g[i].attempt <= Len(attempts[t])
    BY <2>4 DEF FenceInv, Bounded, Current
  <2>7. \A i, j \in 1 .. n : i < j /\ IsEvent(g[i]) /\ IsEvent(g[j]) => g[i].attempt <= g[j].attempt
    BY <2>2, <2>4, LenProperties DEF FenceInv, FencedHistory
  <2>8. \A i \in 1 .. Len(g) : g[i].attempt \in Nat
    <3>1. g \in Seq(ChangeType)
      BY <2>1, <2>2, ConcatProperties
    <3>2. \A i \in 1 .. Len(g) : g[i] \in ChangeType
      BY <3>1, ElementOfSeq
    <3> QED BY <3>2 DEF ChangeType
  <2>9. Len(attempts[t]) \in Nat /\ Len(attempts'[t]) \in Nat /\ Len(attempts'[t]) >= Len(attempts[t])
    BY LenProperties DEF HistoryMove, FenceInv, TypeInv, TypeOK, StoreType
  <2> HIDE DEF g, h, n
  <2>10. \A i \in 1 .. Len(g) : IsEvent(g[i]) => g[i].attempt <= Len(attempts[t])
    <3>1. ASSUME NEW i \in 1 .. Len(g), IsEvent(g[i])
          PROVE  g[i].attempt <= Len(attempts[t])
      <4>1. CASE i \in 1 .. n
        BY <2>6, <3>1, <4>1
      <4>2. CASE i \notin 1 .. n
        <5>1. i \in n + 1 .. Len(g)
          BY <2>3, <4>2
        <5> QED BY <2>5, <2>9, <3>1, <5>1
      <4> QED BY <4>1, <4>2
    <3> QED BY <3>1
  <2>11. ASSUME NEW i \in 1 .. Len(g), NEW j \in 1 .. Len(g), i < j, IsEvent(g[i]), IsEvent(g[j])
         PROVE  g[i].attempt <= g[j].attempt
    <3>1. CASE j \in 1 .. n
      <4>1. i \in 1 .. n
        BY <2>3, <2>11, <3>1
      <4> QED BY <2>7, <2>11, <3>1, <4>1
    <3>2. CASE j \notin 1 .. n
      <4>1. j \in n + 1 .. Len(g)
        BY <2>3, <3>2
      <4>2. g[j].attempt = Len(attempts[t])
        BY <2>5, <2>11, <4>1
      <4> QED BY <2>10, <2>11, <4>2
    <3> QED BY <3>1, <3>2
  <2>12. \A i \in 1 .. Len(g) : IsEvent(g[i]) => g[i].attempt <= Len(attempts'[t])
    BY <2>8, <2>9, <2>10
  <2> QED BY <2>11, <2>12 DEF g
<1>2. Bounded'
  BY <1>1 DEF Bounded, Current
<1>3. FencedHistory'
  <2>1. \A t \in Tasks : DOMAIN history'[t] = 1 .. Len(history'[t])
    BY LenProperties DEF TypeInv, TypeOK, StoreType
  <2> QED BY <1>1, <2>1 DEF FencedHistory
<1> QED BY <1>2, <1>3 DEF FenceInv

(* After the first event of a newer attempt no event of an older attempt is   *)
(* ever appended, whatever calls overlap, die, fail or are interrupted.       *)
THEOREM HistoryFenced == Spec => []FencedHistory
<1>1. Init => FenceInv
  <2>1. Init => TypeInv
    BY ConstantAssumption, InitType
  <2>2. Init => FencedHistory /\ Bounded
    BY EmptySeq DEF Init, FencedHistory, Bounded
  <2> QED BY <2>1, <2>2 DEF FenceInv
<1>2. FenceInv /\ [Next]_vars => FenceInv'
  <2> SUFFICES ASSUME FenceInv, [Next]_vars
               PROVE  FenceInv'
    OBVIOUS
  <2>1. TypeInv /\ TypeInv'
    BY ConstantAssumption, NextType DEF FenceInv
  <2>2. CASE UNCHANGED vars
    BY <2>1, <2>2, NoChange, FencedStep DEF vars, storeVars
  <2>3. ASSUME NEW p \in Procs, Start(p) \/ Recover(p) \/ Progress(p) \/ Disturbance(p)
        PROVE  FenceInv'
    BY <2>1, <2>3, ConstantAssumption, StepHistory, FencedStep
  <2> QED BY <2>2, <2>3 DEF Next
<1>3. FenceInv => FencedHistory
  BY DEF FenceInv
<1> QED BY <1>1, <1>2, <1>3, PTL DEF Spec
=============================================================================
