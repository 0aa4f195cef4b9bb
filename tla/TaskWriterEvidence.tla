------------------------- MODULE TaskWriterEvidence -------------------------
(***************************************************************************)
(* The evidence of a task and what its callers are told, for every value of *)
(* the constants: contiguous sequence numbers, and callbacks that report    *)
(* durable generations, in order.  Both hold under every crash, failed      *)
(* commit, fault and interrupt.                                             *)
(***************************************************************************)
EXTENDS TaskWriterExact

-----------------------------------------------------------------------------
(* The inductive invariant of the callbacks: what a caller has staged *)

Unclaimed == {"idle", "lookup", "reuse", "begin", "finish"}

InPublication(p) == pc[p] \in {"snapshot", "commit", "clear"}

Telling(p) == pc[p] = "notify" \/ InPublication(p)

ClaimOK(p) ==
    /\ attempt[p] = 0 <=> pc[p] \in Unclaimed
    /\ attempt[p] <= Current(TaskOf[p])
    /\ uncertain[p] # "none" => pc[p] = "failing"
    /\ pc[p] \in Unclaimed \cup {"open"} =>
          completed[p] = <<>> /\ pending[p] = <<>> /\ chain[p] = <<>> /\ latest[p] = NoState

(* A baseline is staged alone, on a fresh attempt. *)
BaselineStaged(p) ==
    /\ completed[p] = <<0>> /\ chain[p] = <<>> /\ resume[p] = Fresh /\ gen[p] = 0
    /\ \/ pc[p] = "failing"
       \/ InPublication(p) /\ job[p] \in {"baseline_ready", "flush_failure"}

GenerationsStaged(p) ==
    /\ \A i \in 1 .. Len(completed[p]) : completed[p][i] > 0
    /\ ~(InPublication(p) /\ job[p] = "baseline_ready")

StagedOK(p) ==
    /\ AtBaseline(p) => completed[p] = <<>> /\ chain[p] = <<>> /\ resume[p] = Fresh /\ gen[p] = 0
    /\ BaselineStaged(p) \/ GenerationsStaged(p)
    /\ \/ pc[p] \in {"announce", "baseline", "complete", "fail_event", "notify", "record"}
       \/ InPublication(p) /\ job[p] \in EventJobs
       => completed[p] = <<>>

(* The optimizer is past what is staged, by one generation at a barrier. *)
GenOK(p) ==
    /\ gen[p] <= MaxGen /\ (pc[p] = "evaluated" => gen[p] < MaxGen)
    /\ pc[p] = "announce" \/ (Telling(p) /\ job[p] = "resumed") =>
          gen[p] = resume[p].cma
    /\ completed[p] # <<>> => LastOf(completed[p]) <= gen[p]
    /\ AtBarrier(p) => gen[p] > 0 /\ (completed[p] # <<>> => LastOf(completed[p]) < gen[p])
    /\ \/ pc[p] = "complete"
       \/ Telling(p) /\ job[p] \in {"completed", "flush_terminal"}
       => gen[p] = MaxGen

(* The state that goes with the last staged generation, or a later one. *)
StateOK(p) ==
    /\ latest[p] # NoState => Checkpointed[TaskOf[p]] /\ latest[p] <= gen[p]
    /\ pc[p] = "staged" /\ latest[p] # NoState => latest[p] = gen[p]
    /\ Checkpointed[TaskOf[p]] /\ (completed[p] # <<>> \/ pc[p] = "staged") => latest[p] # NoState
    /\ completed[p] # <<>> /\ latest[p] # NoState => LastOf(completed[p]) <= latest[p]

ResumeOK(p) == resume[p].gen <= resume[p].cma /\ resume[p].cma <= MaxGen

(* The links of a published group end at its last generation. *)
LinkOK(p) ==
    pc[p] = "notify" /\ job[p] \in SegmentJobs =>
        /\ chain[p] # <<>> => LastOf(chain[p]) <= gen[p]
        /\ job[p] \in {"generation_ready", "flush_terminal"} => chain[p] # <<>>

StageAt(p) ==
    ClaimOK(p) /\ StagedOK(p) /\ GenOK(p) /\ StateOK(p) /\ ResumeOK(p) /\ LinkOK(p)

OneClaim == \A p, q \in Procs : TaskOf[p] = TaskOf[q] /\ attempt[p] = attempt[q] /\ attempt[p] # 0 => p = q

PointsOK ==
    \A t \in Tasks : \A i \in DOMAIN checkpoints[t] :
        LET c == checkpoints[t][i] IN
        c.attempt \in 1 .. Current(t) /\ c.gen <= c.cma /\ c.cma <= MaxGen

StageInv == TypeInv /\ OneClaim /\ PointsOK /\ \A p \in Procs : StageAt(p)

-----------------------------------------------------------------------------
(* The inductive invariant of the callbacks: what they have said *)

(* A group that is being told, and what of it. *)
Silent(p) == job[p] \in FlushJobs /\ chain[p] = <<>>

Note(p, g) == [kind |-> job[p], task |-> TaskOf[p], attempt |-> attempt[p], gen |-> g]

Durable(n) ==
    /\ \E i \in DOMAIN history[n.task] :
          LET e == history[n.task][i] IN
          /\ e.kind = NotedEvent[n.kind] /\ e.attempt = n.attempt
          /\ n.kind # "resumed" => e.gen = n.gen
    /\ Checkpointed[n.task] /\ n.kind \in SegmentJobs =>
          \E i \in DOMAIN checkpoints[n.task] :
              /\ checkpoints[n.task][i].attempt = n.attempt
              /\ checkpoints[n.task][i].gen = n.gen

AnnouncedOK(p) ==
    /\ pc[p] = "clear" /\ job[p] \in SegmentJobs /\ (completed[p] # <<0>> \/ job[p] = "baseline_ready") =>
          Durable(Note(p, LastOf(completed[p])))
    /\ pc[p] = "clear" /\ job[p] \in {"resumed", "completed"} => Durable(Note(p, gen[p]))
    /\ pc[p] = "notify" => Silent(p) \/ Durable(Note(p, NotifyGen(p)))

(* Nothing has been said of what is not published yet. *)
Quiet(p) ==
    \/ pc[p] \in {"open", "announce"} \/ AtBaseline(p)
    \/ Telling(p) /\ job[p] = "resumed"

NewsOK(p) ==
    attempt[p] # 0 =>
        \A m \in GroupNotes(TaskOf[p], attempt[p]) :
            /\ ~Quiet(p) /\ m.gen <= gen[p]
            /\ AtBarrier(p) => m.gen < gen[p]
            /\ completed[p] # <<>> => m.gen < LastOf(completed[p])
            /\ pc[p] = "notify" /\ job[p] \in SegmentJobs /\ ~Silent(p) => m.gen < NotifyGen(p)

NotesOK == \A n \in notes : n.kind \in SegmentJobs \cup {"resumed"} => n.attempt <= Current(n.task)

SelectedDone ==
    \A s \in selected : \E i \in DOMAIN history[s.task] :
        /\ history[s.task][i].kind = "completed" /\ history[s.task][i].attempt = s.attempt
        /\ history[s.task][i].gen = MaxGen

CallbackInv ==
    /\ StageInv /\ CallbackDurable /\ NotesOK /\ SelectedDone
    /\ \A p \in Procs : AnnouncedOK(p) /\ NewsOK(p)

-----------------------------------------------------------------------------
(* What a step does to the store *)

(* What an attempt resumes, as begin_attempt records it. *)
AttemptFact(p) == [from |-> resume[p].attempt, limit |-> resume[p].seq, base |-> resume[p].gen]

(* begin_attempt: an attempt and the change that allocates it. *)
Begins(p) ==
    LET t == TaskOf[p] IN
    /\ pc[p] = "begin"
    /\ attempts' = [attempts EXCEPT ![t] = Append(@, AttemptFact(p))]
    /\ history' = [history EXCEPT ![t] =
                      Append(@, Change("attempt_begin", Len(attempts[t]) + 1, 0, NoEvent))]
    /\ UNCHANGED <<nextSeq, checkpoints, selected>>

(* update_attempt: a change that is no event. *)
Updates(p) ==
    /\ \/ pc[p] = "open" /\ history' = [history EXCEPT ![TaskOf[p]] =
                                Append(@, Change("running", attempt[p], 0, NoEvent))]
       \/ pc[p] = "record" /\ history' = [history EXCEPT ![TaskOf[p]] =
                                Append(@, Change("failure", attempt[p], gen[p], NoEvent))]
    /\ UNCHANGED <<nextSeq, attempts, checkpoints, selected>>

Publishes(p) == pc[p] = "commit" /\ PublishAccepted(p) /\ Publish(p)

Step(p) == Start(p) \/ Recover(p) \/ Progress(p) \/ Disturbance(p)

LEMMA StoreShape ==
    ASSUME NEW p \in Procs, Step(p)
    PROVE  UNCHANGED storeVars \/ Begins(p) \/ Updates(p) \/ Publishes(p)
<1>1. CASE Start(p) \/ Recover(p) \/ Lookup(p) \/ Reuse(p)
  BY <1>1 DEF Start, Recover, Lookup, Reuse
<1>2. CASE Announce(p) \/ Evaluate(p) \/ Tell(p) \/ EnterBarrier(p) \/ Stage(p) \/ Flush(p)
  BY <1>2 DEF Announce, Evaluate, Tell, EnterBarrier, Stage, Flush
<1>3. CASE EnterEvent(p) \/ Snapshot(p) \/ Reject(p) \/ Clear(p) \/ Notify(p) \/ GiveUp(p) \/ Finish(p)
  BY <1>3 DEF EnterEvent, Snapshot, Reject, Clear, Notify, GiveUp, Finish
<1>4. CASE Fault(p) \/ CallbackRaises(p) \/ Interrupt(p) \/ Crash(p)
  BY <1>4 DEF Fault, CallbackRaises, Interrupt, Crash
<1>5. CASE Begin(p)
  BY <1>5 DEF Begin, Begins, AttemptFact, Current
<1>6. CASE Open(p)
  BY <1>6 DEF Open, Updates, storeVars
<1>7. CASE Record(p)
  BY <1>7 DEF Record, Updates
<1>8. CASE FactError(p)
  BY <1>8 DEF FactError, Begins, Updates, AttemptFact, storeVars
<1>9. CASE Commit(p)
  BY <1>9 DEF Commit, Publishes
<1>10. CASE CommitError(p)
  BY <1>10 DEF CommitError, Publishes
<1> QED
  BY <1>1, <1>2, <1>3, <1>4, <1>5, <1>6, <1>7, <1>8, <1>9, <1>10 DEF Step, Progress, Disturbance

LEMMA Joined ==
    ASSUME NEW S, NEW h \in Seq(S), NEW ext \in Seq(S)
    PROVE  /\ Len(h) \in Nat /\ Len(ext) \in Nat /\ DOMAIN h = 1 .. Len(h)
           /\ Len(h \o ext) = Len(h) + Len(ext) /\ DOMAIN (h \o ext) = 1 .. Len(h) + Len(ext)
           /\ \A i \in 1 .. Len(h) : (h \o ext)[i] = h[i]
           /\ \A i \in Len(h) + 1 .. Len(h) + Len(ext) :
                 (h \o ext)[i] = ext[i - Len(h)] /\ i - Len(h) \in 1 .. Len(ext)
           /\ \A k \in 1 .. Len(ext) : (h \o ext)[Len(h) + k] = ext[k]
<1>1. Len(h) \in Nat /\ Len(ext) \in Nat /\ DOMAIN h = 1 .. Len(h) /\ h \o ext \in Seq(S)
      /\ Len(h \o ext) = Len(h) + Len(ext) /\ DOMAIN (h \o ext) = 1 .. Len(h) + Len(ext)
  BY ConcatProperties, LenProperties
<1>2. \A i \in 1 .. Len(h) : (h \o ext)[i] = h[i]
  BY <1>1, ConcatProperties
<1>3. \A i \in Len(h) + 1 .. Len(h) + Len(ext) :
         (h \o ext)[i] = ext[i - Len(h)] /\ i - Len(h) \in 1 .. Len(ext)
  BY <1>1, ConcatProperties
<1>4. ASSUME NEW k \in 1 .. Len(ext)
      PROVE  (h \o ext)[Len(h) + k] = ext[k]
  <2>1. Len(h) + k \in Len(h) + 1 .. Len(h) + Len(ext) /\ (Len(h) + k) - Len(h) = k
    BY <1>1
  <2> QED BY <1>3, <2>1
<1> QED BY <1>1, <1>2, <1>3, <1>4

(* The history of a task grows at its end, by changes of one caller. *)
Extends(t, ext) == ext \in Seq(ChangeType) /\ history'[t] = history[t] \o ext

OnlyTask(t) == \A u \in Tasks \ {t} : history'[u] = history[u] /\ attempts'[u] = attempts[u]
                   /\ checkpoints'[u] = checkpoints[u] /\ nextSeq'[u] = nextSeq[u]

LEMMA BeginsStore ==
    ASSUME TypeInv, ConstantAssumption, NEW p \in Procs, Begins(p)
    PROVE  /\ OnlyTask(TaskOf[p])
           /\ Extends(TaskOf[p], <<Change("attempt_begin", Current(TaskOf[p]) + 1, 0, NoEvent)>>)
           /\ Current(TaskOf[p])' = Current(TaskOf[p]) + 1 /\ Current(TaskOf[p]) \in Nat
           /\ \A a \in 1 .. Current(TaskOf[p]) : attempts'[TaskOf[p]][a] = attempts[TaskOf[p]][a]
           /\ attempts'[TaskOf[p]][Current(TaskOf[p]) + 1] = AttemptFact(p)
           /\ DOMAIN attempts'[TaskOf[p]] = 1 .. Current(TaskOf[p]) + 1
<1> DEFINE t == TaskOf[p]
           c == Change("attempt_begin", Len(attempts[t]) + 1, 0, NoEvent)
<1>1. t \in Tasks /\ history \in [Tasks -> Seq(ChangeType)] /\ attempts \in [Tasks -> Seq(AttemptType)]
  BY DEF ConstantAssumption, TypeInv, TypeOK, StoreType
<1>2. AttemptFact(p) \in AttemptType
  BY DEF AttemptFact, TypeInv, TypeOK, CallType, CheckpointType, AttemptType
<1>3. Len(attempts[t]) \in Nat
  BY <1>1, LenProperties
<1>4. c \in ChangeType
  BY <1>3 DEF Change, ChangeType, Kinds
<1>5. history'[t] = Append(history[t], c) /\ attempts'[t] = Append(attempts[t], AttemptFact(p))
  BY <1>1 DEF Begins
<1>6. OnlyTask(t)
  BY <1>1 DEF Begins, OnlyTask
<1>7. Extends(t, <<c>>)
  <2> HIDE DEF c
  <2> QED BY <1>1, <1>4, <1>5, AppendIsConcat DEF Extends
<1>8. /\ Len(Append(attempts[t], AttemptFact(p))) = Len(attempts[t]) + 1
      /\ \A a \in 1 .. Len(attempts[t]) : Append(attempts[t], AttemptFact(p))[a] = attempts[t][a]
      /\ Append(attempts[t], AttemptFact(p))[Len(attempts[t]) + 1] = AttemptFact(p)
      /\ Append(attempts[t], AttemptFact(p)) \in Seq(AttemptType)
  BY <1>1, <1>2, AppendProperties
<1>9. DOMAIN attempts'[t] = 1 .. Len(attempts[t]) + 1
  BY <1>5, <1>8, LenProperties
<1> QED BY <1>3, <1>5, <1>6, <1>7, <1>8, <1>9 DEF Current

LEMMA UpdatesStore ==
    ASSUME TypeInv, ConstantAssumption, NEW p \in Procs, Updates(p)
    PROVE  /\ OnlyTask(TaskOf[p])
           /\ \E c \in ChangeType :
                 /\ \/ pc[p] = "open" /\ c = Change("running", attempt[p], 0, NoEvent)
                    \/ pc[p] = "record" /\ c = Change("failure", attempt[p], gen[p], NoEvent)
                 /\ Extends(TaskOf[p], <<c>>)
<1> DEFINE t == TaskOf[p]
<1>1. t \in Tasks /\ history \in [Tasks -> Seq(ChangeType)]
  BY DEF ConstantAssumption, TypeInv, TypeOK, StoreType
<1>2. PICK c \in ChangeType :
         /\ \/ pc[p] = "open" /\ c = Change("running", attempt[p], 0, NoEvent)
            \/ pc[p] = "record" /\ c = Change("failure", attempt[p], gen[p], NoEvent)
         /\ history' = [history EXCEPT ![t] = Append(@, c)]
  <2>1. Change("running", attempt[p], 0, NoEvent) \in ChangeType
        /\ Change("failure", attempt[p], gen[p], NoEvent) \in ChangeType
    BY DEF Change, ChangeType, Kinds, TypeInv, TypeOK, CallType
  <2> QED BY <2>1 DEF Updates
<1>3. history'[t] = Append(history[t], c)
  BY <1>1, <1>2
<1>4. Extends(t, <<c>>)
  BY <1>1, <1>3, AppendIsConcat DEF Extends
<1>5. OnlyTask(t)
  BY <1>1, <1>2 DEF Updates, OnlyTask
<1> QED BY <1>2, <1>4, <1>5

LEMMA PublishesStore ==
    ASSUME TypeInv, ConstantAssumption, NEW p \in Procs, Publishes(p)
    PROVE  /\ OnlyTask(TaskOf[p]) /\ Extends(TaskOf[p], NewChanges(p)) /\ attempts' = attempts
           /\ nextSeq'[TaskOf[p]] = snap[p].seq + NewEventCount(p)
           /\ attempt[p] = Current(TaskOf[p])
<1> DEFINE t == TaskOf[p]
<1>1. /\ t \in Tasks /\ history \in [Tasks -> Seq(ChangeType)] /\ attempt[p] \in Nat
      /\ nextSeq \in [Tasks -> Nat] /\ checkpoints \in [Tasks -> Seq(CheckpointType)]
  BY DEF ConstantAssumption, TypeInv, TypeOK, StoreType, CallType
<1>2. NewChanges(p) \in Seq(ChangeType)
  BY <1>1, NewChangesType, ChangeOfType DEF Publishes
<1>3. Extends(t, NewChanges(p))
  BY <1>1, <1>2 DEF Publishes, Publish, Extends
<1>4. OnlyTask(t)
  BY <1>1 DEF Publishes, Publish, OnlyTask
<1> QED BY <1>1, <1>3, <1>4 DEF Publishes, Publish, PublishAccepted

-----------------------------------------------------------------------------
(* What a publication appends *)

(* A group of generations: an evaluation and a barrier for each. *)
GroupShape(a, segments, from) ==
    LET changes == SegmentChanges(a, segments, from)
        n       == Len(segments)
    IN /\ Len(changes) = 2 * n /\ n \in Nat /\ n > 0
       /\ \A k \in 1 .. n :
             /\ 2 * k - 1 \in 1 .. 2 * n /\ 2 * k \in 1 .. 2 * n
             /\ changes[2 * k - 1] = Change("evaluation", a, segments[k], from + 2 * k - 2)
             /\ changes[2 * k] = Change("generation_ready", a, segments[k], from + 2 * k - 1)
       /\ \A i \in 1 .. 2 * n : \E k \in 1 .. n : i = 2 * k - 1 \/ i = 2 * k

LEMMA GroupChanges ==
    ASSUME NEW a \in Nat, NEW segments \in Seq(Nat), segments # <<>>, NEW from \in Nat,
           segments[1] # 0
    PROVE  GroupShape(a, segments, from)
<1>1. Len(segments) \in Nat /\ Len(segments) > 0
  BY EmptySeq, LenProperties
<1>2. SegmentChanges(a, segments, from) =
         [i \in 1 .. 2 * Len(segments) |->
            Change(IF i % 2 = 1 THEN "evaluation" ELSE "generation_ready",
                   a, segments[(i + 1) \div 2], from + i - 1)]
  BY DEF SegmentChanges
<1>3. Len(SegmentChanges(a, segments, from)) = 2 * Len(segments)
  BY <1>1, <1>2
<1>4. ASSUME NEW k \in 1 .. Len(segments)
      PROVE  /\ 2 * k - 1 \in 1 .. 2 * Len(segments) /\ 2 * k \in 1 .. 2 * Len(segments)
             /\ SegmentChanges(a, segments, from)[2 * k - 1] =
                   Change("evaluation", a, segments[k], from + 2 * k - 2)
             /\ SegmentChanges(a, segments, from)[2 * k] =
                   Change("generation_ready", a, segments[k], from + 2 * k - 1)
  <2>1. /\ 2 * k - 1 \in 1 .. 2 * Len(segments) /\ 2 * k \in 1 .. 2 * Len(segments)
        /\ (2 * k - 1) % 2 = 1 /\ (2 * k) % 2 = 0
        /\ ((2 * k - 1) + 1) \div 2 = k /\ ((2 * k) + 1) \div 2 = k
        /\ from + (2 * k - 1) - 1 = from + 2 * k - 2
    BY <1>1
  <2> QED BY <1>2, <2>1
<1>5. ASSUME NEW i \in 1 .. 2 * Len(segments)
      PROVE  \E k \in 1 .. Len(segments) : i = 2 * k - 1 \/ i = 2 * k
  <2>1. (i + 1) \div 2 \in 1 .. Len(segments)
        /\ (i = 2 * ((i + 1) \div 2) - 1 \/ i = 2 * ((i + 1) \div 2))
    BY <1>1
  <2> QED BY <2>1
<1> QED BY <1>1, <1>3, <1>4, <1>5 DEF GroupShape

(* The generation whose two events are the i-th after the baseline's. *)
LEMMA PairIndex ==
    ASSUME NEW count \in Nat, NEW i \in 1 .. 2 * (count - 1)
    PROVE  1 + ((i + 1) \div 2) \in 1 .. count
<1>1. (i + 1) \div 2 \in Nat /\ 2 * ((i + 1) \div 2) <= i + 1
  OBVIOUS
<1>2. PICK h : h = (i + 1) \div 2
  OBVIOUS
<1>3. h \in Nat /\ 2 * h <= i + 1 /\ i <= 2 * (count - 1) /\ i \in Nat
  BY <1>1, <1>2
<1>4. 1 + h \in 1 .. count
  BY <1>3
<1> QED BY <1>2, <1>4

(* A number past the first next ones is that of a position past the first m. *)
LEMMA PositionOf ==
    ASSUME NEW m \in Nat, NEW n \in Nat, NEW next \in Nat, NEW s \in next .. next + n - 1
    PROVE  \E k \in m + 1 .. m + n : next + (k - m) - 1 = s
<1> DEFINE k == m + (s - next) + 1
<1>1. k \in m + 1 .. m + n /\ next + (k - m) - 1 = s
  OBVIOUS
<1> QED BY <1>1

(* An event: the archived diagnostics, the event, the update that goes with it. *)
EventShape(kind, a, buffered, g, from) ==
    LET changes == EventChanges(kind, a, buffered, g, from)
        n       == Len(buffered)
    IN /\ n \in Nat
       /\ Len(changes) = IF kind = "completed" THEN n + 2 ELSE n + 1
       /\ \A i \in 1 .. n : changes[i] = Change("evaluation", a, buffered[i], from + i - 1)
       /\ changes[n + 1] = Change(kind, a, g, from + n)
       /\ kind = "completed" => changes[n + 2] = Change("success", a, g, NoEvent)

LEMMA OneEvent ==
    ASSUME NEW kind \in EventJobs, NEW a \in Nat, NEW buffered \in Seq(Nat), NEW g \in Nat,
           NEW from \in Nat
    PROVE  EventShape(kind, a, buffered, g, from)
<1> DEFINE n == Len(buffered)
           archive == [i \in 1 .. n |-> Change("evaluation", a, buffered[i], from + i - 1)]
           tail == IF kind = "completed" THEN << Change("success", a, g, NoEvent) >> ELSE <<>>
           T == [kind : {kind, "evaluation", "success"}, attempt : Nat, gen : Nat, seq : Int]
<1>1. n \in Nat
  BY LenProperties
<1>2. \A i \in 1 .. n : Change("evaluation", a, buffered[i], from + i - 1) \in T
  <2>1. \A i \in 1 .. n : buffered[i] \in Nat /\ from + i - 1 \in Int
    BY <1>1, ElementOfSeq
  <2> QED BY <2>1 DEF Change
<1>3. archive \in Seq(T) /\ Len(archive) = n
  BY <1>1, <1>2
<1>4. <<Change(kind, a, g, from + n)>> \in Seq(T) /\ tail \in Seq(T)
  <2>1. Change(kind, a, g, from + n) \in T /\ Change("success", a, g, NoEvent) \in T
    BY <1>1 DEF Change, NoEvent
  <2> HIDE DEF T
  <2> QED BY <2>1
<1>5. Len(tail) = (IF kind = "completed" THEN 1 ELSE 0)
      /\ (kind = "completed" => tail[1] = Change("success", a, g, NoEvent))
  OBVIOUS
<1> DEFINE head == archive \o <<Change(kind, a, g, from + n)>>
<1>6. /\ head \in Seq(T) /\ Len(head) = n + 1 /\ head[n + 1] = Change(kind, a, g, from + n)
      /\ \A i \in 1 .. n : head[i] = archive[i]
  <2>1. Len(<<Change(kind, a, g, from + n)>>) = 1
        /\ <<Change(kind, a, g, from + n)>>[1] = Change(kind, a, g, from + n)
    OBVIOUS
  <2> HIDE DEF archive, T
  <2>2. head \in Seq(T) /\ Len(head) = n + 1
    BY <1>1, <1>3, <1>4, <2>1, ConcatProperties
  <2>3. \A i \in 1 .. n : head[i] = archive[i]
    BY <1>1, <1>3, <1>4, ConcatProperties
  <2>4. head[n + 1] = Change(kind, a, g, from + n)
    BY <1>1, <1>3, <1>4, <2>1, ConcatProperties
  <2> QED BY <2>2, <2>3, <2>4
<1>7. /\ Len(head \o tail) = n + 1 + Len(tail)
      /\ \A i \in 1 .. n + 1 : (head \o tail)[i] = head[i]
      /\ kind = "completed" => (head \o tail)[n + 2] = tail[1]
  <2> HIDE DEF head, tail, T
  <2>0. head \in Seq(T) /\ tail \in Seq(T) /\ Len(head) = n + 1
    BY <1>4, <1>6
  <2>1. Len(head \o tail) = n + 1 + Len(tail) /\ \A i \in 1 .. n + 1 : (head \o tail)[i] = head[i]
    <3>1. Len(head \o tail) = Len(head) + Len(tail)
      BY <2>0, Joined
    <3>2. \A i \in 1 .. Len(head) : (head \o tail)[i] = head[i]
      BY <2>0, Joined
    <3> QED BY <2>0, <3>1, <3>2
  <2>2. ASSUME kind = "completed"
        PROVE  (head \o tail)[n + 2] = tail[1]
    <3>1. 1 \in 1 .. Len(tail) /\ Len(head) + 1 = n + 2
      BY <1>1, <1>5, <1>6, <2>2
    <3> QED BY <2>0, <3>1, Joined
  <2> QED BY <2>1, <2>2
<1>8. EventChanges(kind, a, buffered, g, from) = head \o tail
  BY DEF EventChanges
<1>9. \A i \in 1 .. n : head[i] = Change("evaluation", a, buffered[i], from + i - 1)
  BY <1>6
<1> HIDE DEF head, tail
<1>10. \A i \in 1 .. n : (head \o tail)[i] = Change("evaluation", a, buffered[i], from + i - 1)
  <2>1. \A i \in 1 .. n : i \in 1 .. n + 1
    BY <1>1
  <2> QED BY <1>6, <1>7, <1>9, <2>1
<1>11. (head \o tail)[n + 1] = Change(kind, a, g, from + n)
  <2>1. n + 1 \in 1 .. n + 1
    BY <1>1
  <2> QED BY <1>6, <1>7, <2>1
<1>12. Len(head \o tail) = IF kind = "completed" THEN n + 2 ELSE n + 1
  BY <1>1, <1>5, <1>7
<1>13. kind = "completed" => (head \o tail)[n + 2] = Change("success", a, g, NoEvent)
  BY <1>5, <1>7
<1> QED BY <1>1, <1>8, <1>10, <1>11, <1>12, <1>13 DEF EventShape

-----------------------------------------------------------------------------
(* Contiguous sequence numbers *)

(* The events of a publication take the next numbers, one after the other. *)
LEMMA PublishedSeqs ==
    ASSUME TypeInv, NEW p \in Procs, pc[p] = "commit"
    PROVE  /\ NewEventCount(p) \in Nat /\ Len(NewChanges(p)) \in Nat
           /\ NewEventCount(p) <= Len(NewChanges(p))
           /\ \A k \in 1 .. NewEventCount(p) : NewChanges(p)[k].seq = snap[p].seq + k - 1
           /\ \A k \in NewEventCount(p) + 1 .. Len(NewChanges(p)) : NewChanges(p)[k].seq = NoEvent
<1> DEFINE a == attempt[p]
           s == snap[p].seq
<1>1. /\ a \in Nat /\ completed[p] \in Seq(Nat) /\ pending[p] \in Seq(Nat)
      /\ gen[p] \in Nat /\ s \in Nat
      /\ job[p] \in SegmentJobs \cup EventJobs
      /\ job[p] \in SegmentJobs => completed[p] # <<>>
  BY DEF TypeInv, TypeOK, CallType, WriterType, JobOK, JobAt
<1>2. Len(completed[p]) \in Nat /\ (completed[p] # <<>> => Len(completed[p]) > 0)
  BY <1>1, EmptySeq, LenProperties
<1>3. CASE job[p] \in SegmentJobs /\ completed[p][1] # 0
  <2>1. NewChanges(p) = SegmentChanges(a, completed[p], s) /\ NewEventCount(p) = 2 * Len(completed[p])
    BY <1>3 DEF NewChanges, NewEventCount
  <2>0. GroupShape(a, completed[p], s)
    BY <1>1, <1>3, GroupChanges
  <2>2. Len(NewChanges(p)) = NewEventCount(p)
    BY <2>0, <2>1 DEF GroupShape
  <2>3. ASSUME NEW k \in 1 .. NewEventCount(p)
        PROVE  NewChanges(p)[k].seq = s + k - 1
    <3>1. PICK i \in 1 .. Len(completed[p]) : k = 2 * i - 1 \/ k = 2 * i
      BY <2>0, <2>1, <2>3 DEF GroupShape
    <3>2. /\ SegmentChanges(a, completed[p], s)[2 * i - 1].seq = s + 2 * i - 2
          /\ SegmentChanges(a, completed[p], s)[2 * i].seq = s + 2 * i - 1
      <4>1. /\ SegmentChanges(a, completed[p], s)[2 * i - 1] =
                  Change("evaluation", a, completed[p][i], s + 2 * i - 2)
            /\ SegmentChanges(a, completed[p], s)[2 * i] =
                  Change("generation_ready", a, completed[p][i], s + 2 * i - 1)
        BY <2>0 DEF GroupShape
      <4> QED BY <4>1 DEF Change
    <3>3. i \in Int
      OBVIOUS
    <3>4. CASE k = 2 * i - 1
      <4>1. NewChanges(p)[k].seq = s + 2 * i - 2
        BY <2>1, <3>2, <3>4
      <4> QED BY <1>1, <3>3, <3>4, <4>1
    <3>5. CASE k = 2 * i
      <4>1. NewChanges(p)[k].seq = s + 2 * i - 1
        BY <2>1, <3>2, <3>5
      <4> QED BY <1>1, <3>3, <3>5, <4>1
    <3> QED BY <3>1, <3>4, <3>5
  <2>4. NewEventCount(p) \in Nat
    BY <1>2, <2>1
  <2> QED BY <2>2, <2>3, <2>4
<1>4. CASE job[p] \in SegmentJobs /\ completed[p][1] = 0
  <2> DEFINE n == 2 * (Len(completed[p]) - 1)
             tail == [i \in 1 .. n |-> Change(IF i % 2 = 1 THEN "evaluation" ELSE "generation_ready",
                                             a, completed[p][1 + ((i + 1) \div 2)], s + i)]
             T == [kind : {"baseline_ready", "evaluation", "generation_ready"}, attempt : Nat,
                   gen : Nat, seq : Nat]
  <2>1. NewChanges(p) = <<Change("baseline_ready", a, 0, s)>> \o tail
    BY <1>1, <1>4 DEF NewChanges, SegmentChanges
  <2>2. n \in Nat /\ NewEventCount(p) = n + 1
    BY <1>1, <1>2, <1>4 DEF NewEventCount
  <2>3. ASSUME NEW i \in 1 .. n
        PROVE  Change(IF i % 2 = 1 THEN "evaluation" ELSE "generation_ready",
                      a, completed[p][1 + ((i + 1) \div 2)], s + i) \in T
    <3>1. 1 + ((i + 1) \div 2) \in 1 .. Len(completed[p])
      BY <1>2, PairIndex
    <3>2. completed[p][1 + ((i + 1) \div 2)] \in Nat
      BY <1>1, <3>1, ElementOfSeq
    <3>3. s + i \in Nat
      BY <1>1, <2>2
    <3> QED BY <1>1, <3>2, <3>3 DEF Change
  <2>4. tail \in Seq(T) /\ Len(tail) = n /\ \A i \in 1 .. n : tail[i].seq = s + i
    <3>1. tail \in Seq(T) /\ Len(tail) = n
      <4> HIDE DEF T, n
      <4> QED BY <2>2, <2>3
    <3>2. \A i \in 1 .. n : tail[i].seq = s + i
      BY DEF Change
    <3> QED BY <3>1, <3>2
  <2>5. <<Change("baseline_ready", a, 0, s)>> \in Seq(T)
        /\ <<Change("baseline_ready", a, 0, s)>>[1].seq = s /\ Len(<<Change("baseline_ready", a, 0, s)>>) = 1
    BY <1>1 DEF Change
  <2> DEFINE first == <<Change("baseline_ready", a, 0, s)>>
  <2> HIDE DEF tail, first, T, n
  <2>6. first \in Seq(T) /\ tail \in Seq(T) /\ Len(first) = 1 /\ first[1].seq = s /\ Len(tail) = n
    BY <2>4, <2>5 DEF first
  <2>7. /\ Len(first \o tail) = 1 + n
        /\ (first \o tail)[1] = first[1]
        /\ \A k \in 2 .. 1 + n : (first \o tail)[k] = tail[k - 1] /\ k - 1 \in 1 .. n
    <3>1. /\ Len(first \o tail) = Len(first) + Len(tail)
          /\ \A i \in 1 .. Len(first) : (first \o tail)[i] = first[i]
          /\ \A i \in Len(first) + 1 .. Len(first) + Len(tail) :
                (first \o tail)[i] = tail[i - Len(first)] /\ i - Len(first) \in 1 .. Len(tail)
      BY <2>6, Joined
    <3> QED BY <2>2, <2>6, <3>1
  <2>8. NewChanges(p) = first \o tail
    BY <2>1 DEF first
  <2>9. ASSUME NEW k \in 1 .. NewEventCount(p)
        PROVE  NewChanges(p)[k].seq = s + k - 1
    <3>1. CASE k = 1
      BY <1>1, <2>6, <2>7, <2>8, <3>1
    <3>2. CASE k # 1
      <4>1. k \in 2 .. 1 + n /\ k - 1 \in 1 .. n
        BY <2>2, <2>9, <3>2
      <4>2. NewChanges(p)[k].seq = s + (k - 1)
        BY <2>4, <2>7, <2>8, <4>1
      <4> QED BY <1>1, <4>1, <4>2
    <3> QED BY <3>1, <3>2
  <2> QED BY <2>2, <2>7, <2>8, <2>9
<1>5. CASE job[p] \in EventJobs /\ job[p] \notin SegmentJobs
  <2> DEFINE n == Len(pending[p])
  <2>1. NewChanges(p) = EventChanges(job[p], a, pending[p], gen[p], s) /\ NewEventCount(p) = n + 1
    BY <1>5 DEF NewChanges, NewEventCount
  <2>2. /\ n \in Nat
        /\ Len(NewChanges(p)) = IF job[p] = "completed" THEN n + 2 ELSE n + 1
        /\ \A i \in 1 .. n : NewChanges(p)[i] = Change("evaluation", a, pending[p][i], s + i - 1)
        /\ NewChanges(p)[n + 1] = Change(job[p], a, gen[p], s + n)
        /\ job[p] = "completed" => NewChanges(p)[n + 2] = Change("success", a, gen[p], NoEvent)
    <3>0. /\ job[p] \in EventJobs /\ pending[p] \in Seq(Nat) /\ gen[p] \in Nat
          /\ a \in Nat /\ s \in Nat
      BY <1>1, <1>5
    <3>1. EventShape(job[p], a, pending[p], gen[p], s)
      BY <3>0, OneEvent
    <3> QED BY <2>1, <3>1 DEF EventShape
  <2>3. /\ \A i \in 1 .. n : NewChanges(p)[i].seq = s + i - 1
        /\ NewChanges(p)[n + 1].seq = s + n
        /\ job[p] = "completed" => NewChanges(p)[n + 2].seq = NoEvent
    <3>1. ASSUME NEW i \in 1 .. n
          PROVE  NewChanges(p)[i].seq = s + i - 1
      <4>1. NewChanges(p)[i] = Change("evaluation", a, pending[p][i], s + i - 1)
        BY <2>2
      <4> QED BY <4>1 DEF Change
    <3>2. NewChanges(p)[n + 1].seq = s + n
      BY <2>2 DEF Change
    <3>3. job[p] = "completed" => NewChanges(p)[n + 2].seq = NoEvent
      BY <2>2 DEF Change
    <3> QED BY <3>1, <3>2, <3>3
  <2> HIDE DEF n
  <2> QED BY <1>1, <2>1, <2>2, <2>3
<1> QED BY <1>1, <1>3, <1>4, <1>5

Contiguous(t) ==
    /\ \A i, j \in Events(t) : i < j => history[t][i].seq < history[t][j].seq
    /\ {history[t][i].seq : i \in Events(t)} = 0 .. nextSeq[t] - 1

(* Changes that number their events from the next one on keep it so. *)
LEMMA ContiguousGrows ==
    ASSUME TypeInv, NEW t \in Tasks, NEW ext, Extends(t, ext), NEW n \in Nat, n <= Len(ext),
           \A k \in 1 .. n : ext[k].seq = nextSeq[t] + k - 1,
           \A k \in n + 1 .. Len(ext) : ext[k].seq = NoEvent,
           nextSeq'[t] = nextSeq[t] + n, Contiguous(t)
    PROVE  Contiguous(t)'
<1> DEFINE h == history[t]
           g == history'[t]
           m == Len(h)
           next == nextSeq[t]
<1>1. h \in Seq(ChangeType) /\ ext \in Seq(ChangeType) /\ g = h \o ext /\ next \in Nat
  BY DEF TypeInv, TypeOK, StoreType, Extends
<1>2. /\ m \in Nat /\ Len(ext) \in Nat /\ DOMAIN h = 1 .. m
      /\ DOMAIN g = 1 .. m + Len(ext)
      /\ \A i \in 1 .. m : g[i] = h[i]
      /\ \A i \in m + 1 .. m + Len(ext) : g[i] = ext[i - m] /\ i - m \in 1 .. Len(ext)
      /\ \A k \in 1 .. Len(ext) : g[m + k] = ext[k]
  BY <1>1, Joined
<1>3. Events(t) = {i \in 1 .. m : h[i].seq # NoEvent}
  BY <1>2 DEF Events, IsEvent
<1>4. Events(t)' = {i \in 1 .. m + Len(ext) : g[i].seq # NoEvent}
  BY <1>2 DEF Events, IsEvent
<1> DEFINE old == Events(t)
           new == {i \in m + 1 .. m + n : TRUE}
<1>5. \A i \in old : i \in 1 .. m /\ g[i].seq = h[i].seq /\ h[i].seq \in 0 .. next - 1
  <2>1. \A i \in old : h[i].seq \in {h[j].seq : j \in old}
    OBVIOUS
  <2> QED BY <1>2, <1>3, <2>1 DEF Contiguous
<1>6. \A i \in new : g[i].seq = next + (i - m) - 1
  <2> SUFFICES ASSUME NEW i \in new
               PROVE  g[i].seq = next + (i - m) - 1
    OBVIOUS
  <2>1. i - m \in 1 .. n /\ i \in m + 1 .. m + Len(ext)
    BY <1>2
  <2>2. g[i] = ext[i - m]
    BY <1>2, <2>1
  <2>3. ext[i - m].seq = nextSeq[t] + (i - m) - 1
    BY <2>1
  <2> QED BY <2>2, <2>3
<1>7. \A i \in m + n + 1 .. m + Len(ext) : g[i].seq = NoEvent
  <2> SUFFICES ASSUME NEW i \in m + n + 1 .. m + Len(ext)
               PROVE  g[i].seq = NoEvent
    OBVIOUS
  <2>1. i - m \in n + 1 .. Len(ext) /\ i \in m + 1 .. m + Len(ext)
    BY <1>2
  <2> QED BY <1>2, <2>1
<1>8. \A i \in new : i > m /\ i <= m + n /\ i \in Nat
  BY <1>2
<1>9. Events(t)' = old \cup new
  <2> HIDE DEF g, h, m, next
  <2>1. ASSUME NEW i \in Events(t)'
        PROVE  i \in old \cup new
    <3>1. CASE i \in 1 .. m
      BY <1>2, <1>3, <1>4, <2>1, <3>1
    <3>2. CASE i \in m + 1 .. m + n
      BY <3>2
    <3>3. CASE i \in m + n + 1 .. m + Len(ext)
      BY <1>4, <1>7, <2>1, <3>3
    <3>4. i \in 1 .. m + Len(ext)
      BY <1>4, <2>1
    <3> QED BY <1>2, <3>1, <3>2, <3>3, <3>4
  <2>2. ASSUME NEW i \in old
        PROVE  i \in Events(t)'
    <3>1. i \in 1 .. m + Len(ext) /\ g[i].seq # NoEvent
      BY <1>2, <1>3, <1>5, <2>2
    <3> QED BY <1>4, <3>1
  <2>3. ASSUME NEW i \in new
        PROVE  i \in Events(t)'
    <3>0. i \in Nat /\ i > m /\ i <= m + n
      BY <1>8, <2>3
    <3>00. m \in Nat /\ n \in Nat /\ Len(ext) \in Nat /\ n <= Len(ext)
      BY <1>2
    <3>1. i \in 1 .. m + Len(ext) /\ i > m
      BY <3>0, <3>00
    <3>2. g[i].seq # NoEvent
      <4>1. g[i].seq = next + (i - m) - 1 /\ next \in Nat
        BY <1>1, <1>6, <2>3
      <4>2. next + (i - m) - 1 >= 0
        BY <3>0, <3>00, <4>1
      <4> QED BY <4>1, <4>2 DEF NoEvent
    <3> QED BY <1>4, <3>1, <3>2
  <2> QED BY <2>1, <2>2, <2>3
<1>10. \A i, j \in old : i < j => h[i].seq < h[j].seq
  BY DEF Contiguous
<1>11. {h[i].seq : i \in old} = 0 .. next - 1
  BY DEF Contiguous
<1> DEFINE all == old \cup new
<1>12. \A i, j \in all : i < j => g[i].seq < g[j].seq
  <2>0. next \in Nat /\ m \in Nat
    BY <1>1, <1>2
  <2> HIDE DEF g, h, m, next, old, new
  <2> SUFFICES ASSUME NEW i \in all, NEW j \in all, i < j
               PROVE  g[i].seq < g[j].seq
    OBVIOUS
  <2>1. CASE i \in old /\ j \in old
    BY <1>5, <1>10, <2>1
  <2>2. CASE i \in old /\ j \in new
    <3>1. g[i].seq \in 0 .. next - 1
      BY <1>5, <2>2
    <3>2. g[j].seq = next + (j - m) - 1 /\ j > m /\ j \in Nat
      BY <1>6, <1>8, <2>2
    <3> QED BY <2>0, <3>1, <3>2
  <2>3. CASE i \in new /\ j \in new
    <3>1. g[i].seq = next + (i - m) - 1 /\ i \in Nat /\ g[j].seq = next + (j - m) - 1 /\ j \in Nat
      BY <1>6, <1>8, <2>3
    <3> QED BY <2>0, <3>1
  <2>4. ~(i \in new /\ j \in old)
    BY <1>2, <1>5, <1>8
  <2> QED BY <2>1, <2>2, <2>3, <2>4
<1>13. {g[i].seq : i \in all} = 0 .. next + n - 1
  <2>1. ASSUME NEW i \in all
        PROVE  g[i].seq \in 0 .. next + n - 1
    <3>0. next \in Nat /\ m \in Nat /\ n \in Nat
      BY <1>1, <1>2
    <3> HIDE DEF g, h, m, next, old, new
    <3>1. CASE i \in old
      <4>1. g[i].seq \in 0 .. next - 1
        BY <1>5, <3>1
      <4> QED BY <3>0, <4>1
    <3>2. CASE i \in new
      <4>1. g[i].seq = next + (i - m) - 1 /\ i > m /\ i <= m + n /\ i \in Nat
        BY <1>6, <1>8, <3>2
      <4> QED BY <3>0, <4>1
    <3> QED BY <2>1, <3>1, <3>2 DEF all
  <2>2. ASSUME NEW s \in 0 .. next + n - 1
        PROVE  \E i \in all : g[i].seq = s
    <3>1. CASE s < next
      <4>1. s \in {h[i].seq : i \in old}
        <5>1. next \in Nat
          BY <1>1
        <5> HIDE DEF next, old, h
        <5>2. s \in 0 .. next - 1
          BY <2>2, <3>1, <5>1
        <5> QED BY <1>11, <5>2
      <4> HIDE DEF old, g, h, next
      <4>2. PICK i \in old : h[i].seq = s
        BY <4>1
      <4>3. g[i].seq = s
        BY <1>5, <4>2
      <4> QED BY <4>2, <4>3
    <3>2. CASE s >= next
      <4>1. PICK k \in m + 1 .. m + n : next + (k - m) - 1 = s
        <5>1. m \in Nat /\ next \in Nat
          BY <1>1, <1>2
        <5> HIDE DEF m, next
        <5>2. s \in next .. next + n - 1
          BY <2>2, <3>2, <5>1
        <5> QED BY <5>1, <5>2, PositionOf
      <4>2. k \in new
        BY <4>1
      <4>3. g[k].seq = s
        BY <1>6, <4>1, <4>2
      <4> QED BY <4>2, <4>3 DEF all
    <3>3. s < next \/ s >= next
      <4>1. next \in Nat /\ s \in Int
        BY <1>1, <2>2
      <4> HIDE DEF next
      <4> QED BY <4>1
    <3> QED BY <3>1, <3>2, <3>3
  <2> HIDE DEF g, all, next
  <2> QED BY <2>1, <2>2
<1>14. nextSeq'[t] - 1 = next + n - 1
  <2>1. nextSeq'[t] = next + n /\ next \in Nat
    BY <1>1
  <2> HIDE DEF next
  <2> QED BY <2>1
<1>15. Events(t)' = all
  BY <1>9
<1> HIDE DEF all, next, old, new
<1>16. {history'[t][i].seq : i \in Events(t)'} = 0 .. nextSeq'[t] - 1
  BY <1>13, <1>14, <1>15
<1>17. \A i, j \in Events(t)' : i < j => history'[t][i].seq < history'[t][j].seq
  BY <1>12, <1>15
<1> QED BY <1>16, <1>17 DEF Contiguous

ContiguousInv == FreshInv /\ EvidenceContiguous

LEMMA StepContiguous ==
    ASSUME ContiguousInv, ConstantAssumption, NEW p \in Procs, Step(p)
    PROVE  EvidenceContiguous'
<1> DEFINE t == TaskOf[p]
<1>0. TypeInv /\ t \in Tasks /\ nextSeq \in [Tasks -> Nat] /\ \A u \in Tasks : Contiguous(u)
  BY DEF ContiguousInv, FreshInv, EvidenceContiguous, Contiguous, ConstantAssumption, TypeInv, TypeOK,
     StoreType
<1>1. ASSUME NEW u \in Tasks, history'[u] = history[u], nextSeq'[u] = nextSeq[u]
      PROVE  Contiguous(u)'
  BY <1>0, <1>1 DEF Contiguous, Events
<1>2. ASSUME NEW c \in ChangeType, c.seq = NoEvent, Extends(t, <<c>>), nextSeq' = nextSeq
      PROVE  Contiguous(t)'
  <2>1. /\ Len(<<c>>) = 1 /\ 0 <= Len(<<c>>) /\ <<c>>[1] = c
        /\ \A k \in 0 + 1 .. Len(<<c>>) : <<c>>[k].seq = NoEvent
        /\ nextSeq'[t] = nextSeq[t] + 0
    BY <1>0, <1>2
  <2>2. \A k \in 1 .. 0 : <<c>>[k].seq = nextSeq[t] + k - 1
    OBVIOUS
  <2> HIDE DEF t
  <2> QED BY <1>0, <1>2, <2>1, <2>2, ContiguousGrows
<1>3. CASE UNCHANGED storeVars
  BY <1>1, <1>3 DEF storeVars, EvidenceContiguous, Contiguous
<1>4. CASE Begins(p)
  <2>1. OnlyTask(t) /\ Extends(t, <<Change("attempt_begin", Current(t) + 1, 0, NoEvent)>>)
        /\ Current(t) \in Nat
    BY <1>0, <1>4, BeginsStore
  <2>2. Contiguous(t)'
    BY <1>2, <1>4, <2>1 DEF Begins, Change, ChangeType, Kinds
  <2> QED BY <1>1, <2>1, <2>2 DEF OnlyTask, EvidenceContiguous, Contiguous
<1>5. CASE Updates(p)
  <2>1. PICK c \in ChangeType :
           /\ \/ pc[p] = "open" /\ c = Change("running", attempt[p], 0, NoEvent)
              \/ pc[p] = "record" /\ c = Change("failure", attempt[p], gen[p], NoEvent)
           /\ Extends(t, <<c>>)
    BY <1>0, <1>5, UpdatesStore
  <2>2. OnlyTask(t)
    BY <1>0, <1>5, UpdatesStore
  <2>3. c.seq = NoEvent
    BY <2>1 DEF Change
  <2>4. Contiguous(t)'
    BY <1>2, <1>5, <2>1, <2>3 DEF Updates
  <2> QED BY <1>1, <2>2, <2>4 DEF OnlyTask, EvidenceContiguous, Contiguous
<1>6. CASE Publishes(p)
  <2>1. OnlyTask(t) /\ Extends(t, NewChanges(p)) /\ nextSeq'[t] = snap[p].seq + NewEventCount(p)
    BY <1>0, <1>6, PublishesStore
  <2>2. snap[p].seq = nextSeq[t]
    BY <1>6 DEF Publishes, ContiguousInv, FreshInv, SnapshotFresh
  <2>3. /\ NewEventCount(p) \in Nat /\ NewEventCount(p) <= Len(NewChanges(p))
        /\ \A k \in 1 .. NewEventCount(p) : NewChanges(p)[k].seq = nextSeq[t] + k - 1
        /\ \A k \in NewEventCount(p) + 1 .. Len(NewChanges(p)) : NewChanges(p)[k].seq = NoEvent
    BY <1>0, <1>6, <2>2, PublishedSeqs DEF Publishes
  <2>4. Contiguous(t)'
    <3> HIDE DEF t
    <3> QED BY <1>0, <2>1, <2>2, <2>3, ContiguousGrows
  <2> QED BY <1>1, <2>1, <2>4 DEF OnlyTask, EvidenceContiguous, Contiguous
<1> QED BY <1>3, <1>4, <1>5, <1>6, StoreShape

(* The events of every task are numbered without gap or repetition, under     *)
(* every fault, crash and interrupt: a reader can always materialise it.      *)
THEOREM EventsContiguous == Spec => []EvidenceContiguous
<1>1. Init => ContiguousInv
  <2>1. Init => FreshInv
    BY ConstantAssumption, InitFresh
  <2>2. Init => EvidenceContiguous
    BY EmptySeq DEF Init, EvidenceContiguous, Events
  <2> QED BY <2>1, <2>2 DEF ContiguousInv
<1>2. ContiguousInv /\ [Next]_vars => ContiguousInv'
  <2> SUFFICES ASSUME ContiguousInv, [Next]_vars
               PROVE  ContiguousInv'
    OBVIOUS
  <2>1. FreshInv'
    BY ConstantAssumption, NextFresh DEF ContiguousInv
  <2>2. ASSUME UNCHANGED vars
        PROVE  EvidenceContiguous'
    <3>1. history' = history /\ nextSeq' = nextSeq
      BY <2>2 DEF vars, storeVars
    <3>2. \A t \in Tasks : Events(t)' = Events(t)
      BY <3>1 DEF Events
    <3> QED BY <3>1, <3>2 DEF ContiguousInv, EvidenceContiguous
  <2>3. ASSUME NEW p \in Procs, Step(p)
        PROVE  EvidenceContiguous'
    BY <2>3, ConstantAssumption, StepContiguous
  <2>4. EvidenceContiguous'
    BY <2>2, <2>3 DEF Next, Step, ContiguousInv
  <2> QED BY <2>1, <2>4 DEF ContiguousInv
<1>3. ContiguousInv => EvidenceContiguous
  BY DEF ContiguousInv
<1> QED BY <1>1, <1>2, <1>3, PTL DEF Spec

-----------------------------------------------------------------------------
(* What a step does to the callers *)

Untouched(q) ==
    /\ Same(q) /\ attempt'[q] = attempt[q] /\ pending'[q] = pending[q]
    /\ uncertain'[q] = uncertain[q]

OnlyCaller(p) == \A q \in Procs \ {p} : Untouched(q)

(* The writer of the call stays as it is. *)
Rests(p) ==
    /\ Kept(p) /\ attempt'[p] = attempt[p] /\ pending'[p] = pending[p]
    /\ uncertain'[p] = uncertain[p]

Leaves(p) ==
    /\ pc'[p] \in {"idle", "finish"} /\ attempt'[p] = 0 /\ resume'[p] = Fresh /\ gen'[p] = 0
    /\ pending'[p] = <<>> /\ completed'[p] = <<>> /\ latest'[p] = NoState /\ chain'[p] = <<>>
    /\ uncertain'[p] = "none"

Starts(p) ==
    LET t == TaskOf[p] IN
    /\ pc[p] = "idle" /\ pc'[p] = "lookup" /\ UNCHANGED storeVars
    /\ \/ resume'[p] = Fresh
       \/ \E i \in DOMAIN checkpoints[t] : resume'[p] = checkpoints[t][i]
    /\ attempt'[p] = attempt[p] /\ gen'[p] = gen[p] /\ pending'[p] = pending[p]
    /\ completed'[p] = completed[p] /\ latest'[p] = latest[p] /\ chain'[p] = chain[p]
    /\ uncertain'[p] = uncertain[p]

Allocates(p) ==
    /\ pc'[p] = "open" /\ Begins(p) /\ Kept(p) /\ pending'[p] = pending[p]
    /\ attempt'[p] = Current(TaskOf[p]) + 1 /\ uncertain'[p] = uncertain[p]

Opens(p) ==
    /\ pc[p] = "open" /\ chain'[p] = resume[p].chain
    /\ \/ /\ pc'[p] = (IF resume[p] = Fresh THEN "baseline" ELSE "announce")
          /\ gen'[p] = resume[p].cma /\ Updates(p)
       \/ pc'[p] = "failing" /\ gen'[p] = gen[p] /\ (UNCHANGED storeVars \/ Updates(p))
    /\ attempt'[p] = attempt[p] /\ resume'[p] = resume[p] /\ pending'[p] = pending[p]
    /\ completed'[p] = completed[p] /\ latest'[p] = latest[p] /\ uncertain'[p] = uncertain[p]

Evaluates(p) ==
    /\ pc[p] = "generate" /\ gen[p] < MaxGen /\ pc'[p] = "evaluated" /\ Kept(p)
    /\ pending'[p] = Append(pending[p], gen[p] + 1) /\ UNCHANGED storeVars
    /\ attempt'[p] = attempt[p] /\ uncertain'[p] = uncertain[p]

Tells(p) ==
    /\ pc[p] = "evaluated" /\ pc'[p] = "barrier" /\ gen'[p] = gen[p] + 1 /\ UNCHANGED storeVars
    /\ attempt'[p] = attempt[p] /\ resume'[p] = resume[p] /\ pending'[p] = pending[p]
    /\ completed'[p] = completed[p] /\ latest'[p] = latest[p] /\ chain'[p] = chain[p]
    /\ uncertain'[p] = uncertain[p]

StoresState(p) ==
    /\ \/ pc[p] = "baseline" /\ job'[p] = "baseline_ready"
       \/ pc[p] = "barrier" /\ job'[p] = "generation_ready"
    /\ pc'[p] = "staged" /\ latest'[p] = (IF Checkpointed[TaskOf[p]] THEN gen[p] ELSE NoState)
    /\ attempt'[p] = attempt[p] /\ resume'[p] = resume[p] /\ gen'[p] = gen[p]
    /\ pending'[p] = pending[p] /\ completed'[p] = completed[p] /\ chain'[p] = chain[p]
    /\ uncertain'[p] = uncertain[p] /\ UNCHANGED storeVars

Stages(p) ==
    /\ pc[p] = "staged" /\ job'[p] = job[p]
    /\ pc'[p] = "snapshot" \/ (pc'[p] = "generate" /\ job[p] # "baseline_ready")
    /\ completed'[p] = Append(completed[p], gen[p]) /\ pending'[p] = <<>>
    /\ attempt'[p] = attempt[p] /\ resume'[p] = resume[p] /\ gen'[p] = gen[p]
    /\ latest'[p] = latest[p] /\ chain'[p] = chain[p] /\ uncertain'[p] = uncertain[p]
    /\ UNCHANGED storeVars

(* Everything that moves the call on and leaves its writer alone. *)
WalksOutside(p) ==
    \/ pc[p] \in {"idle", "finish"} /\ pc'[p] = "idle"
    \/ pc[p] = "lookup" /\ pc'[p] \in {"reuse", "begin"}

WalksIn(p) ==
    \/ pc[p] = "announce" /\ pc'[p] = "snapshot" /\ job'[p] = "resumed"
    \/ pc[p] = "generate" /\ gen[p] >= MaxGen /\ completed[p] # <<>>
       /\ pc'[p] = "snapshot" /\ job'[p] = "flush_terminal"
    \/ pc[p] = "generate" /\ gen[p] >= MaxGen /\ completed[p] = <<>> /\ pc'[p] = "complete"
    \/ pc[p] = "failing" /\ uncertain[p] = "none" /\ completed[p] # <<>>
       /\ pc'[p] = "snapshot" /\ job'[p] = "flush_failure"
    \/ pc[p] = "failing" /\ uncertain[p] = "none" /\ completed[p] = <<>> /\ pc'[p] = "fail_event"
    \/ pc[p] = "complete" /\ pc'[p] = "snapshot" /\ job'[p] = "completed"
    \/ pc[p] = "fail_event" /\ pc'[p] = "snapshot" /\ job'[p] = "failed"
    \/ pc[p] = "snapshot" /\ pc'[p] = "commit" /\ job'[p] = job[p]

WalksOut(p) ==
    \/ pc[p] = "notify" /\ job[p] \in {"resumed", "baseline_ready", "generation_ready"}
       /\ pc'[p] = "generate"
    \/ pc[p] = "notify" /\ job[p] = "flush_terminal" /\ pc'[p] = "complete"
    \/ pc[p] = "notify" /\ job[p] = "flush_failure" /\ pc'[p] = "fail_event"
    \/ pc[p] = "notify" /\ job[p] \in FailingNotices /\ pc'[p] = "failing"
    \/ pc[p] \in {"announce", "baseline", "generate", "evaluated", "barrier", "complete"}
       /\ pc'[p] = "failing"

Walks(p) ==
    /\ Rests(p) /\ UNCHANGED storeVars
    /\ WalksOutside(p) \/ WalksIn(p) \/ WalksOut(p)

Commits(p) == Rests(p) /\ Publishes(p) /\ pc'[p] = "clear" /\ job'[p] = job[p]

Clears(p) ==
    /\ pc[p] = "clear" /\ job'[p] = job[p] /\ UNCHANGED storeVars
    /\ pc'[p] = (IF job[p] = "failed" THEN "record" ELSE "notify")
    /\ chain'[p] = ChainAfter(chain[p], PublishedSegments(p))
    /\ IF job[p] \in SegmentJobs
       THEN completed'[p] = <<>> /\ latest'[p] = NoState /\ pending'[p] = pending[p]
       ELSE completed'[p] = completed[p] /\ latest'[p] = latest[p] /\ pending'[p] = <<>>
    /\ attempt'[p] = attempt[p] /\ resume'[p] = resume[p] /\ gen'[p] = gen[p]
    /\ uncertain'[p] = uncertain[p]

(* An exception inside the writer's critical section. *)
Escapes(p) ==
    /\ pc[p] \in Holding /\ pc'[p] = "failing" /\ job'[p] = job[p]
    /\ job[p] \notin {"flush_failure", "failed"}
    /\ \/ pc[p] # "commit" /\ uncertain'[p] = "none" /\ UNCHANGED storeVars
       \/ /\ pc[p] = "commit" /\ uncertain'[p] # "none"
          /\ UNCHANGED storeVars \/ Publishes(p)
    /\ \/ pending'[p] = pending[p] /\ chain'[p] = chain[p]
       \/ AsyncSignals /\ pc[p] = "staged" /\ pending'[p] = <<>> /\ chain'[p] = chain[p]
       \/ /\ AsyncSignals /\ pc[p] = "clear" /\ pending'[p] = pending[p]
          /\ chain'[p] = ChainAfter(chain[p], PublishedSegments(p))
    /\ pc[p] \in {"staged", "clear", "record"} => AsyncSignals
    /\ attempt'[p] = attempt[p] /\ resume'[p] = resume[p] /\ gen'[p] = gen[p]
    /\ completed'[p] = completed[p] /\ latest'[p] = latest[p]

Move(p) ==
    \/ Leaves(p) \/ Starts(p) \/ Allocates(p) \/ Opens(p) \/ Evaluates(p) \/ Tells(p)
    \/ StoresState(p) \/ Stages(p) \/ Walks(p) \/ Commits(p) \/ Clears(p) \/ Escapes(p)

LEMMA LeaveMoves ==
    ASSUME TypeInv, NEW p \in Procs, Forget(p), NEW label \in {"idle", "finish"}, Goto(p, label)
    PROVE  OnlyCaller(p) /\ Leaves(p)
<1>1. OnlyCaller(p)
  BY DEF Forget, Goto, OnlyCaller, Untouched, Same, TypeInv, TypeOK, CallType, WriterType
<1>2. Leaves(p)
  BY DEF Forget, Goto, Leaves, TypeInv, TypeOK, CallType, WriterType
<1> QED BY <1>1, <1>2

LEMMA EscapeMoves ==
    ASSUME TypeInv, NEW p \in Procs, NEW outcome, NEW buffered, NEW links,
           Escape(p, outcome, buffered, links)
    PROVE  /\ OnlyCaller(p)
           /\ \/ Leaves(p)
              \/ /\ pc'[p] = "failing" /\ job'[p] = job[p] /\ uncertain'[p] = outcome
                 /\ job[p] \notin {"flush_failure", "failed"}
                 /\ pending'[p] = buffered /\ chain'[p] = links
                 /\ attempt'[p] = attempt[p] /\ resume'[p] = resume[p] /\ gen'[p] = gen[p]
                 /\ completed'[p] = completed[p] /\ latest'[p] = latest[p]
<1>1. CASE job[p] \in {"flush_failure", "failed"}
  BY <1>1, LeaveMoves DEF Escape, End
<1>2. CASE job[p] \notin {"flush_failure", "failed"}
  <2>1. /\ Goto(p, "failing") /\ uncertain' = [uncertain EXCEPT ![p] = outcome]
        /\ pending' = [pending EXCEPT ![p] = buffered] /\ chain' = [chain EXCEPT ![p] = links]
        /\ UNCHANGED <<job, callVars, completed, latest, snap>>
    BY <1>2 DEF Escape
  <2>2. OnlyCaller(p)
    BY <2>1 DEF Goto, OnlyCaller, Untouched, Same, callVars, TypeInv, TypeOK, CallType, WriterType
  <2>3. /\ pc'[p] = "failing" /\ uncertain'[p] = outcome /\ pending'[p] = buffered
        /\ chain'[p] = links
    BY <2>1 DEF Goto, TypeInv, TypeOK, CallType, WriterType
  <2>4. /\ job'[p] = job[p] /\ attempt'[p] = attempt[p] /\ resume'[p] = resume[p]
        /\ gen'[p] = gen[p] /\ completed'[p] = completed[p] /\ latest'[p] = latest[p]
    BY <2>1 DEF callVars
  <2> QED BY <1>2, <2>2, <2>3, <2>4
<1> QED BY <1>1, <1>2

LEMMA StartMoves ==
    ASSUME TypeInv, ConstantAssumption, NEW p \in Procs, Start(p)
    PROVE  OnlyCaller(p) /\ Move(p)
<1>1. OnlyCaller(p)
  BY DEF Start, Goto, OnlyCaller, Untouched, Same, callVars, writerVars, TypeInv, TypeOK, CallType, WriterType
<1>2. Starts(p)
  BY DEF Start, Goto, Starts, Rests, Kept, callVars, writerVars, storeVars, TypeInv, TypeOK, CallType, WriterType
<1> QED BY <1>1, <1>2 DEF Move

LEMMA RecoverMoves ==
    ASSUME TypeInv, ConstantAssumption, NEW p \in Procs, Recover(p)
    PROVE  OnlyCaller(p) /\ Move(p)
<1>1. OnlyCaller(p)
  BY DEF Recover, Goto, OnlyCaller, Untouched, Same, callVars, writerVars, TypeInv, TypeOK, CallType, WriterType, WalksOutside
<1>2. Walks(p)
  BY DEF Recover, Goto, Walks, Rests, Kept, callVars, writerVars, storeVars, TypeInv, TypeOK, CallType, WriterType, WalksOutside
<1> QED BY <1>1, <1>2 DEF Move

LEMMA FinishMoves ==
    ASSUME TypeInv, ConstantAssumption, NEW p \in Procs, Finish(p)
    PROVE  OnlyCaller(p) /\ Move(p)
<1>1. OnlyCaller(p)
  BY DEF Finish, Goto, OnlyCaller, Untouched, Same, callVars, writerVars, TypeInv, TypeOK, CallType, WriterType, WalksOutside
<1>2. Walks(p)
  BY DEF Finish, Goto, Walks, Rests, Kept, callVars, writerVars, storeVars, TypeInv, TypeOK, CallType, WriterType, WalksOutside
<1> QED BY <1>1, <1>2 DEF Move

LEMMA BeginMoves ==
    ASSUME TypeInv, ConstantAssumption, NEW p \in Procs, Begin(p)
    PROVE  OnlyCaller(p) /\ Move(p)
<1>1. OnlyCaller(p)
  BY DEF Begin, Goto, OnlyCaller, Untouched, Same, callVars, writerVars, TypeInv, TypeOK, CallType, WriterType, Begins, AttemptFact, Current
<1>2. Allocates(p)
  BY DEF Begin, Goto, Allocates, Rests, Kept, callVars, writerVars, storeVars, TypeInv, TypeOK, CallType, WriterType, Begins, AttemptFact, Current
<1> QED BY <1>1, <1>2 DEF Move

LEMMA AnnounceMoves ==
    ASSUME TypeInv, ConstantAssumption, NEW p \in Procs, Announce(p)
    PROVE  OnlyCaller(p) /\ Move(p)
<1>1. OnlyCaller(p)
  BY DEF Announce, Goto, OnlyCaller, Untouched, Same, callVars, writerVars, TypeInv, TypeOK, CallType, WriterType, WalksIn
<1>2. Walks(p)
  BY DEF Announce, Goto, Walks, Rests, Kept, callVars, writerVars, storeVars, TypeInv, TypeOK, CallType, WriterType, WalksIn
<1> QED BY <1>1, <1>2 DEF Move

LEMMA EvaluateMoves ==
    ASSUME TypeInv, ConstantAssumption, NEW p \in Procs, Evaluate(p)
    PROVE  OnlyCaller(p) /\ Move(p)
<1>1. OnlyCaller(p)
  BY DEF Evaluate, Goto, OnlyCaller, Untouched, Same, callVars, writerVars, TypeInv, TypeOK, CallType, WriterType
<1>2. Evaluates(p)
  BY DEF Evaluate, Goto, Evaluates, Rests, Kept, callVars, writerVars, storeVars, TypeInv, TypeOK, CallType, WriterType
<1> QED BY <1>1, <1>2 DEF Move

LEMMA TellMoves ==
    ASSUME TypeInv, ConstantAssumption, NEW p \in Procs, Tell(p)
    PROVE  OnlyCaller(p) /\ Move(p)
<1>1. OnlyCaller(p)
  BY DEF Tell, Goto, OnlyCaller, Untouched, Same, callVars, writerVars, TypeInv, TypeOK, CallType, WriterType
<1>2. Tells(p)
  BY DEF Tell, Goto, Tells, Rests, Kept, callVars, writerVars, storeVars, TypeInv, TypeOK, CallType, WriterType
<1> QED BY <1>1, <1>2 DEF Move

LEMMA EnterBarrierMoves ==
    ASSUME TypeInv, ConstantAssumption, NEW p \in Procs, EnterBarrier(p)
    PROVE  OnlyCaller(p) /\ Move(p)
<1>1. OnlyCaller(p)
  BY DEF EnterBarrier, Goto, OnlyCaller, Untouched, Same, callVars, writerVars, TypeInv, TypeOK, CallType, WriterType
<1>2. StoresState(p)
  BY DEF EnterBarrier, Goto, StoresState, Rests, Kept, callVars, writerVars, storeVars, TypeInv, TypeOK, CallType, WriterType
<1> QED BY <1>1, <1>2 DEF Move

LEMMA StageMoves ==
    ASSUME TypeInv, ConstantAssumption, NEW p \in Procs, Stage(p)
    PROVE  OnlyCaller(p) /\ Move(p)
<1>1. OnlyCaller(p)
  BY DEF Stage, Goto, OnlyCaller, Untouched, Same, callVars, writerVars, TypeInv, TypeOK, CallType, WriterType
<1>2. Stages(p)
  BY DEF Stage, Goto, Stages, Rests, Kept, callVars, writerVars, storeVars, TypeInv, TypeOK, CallType, WriterType
<1> QED BY <1>1, <1>2 DEF Move

LEMMA FlushMoves ==
    ASSUME TypeInv, ConstantAssumption, NEW p \in Procs, Flush(p)
    PROVE  OnlyCaller(p) /\ Move(p)
<1>1. OnlyCaller(p)
  BY DEF Flush, Goto, OnlyCaller, Untouched, Same, callVars, writerVars, TypeInv, TypeOK, CallType, WriterType, WalksIn, FlushesTail
<1>2. Walks(p)
  BY DEF Flush, Goto, Walks, Rests, Kept, callVars, writerVars, storeVars, TypeInv, TypeOK, CallType, WriterType, WalksIn, FlushesTail
<1> QED BY <1>1, <1>2 DEF Move

LEMMA EnterEventMoves ==
    ASSUME TypeInv, ConstantAssumption, NEW p \in Procs, EnterEvent(p)
    PROVE  OnlyCaller(p) /\ Move(p)
<1>1. OnlyCaller(p)
  BY DEF EnterEvent, Goto, OnlyCaller, Untouched, Same, callVars, writerVars, TypeInv, TypeOK, CallType, WriterType, WalksIn
<1>2. Walks(p)
  BY DEF EnterEvent, Goto, Walks, Rests, Kept, callVars, writerVars, storeVars, TypeInv, TypeOK, CallType, WriterType, WalksIn
<1> QED BY <1>1, <1>2 DEF Move

LEMMA CommitMoves ==
    ASSUME TypeInv, ConstantAssumption, NEW p \in Procs, Commit(p)
    PROVE  OnlyCaller(p) /\ Move(p)
<1>1. OnlyCaller(p)
  BY DEF Commit, Goto, OnlyCaller, Untouched, Same, callVars, writerVars, TypeInv, TypeOK, CallType, WriterType, Publishes
<1>2. Commits(p)
  BY DEF Commit, Goto, Commits, Rests, Kept, callVars, writerVars, storeVars, TypeInv, TypeOK, CallType, WriterType, Publishes
<1> QED BY <1>1, <1>2 DEF Move

LEMMA ClearMoves ==
    ASSUME TypeInv, ConstantAssumption, NEW p \in Procs, Clear(p)
    PROVE  OnlyCaller(p) /\ Move(p)
<1>1. OnlyCaller(p)
  BY DEF Clear, Goto, OnlyCaller, Untouched, Same, callVars, writerVars, TypeInv, TypeOK, CallType, WriterType, EmptyStaged
<1>2. Clears(p)
  BY DEF Clear, Goto, Clears, Rests, Kept, callVars, writerVars, storeVars, TypeInv, TypeOK, CallType, WriterType, EmptyStaged
<1> QED BY <1>1, <1>2 DEF Move

LEMMA CallbackRaisesMoves ==
    ASSUME TypeInv, ConstantAssumption, NEW p \in Procs, CallbackRaises(p)
    PROVE  OnlyCaller(p) /\ Move(p)
<1>1. OnlyCaller(p)
  BY DEF CallbackRaises, Goto, OnlyCaller, Untouched, Same, callVars, writerVars, TypeInv, TypeOK, CallType, WriterType, WalksOut
<1>2. Walks(p)
  BY DEF CallbackRaises, Goto, Walks, Rests, Kept, callVars, writerVars, storeVars, TypeInv, TypeOK, CallType, WriterType, WalksOut
<1> QED BY <1>1, <1>2 DEF Move

LEMMA ReuseMoves ==
    ASSUME TypeInv, ConstantAssumption, NEW p \in Procs, Reuse(p)
    PROVE  OnlyCaller(p) /\ Move(p)
BY LeaveMoves DEF Reuse, End, Move

LEMMA RecordMoves ==
    ASSUME TypeInv, ConstantAssumption, NEW p \in Procs, Record(p)
    PROVE  OnlyCaller(p) /\ Move(p)
BY LeaveMoves DEF Record, End, Move

LEMMA GiveUpMoves ==
    ASSUME TypeInv, ConstantAssumption, NEW p \in Procs, GiveUp(p)
    PROVE  OnlyCaller(p) /\ Move(p)
BY LeaveMoves DEF GiveUp, End, Move

LEMMA CrashMoves ==
    ASSUME TypeInv, ConstantAssumption, NEW p \in Procs, Crash(p)
    PROVE  OnlyCaller(p) /\ Move(p)
BY LeaveMoves DEF Crash, End, Move

LEMMA LookupMoves ==
    ASSUME TypeInv, ConstantAssumption, NEW p \in Procs, Lookup(p)
    PROVE  OnlyCaller(p) /\ Move(p)
<1>1. CASE End(p)
  BY <1>1, LeaveMoves DEF End, Move
<1>2. CASE ~hot /\ Goto(p, IF resume[p] = Fresh /\ selected # {} THEN "reuse" ELSE "begin")
           /\ UNCHANGED <<job, callVars, writerVars, snap>>
  <2>1. OnlyCaller(p)
    BY <1>2 DEF Lookup, Goto, OnlyCaller, Untouched, Same, callVars, writerVars, TypeInv, TypeOK, CallType, WriterType
  <2>2. Walks(p)
    BY <1>2 DEF Lookup, Goto, Walks, Rests, Kept, callVars, writerVars, storeVars, TypeInv, TypeOK, CallType, WriterType, WalksOutside
  <2> QED BY <2>1, <2>2 DEF Move
<1> QED BY <1>1, <1>2 DEF Lookup

LEMMA OpenMoves ==
    ASSUME TypeInv, ConstantAssumption, NEW p \in Procs, Open(p)
    PROVE  OnlyCaller(p) /\ Move(p)
<1>1. CASE End(p)
  BY <1>1, LeaveMoves DEF End, Move
<1>2. CASE /\ ~hot
           /\ history' = [history EXCEPT ![TaskOf[p]] = Append(@, Change("running", attempt[p], 0, NoEvent))]
           /\ chain' = [chain EXCEPT ![p] = resume[p].chain]
           /\ gen' = [gen EXCEPT ![p] = resume[p].cma]
           /\ Goto(p, IF resume[p] = Fresh THEN "baseline" ELSE "announce")
           /\ UNCHANGED <<job, attempt, resume, pending, completed, latest, uncertain, snap>>
  <2>1. OnlyCaller(p)
    BY <1>2 DEF Open, Goto, OnlyCaller, Untouched, Same, callVars, writerVars, TypeInv, TypeOK, CallType, WriterType
  <2>2. Opens(p)
    BY <1>2 DEF Open, Goto, Opens, Rests, Kept, callVars, writerVars, storeVars, TypeInv, TypeOK, CallType, WriterType, Updates
  <2> QED BY <2>1, <2>2 DEF Move
<1> QED BY <1>1, <1>2 DEF Open

LEMMA NotifyMoves ==
    ASSUME TypeInv, ConstantAssumption, NEW p \in Procs, Notify(p)
    PROVE  OnlyCaller(p) /\ Move(p)
<1>1. CASE End(p)
  BY <1>1, LeaveMoves DEF End, Move
<1>2. CASE /\ job[p] # "completed"
           /\ Goto(p, AfterNotify[job[p]])
           /\ UNCHANGED <<job, callVars, writerVars, snap>>
  <2>1. OnlyCaller(p)
    BY <1>2 DEF Notify, Goto, OnlyCaller, Untouched, Same, callVars, writerVars, TypeInv, TypeOK, CallType, WriterType
  <2>2. Walks(p)
    BY <1>2 DEF Notify, Goto, Walks, Rests, Kept, callVars, writerVars, storeVars, TypeInv, TypeOK, CallType, WriterType, WalksOut, AfterNotify, JobOK, JobAt, SegmentJobs, BarrierJobs, FlushJobs, EventJobs
  <2> QED BY <2>1, <2>2 DEF Move
<1> QED BY <1>1, <1>2 DEF Notify

LEMMA FaultMoves ==
    ASSUME TypeInv, ConstantAssumption, NEW p \in Procs, Fault(p)
    PROVE  OnlyCaller(p) /\ Move(p)
<1>1. CASE End(p)
  BY <1>1, LeaveMoves DEF End, Move
<1>2. CASE /\ pc[p] \in {"announce", "baseline", "generate", "evaluated", "barrier", "complete"}
           /\ Goto(p, "failing")
           /\ UNCHANGED <<job, callVars, writerVars, snap>>
  <2>1. OnlyCaller(p)
    BY <1>2 DEF Fault, Goto, OnlyCaller, Untouched, Same, callVars, writerVars, TypeInv, TypeOK, CallType, WriterType
  <2>2. Walks(p)
    BY <1>2 DEF Fault, Goto, Walks, Rests, Kept, callVars, writerVars, storeVars, TypeInv, TypeOK, CallType, WriterType, WalksOut
  <2> QED BY <2>1, <2>2 DEF Move
<1> QED BY <1>1, <1>2 DEF Fault

LEMMA FactErrorMoves ==
    ASSUME TypeInv, ConstantAssumption, NEW p \in Procs, FactError(p)
    PROVE  OnlyCaller(p) /\ Move(p)
<1>1. CASE End(p)
  BY <1>1, LeaveMoves DEF End, Move
<1>2. CASE /\ pc[p] = "open"
           /\ UNCHANGED history
              \/ history' = [history EXCEPT ![TaskOf[p]] =
                               Append(@, Change("running", attempt[p], 0, NoEvent))]
           /\ Goto(p, "failing")
           /\ chain' = [chain EXCEPT ![p] = resume[p].chain]
           /\ UNCHANGED <<attempts, planLock, job, callVars, pending, completed, latest,
                          uncertain, snap>>
  <2>1. OnlyCaller(p)
    BY <1>2 DEF FactError, Goto, OnlyCaller, Untouched, Same, callVars, writerVars, TypeInv, TypeOK, CallType, WriterType
  <2>2. UNCHANGED storeVars \/ Updates(p)
    BY <1>2 DEF FactError, Updates, storeVars
  <2>3. /\ pc'[p] = "failing" /\ chain'[p] = resume[p].chain
        /\ UNCHANGED <<callVars, pending, completed, latest, uncertain>>
    BY <1>2 DEF Goto, TypeInv, TypeOK, CallType, WriterType
  <2>4. Opens(p)
    BY <1>2, <2>2, <2>3 DEF Opens, callVars
  <2> QED BY <2>1, <2>4 DEF Move
<1> QED BY <1>1, <1>2 DEF FactError

LEMMA RaiseMoves ==
    ASSUME TypeInv, NEW p \in Procs, NEW outcome, Raise(p, outcome), pc[p] \in Holding,
           \/ pc[p] # "commit" /\ outcome = "none" /\ UNCHANGED storeVars
           \/ pc[p] = "commit" /\ outcome # "none" /\ (UNCHANGED storeVars \/ Publishes(p)),
           pc[p] \in {"staged", "clear", "record"} => AsyncSignals
    PROVE  OnlyCaller(p) /\ Move(p)
BY EscapeMoves DEF Raise, Escapes, Move

LEMMA RaisingMoves ==
    ASSUME TypeInv, NEW p \in Procs, Reject(p) \/ CommitError(p) \/ (Snapshot(p) /\ hot)
    PROVE  OnlyCaller(p) /\ Move(p)
<1>1. CASE Snapshot(p) /\ hot
  BY <1>1, RaiseMoves DEF Snapshot, Holding
<1>2. CASE Reject(p)
  BY <1>2, RaiseMoves DEF Reject, Holding
<1>3. CASE CommitError(p)
  <2>1. PICK outcome \in {"committed", "not_committed", "unknown"} :
           Raise(p, outcome) /\ (UNCHANGED storeVars \/ Publishes(p))
    BY <1>3 DEF CommitError, Publishes
  <2>2. pc[p] = "commit"
    BY <1>3 DEF CommitError
  <2> QED BY <2>1, <2>2, RaiseMoves DEF Holding
<1> QED BY <1>1, <1>2, <1>3

LEMMA SnapshotMoves ==
    ASSUME TypeInv, ConstantAssumption, NEW p \in Procs, Snapshot(p)
    PROVE  OnlyCaller(p) /\ Move(p)
<1>1. CASE hot
  BY <1>1, RaisingMoves
<1>2. CASE /\ ~hot
           /\ snap' = [snap EXCEPT ![p] = [rev |-> Len(history[TaskOf[p]]), seq |-> nextSeq[TaskOf[p]]]]
           /\ Goto(p, "commit")
           /\ UNCHANGED <<planLock, job, callVars, writerVars>>
  <2>1. OnlyCaller(p)
    BY <1>2 DEF Snapshot, Goto, OnlyCaller, Untouched, Same, callVars, writerVars, TypeInv, TypeOK, CallType, WriterType
  <2>2. Walks(p)
    BY <1>2 DEF Snapshot, Goto, Walks, Rests, Kept, callVars, writerVars, storeVars, TypeInv, TypeOK, CallType, WriterType, WalksIn
  <2> QED BY <2>1, <2>2 DEF Move
<1> QED BY <1>1, <1>2 DEF Snapshot


LEMMA InterruptMoves ==
    ASSUME TypeInv, NEW p \in Procs, Interrupt(p)
    PROVE  OnlyCaller(p) /\ Move(p)
<1>0. AsyncSignals /\ UNCHANGED storeVars
  BY DEF Interrupt
<1>1. CASE pc[p] \in {"snapshot", "commit", "record"}
  BY <1>0, <1>1, RaiseMoves DEF Interrupt, Holding
<1>2. CASE pc[p] = "staged"
  <2>1. PICK buffered \in {pending[p], <<>>} : Escape(p, "none", buffered, chain[p])
    BY <1>2 DEF Interrupt
  <2> QED BY <1>0, <1>2, <2>1, EscapeMoves DEF Escapes, Move, Holding
<1>3. CASE pc[p] = "clear"
  <2>1. PICK links \in {chain[p], ChainAfter(chain[p], PublishedSegments(p))} :
           Escape(p, "none", pending[p], links)
    BY <1>3 DEF Interrupt
  <2> QED BY <1>0, <1>3, <2>1, EscapeMoves DEF Escapes, Move, Holding
<1> QED BY <1>1, <1>2, <1>3 DEF Interrupt

LEMMA StepMoves ==
    ASSUME TypeInv, ConstantAssumption, NEW p \in Procs, Step(p)
    PROVE  OnlyCaller(p) /\ Move(p)
<1>1. CASE Start(p) \/ Recover(p)
  BY <1>1, StartMoves, RecoverMoves
<1>2. CASE Progress(p)
  BY <1>2, LookupMoves, ReuseMoves, BeginMoves, OpenMoves, AnnounceMoves, EvaluateMoves, TellMoves,
     EnterBarrierMoves, StageMoves, FlushMoves, EnterEventMoves, SnapshotMoves, CommitMoves,
     RaisingMoves, ClearMoves, RecordMoves, NotifyMoves, GiveUpMoves, FinishMoves DEF Progress
<1>3. CASE Disturbance(p)
  BY <1>3, RaisingMoves, FactErrorMoves, FaultMoves, CallbackRaisesMoves, InterruptMoves, CrashMoves
     DEF Disturbance
<1> QED BY <1>1, <1>2, <1>3 DEF Step

-----------------------------------------------------------------------------
(* What is staged *)

CallTypes(p) ==
    /\ gen[p] \in Nat /\ attempt[p] \in Nat /\ resume[p] \in CheckpointType
    /\ pending[p] \in Seq(Nat) /\ completed[p] \in Seq(Nat) /\ chain[p] \in Seq(Nat)
    /\ latest[p] \in Nat \cup {NoState} /\ TaskOf[p] \in Tasks /\ Current(TaskOf[p]) \in Nat

LEMMA CallTyped ==
    ASSUME TypeInv, ConstantAssumption, NEW p \in Procs
    PROVE  CallTypes(p)
BY LenProperties DEF TypeInv, TypeOK, StoreType, CallType, WriterType, CallTypes, ConstantAssumption,
   Current

Grows(p) == Current(TaskOf[p])' \in Nat /\ Current(TaskOf[p])' >= Current(TaskOf[p])

(* The links of an attempt after a publication of what is staged. *)
LEMMA LinksAfter ==
    ASSUME NEW links \in Seq(Nat), NEW segments \in Seq(Nat)
    PROVE  /\ segments = <<0>> => ChainAfter(links, segments) = <<>>
           /\ segments = <<>> => ChainAfter(links, segments) = links
           /\ segments # <<>> /\ (\A i \in 1 .. Len(segments) : segments[i] > 0) =>
                 /\ ChainAfter(links, segments) # <<>>
                 /\ LastOf(ChainAfter(links, segments)) = LastOf(segments)
<1>1. segments = <<0>> => ChainAfter(links, segments) = <<>>
  BY DEF ChainAfter
<1>2. segments = <<>> => ChainAfter(links, segments) = links
  BY DEF ChainAfter
<1>3. ASSUME segments # <<>>, \A i \in 1 .. Len(segments) : segments[i] > 0
      PROVE  /\ ChainAfter(links, segments) # <<>>
             /\ LastOf(ChainAfter(links, segments)) = LastOf(segments)
  <2>1. Len(segments) \in Nat /\ Len(segments) > 0 /\ Len(links) \in Nat
    BY <1>3, EmptySeq, LenProperties
  <2>2. ChainAfter(links, segments) = links \o segments
    BY <1>3, <2>1 DEF ChainAfter
  <2>3. Len(links \o segments) = Len(links) + Len(segments)
        /\ (links \o segments)[Len(links) + Len(segments)] = segments[Len(segments)]
    BY <2>1, Joined
  <2>4. links \o segments # <<>>
    BY <2>1, <2>3, EmptySeq
  <2> QED BY <2>2, <2>3, <2>4 DEF LastOf
<1> QED BY <1>1, <1>2, <1>3

LEMMA UntouchedStage ==
    ASSUME TypeInv, ConstantAssumption, NEW q \in Procs, StageAt(q), Untouched(q), Grows(q)
    PROVE  StageAt(q)'
<1>0. CallTypes(q)
  BY CallTyped
<1>1. ClaimOK(q)'
  BY <1>0 DEF StageAt, ClaimOK, Untouched, Same, Grows, CallTypes
<1>2. StagedOK(q)'
  BY DEF StageAt, StagedOK, Untouched, Same, BaselineStaged, GenerationsStaged, InPublication, AtBaseline
<1>3. GenOK(q)' /\ StateOK(q)' /\ ResumeOK(q)' /\ LinkOK(q)'
  BY DEF StageAt, GenOK, StateOK, ResumeOK, LinkOK, Untouched, Same, Telling, InPublication, AtBarrier
<1> QED BY <1>1, <1>2, <1>3 DEF StageAt

LEMMA LeavesStage ==
    ASSUME StageInv, ConstantAssumption, NEW p \in Procs, Leaves(p), Grows(p)
    PROVE  StageAt(p)'
<1>0. CallTypes(p) /\ StageAt(p) /\ JobAt(p) /\ MaxGen \in Nat
  BY CallTyped DEF StageInv, TypeInv, JobOK, ConstantAssumption
<1>1. ClaimOK(p)'
  BY <1>0 DEF Leaves, StageAt, ClaimOK, Unclaimed, Grows, CallTypes, NoState
<1>2. StagedOK(p)'
  BY <1>0 DEF Leaves, StageAt, ClaimOK, Unclaimed, StagedOK, BaselineStaged, GenerationsStaged,
     InPublication, AtBaseline, CallTypes, JobAt, BarrierJobs, FlushJobs, SegmentJobs, EventJobs
<1>3. GenOK(p)'
  BY <1>0 DEF Leaves, StageAt, ClaimOK, Unclaimed, StagedOK, GenOK, BaselineStaged, GenerationsStaged,
     InPublication, AtBaseline, AtBarrier, Telling, ResumeOK, CallTypes, JobAt, Fresh, BarrierJobs, FlushJobs, SegmentJobs, EventJobs
<1>4. StateOK(p)'
  BY <1>0 DEF Leaves, StageAt, ClaimOK, Unclaimed, StagedOK, GenOK, StateOK, BaselineStaged,
     InPublication, AtBaseline, AtBarrier, CallTypes, JobAt, NoState, BarrierJobs, FlushJobs, SegmentJobs, EventJobs
<1>5. ResumeOK(p)'
  BY <1>0 DEF Leaves, StageAt, ResumeOK, CallTypes, Fresh
<1>6. LinkOK(p)'
  BY <1>0 DEF Leaves, StageAt, LinkOK
<1> QED BY <1>1, <1>2, <1>3, <1>4, <1>5, <1>6 DEF StageAt

LEMMA StartsStage ==
    ASSUME StageInv, ConstantAssumption, NEW p \in Procs, Starts(p), Grows(p)
    PROVE  StageAt(p)'
<1>0. CallTypes(p) /\ StageAt(p) /\ JobAt(p) /\ MaxGen \in Nat
  BY CallTyped DEF StageInv, TypeInv, JobOK, ConstantAssumption
<1>1. ClaimOK(p)'
  BY <1>0 DEF Starts, StageAt, ClaimOK, Unclaimed, Grows, CallTypes, NoState
<1>2. StagedOK(p)'
  BY <1>0 DEF Starts, StageAt, ClaimOK, Unclaimed, StagedOK, BaselineStaged, GenerationsStaged,
     InPublication, AtBaseline, CallTypes, JobAt, BarrierJobs, FlushJobs, SegmentJobs, EventJobs
<1>3. GenOK(p)'
  BY <1>0 DEF Starts, StageAt, ClaimOK, Unclaimed, StagedOK, GenOK, BaselineStaged, GenerationsStaged,
     InPublication, AtBaseline, AtBarrier, Telling, ResumeOK, CallTypes, JobAt, Fresh, BarrierJobs, FlushJobs, SegmentJobs, EventJobs
<1>4. StateOK(p)'
  BY <1>0 DEF Starts, StageAt, ClaimOK, Unclaimed, StagedOK, GenOK, StateOK, BaselineStaged,
     InPublication, AtBaseline, AtBarrier, CallTypes, JobAt, NoState, BarrierJobs, FlushJobs, SegmentJobs, EventJobs
<1>5. ResumeOK(p)'
  <2>1. CASE resume'[p] = Fresh
    BY <1>0, <2>1 DEF ResumeOK, Fresh
  <2>2. ASSUME NEW i \in DOMAIN checkpoints[TaskOf[p]], resume'[p] = checkpoints[TaskOf[p]][i]
        PROVE  ResumeOK(p)'
    BY <1>0, <2>2 DEF StageInv, PointsOK, ResumeOK, CallTypes
  <2> QED BY <2>1, <2>2 DEF Starts
<1>6. LinkOK(p)'
  BY <1>0 DEF Starts, StageAt, LinkOK
<1> QED BY <1>1, <1>2, <1>3, <1>4, <1>5, <1>6 DEF StageAt

LEMMA AllocatesStage ==
    ASSUME StageInv, ConstantAssumption, NEW p \in Procs, Allocates(p), Grows(p)
    PROVE  StageAt(p)'
<1>0. CallTypes(p) /\ StageAt(p) /\ JobAt(p) /\ MaxGen \in Nat
  BY CallTyped DEF StageInv, TypeInv, JobOK, ConstantAssumption
<1>1. ClaimOK(p)'
  <2>1. Current(TaskOf[p])' = Current(TaskOf[p]) + 1
    BY BeginsStore DEF StageInv, Allocates
  <2> QED BY <1>0, <2>1 DEF Allocates, Kept, Begins, StageAt, ClaimOK, Unclaimed, CallTypes
<1>2. StagedOK(p)'
  BY <1>0 DEF Allocates, Kept, Begins, StageAt, ClaimOK, Unclaimed, StagedOK, BaselineStaged, GenerationsStaged,
     InPublication, AtBaseline, CallTypes, JobAt, BarrierJobs, FlushJobs, SegmentJobs, EventJobs
<1>3. GenOK(p)'
  BY <1>0 DEF Allocates, Kept, Begins, StageAt, ClaimOK, Unclaimed, StagedOK, GenOK, BaselineStaged, GenerationsStaged,
     InPublication, AtBaseline, AtBarrier, Telling, ResumeOK, CallTypes, JobAt, Fresh, BarrierJobs, FlushJobs, SegmentJobs, EventJobs
<1>4. StateOK(p)'
  BY <1>0 DEF Allocates, Kept, Begins, StageAt, ClaimOK, Unclaimed, StagedOK, GenOK, StateOK, BaselineStaged,
     InPublication, AtBaseline, AtBarrier, CallTypes, JobAt, NoState, BarrierJobs, FlushJobs, SegmentJobs, EventJobs
<1>5. ResumeOK(p)'
  BY <1>0 DEF Allocates, Kept, Begins, StageAt, ResumeOK, CallTypes, Fresh
<1>6. LinkOK(p)'
  BY <1>0 DEF Allocates, Kept, Begins, StageAt, LinkOK
<1> QED BY <1>1, <1>2, <1>3, <1>4, <1>5, <1>6 DEF StageAt

LEMMA OpensStage ==
    ASSUME StageInv, ConstantAssumption, NEW p \in Procs, Opens(p), Grows(p)
    PROVE  StageAt(p)'
<1>0. CallTypes(p) /\ StageAt(p) /\ JobAt(p) /\ MaxGen \in Nat
  BY CallTyped DEF StageInv, TypeInv, JobOK, ConstantAssumption
<1>1. ClaimOK(p)'
  BY <1>0 DEF Opens, StageAt, ClaimOK, Unclaimed, Grows, CallTypes, NoState
<1>2. StagedOK(p)'
  <2>1. completed'[p] = <<>> /\ ~AtBaseline(p) /\ resume'[p] = resume[p]
    BY <1>0 DEF Opens, StageAt, ClaimOK, AtBaseline
  <2>2. AtBaseline(p)' => chain'[p] = <<>> /\ resume'[p] = Fresh /\ gen'[p] = 0
    BY <2>1 DEF Opens, AtBaseline, Fresh
  <2>3. GenerationsStaged(p)'
    BY <2>1, EmptySeq DEF Opens, GenerationsStaged, InPublication
  <2> QED BY <2>1, <2>2, <2>3 DEF StagedOK
<1>3. GenOK(p)'
  BY <1>0 DEF Opens, StageAt, ClaimOK, Unclaimed, StagedOK, GenOK, BaselineStaged, GenerationsStaged,
     InPublication, AtBaseline, AtBarrier, Telling, ResumeOK, CallTypes, JobAt, Fresh, BarrierJobs, FlushJobs, SegmentJobs, EventJobs
<1>4. StateOK(p)'
  BY <1>0 DEF Opens, StageAt, ClaimOK, Unclaimed, StagedOK, GenOK, StateOK, BaselineStaged,
     InPublication, AtBaseline, AtBarrier, CallTypes, JobAt, NoState, BarrierJobs, FlushJobs, SegmentJobs, EventJobs
<1>5. ResumeOK(p)'
  BY <1>0 DEF Opens, StageAt, ResumeOK, CallTypes, Fresh
<1>6. LinkOK(p)'
  BY <1>0 DEF Opens, StageAt, LinkOK
<1> QED BY <1>1, <1>2, <1>3, <1>4, <1>5, <1>6 DEF StageAt

LEMMA EvaluatesStage ==
    ASSUME StageInv, ConstantAssumption, NEW p \in Procs, Evaluates(p), Grows(p)
    PROVE  StageAt(p)'
<1>0. CallTypes(p) /\ StageAt(p) /\ JobAt(p) /\ MaxGen \in Nat
  BY CallTyped DEF StageInv, TypeInv, JobOK, ConstantAssumption
<1>1. ClaimOK(p)'
  BY <1>0 DEF Evaluates, Kept, StageAt, ClaimOK, Unclaimed, Grows, CallTypes, NoState
<1>2. StagedOK(p)'
  BY <1>0 DEF Evaluates, Kept, StageAt, ClaimOK, Unclaimed, StagedOK, BaselineStaged, GenerationsStaged,
     InPublication, AtBaseline, CallTypes, JobAt, BarrierJobs, FlushJobs, SegmentJobs, EventJobs
<1>3. GenOK(p)'
  BY <1>0 DEF Evaluates, Kept, StageAt, ClaimOK, Unclaimed, StagedOK, GenOK, BaselineStaged, GenerationsStaged,
     InPublication, AtBaseline, AtBarrier, Telling, ResumeOK, CallTypes, JobAt, Fresh, BarrierJobs, FlushJobs, SegmentJobs, EventJobs
<1>4. StateOK(p)'
  BY <1>0 DEF Evaluates, Kept, StageAt, ClaimOK, Unclaimed, StagedOK, GenOK, StateOK, BaselineStaged,
     InPublication, AtBaseline, AtBarrier, CallTypes, JobAt, NoState, BarrierJobs, FlushJobs, SegmentJobs, EventJobs
<1>5. ResumeOK(p)'
  BY <1>0 DEF Evaluates, Kept, StageAt, ResumeOK, CallTypes, Fresh
<1>6. LinkOK(p)'
  BY <1>0 DEF Evaluates, Kept, StageAt, LinkOK
<1> QED BY <1>1, <1>2, <1>3, <1>4, <1>5, <1>6 DEF StageAt

LEMMA TellsStage ==
    ASSUME StageInv, ConstantAssumption, NEW p \in Procs, Tells(p), Grows(p)
    PROVE  StageAt(p)'
<1>0. CallTypes(p) /\ StageAt(p) /\ JobAt(p) /\ MaxGen \in Nat
  BY CallTyped DEF StageInv, TypeInv, JobOK, ConstantAssumption
<1>1. ClaimOK(p)'
  BY <1>0 DEF Tells, StageAt, ClaimOK, Unclaimed, Grows, CallTypes, NoState
<1>2. StagedOK(p)'
  BY <1>0 DEF Tells, StageAt, ClaimOK, Unclaimed, StagedOK, BaselineStaged, GenerationsStaged,
     InPublication, AtBaseline, CallTypes, JobAt, BarrierJobs, FlushJobs, SegmentJobs, EventJobs
<1>3. GenOK(p)'
  <2>1. completed[p] # <<>> => LastOf(completed[p]) \in Nat
    BY <1>0, LastOfType DEF CallTypes
  <2>2. gen[p] < MaxGen /\ (completed[p] # <<>> => LastOf(completed[p]) <= gen[p])
    BY <1>0 DEF Tells, StageAt, GenOK
  <2> QED BY <1>0, <2>1, <2>2 DEF Tells, GenOK, AtBarrier, InPublication, Telling, CallTypes
<1>4. StateOK(p)'
  BY <1>0 DEF Tells, StageAt, ClaimOK, Unclaimed, StagedOK, GenOK, StateOK, BaselineStaged,
     InPublication, AtBaseline, AtBarrier, CallTypes, JobAt, NoState, BarrierJobs, FlushJobs, SegmentJobs, EventJobs
<1>5. ResumeOK(p)'
  BY <1>0 DEF Tells, StageAt, ResumeOK, CallTypes, Fresh
<1>6. LinkOK(p)'
  BY <1>0 DEF Tells, StageAt, LinkOK
<1> QED BY <1>1, <1>2, <1>3, <1>4, <1>5, <1>6 DEF StageAt

LEMMA StoresStateStage ==
    ASSUME StageInv, ConstantAssumption, NEW p \in Procs, StoresState(p), Grows(p)
    PROVE  StageAt(p)'
<1>0. CallTypes(p) /\ StageAt(p) /\ JobAt(p) /\ MaxGen \in Nat
  BY CallTyped DEF StageInv, TypeInv, JobOK, ConstantAssumption
<1>1. ClaimOK(p)'
  BY <1>0 DEF StoresState, StageAt, ClaimOK, Unclaimed, Grows, CallTypes, NoState
<1>2. StagedOK(p)'
  BY <1>0 DEF StoresState, StageAt, ClaimOK, Unclaimed, StagedOK, BaselineStaged, GenerationsStaged,
     InPublication, AtBaseline, CallTypes, JobAt, BarrierJobs, FlushJobs, SegmentJobs, EventJobs
<1>3. GenOK(p)'
  BY <1>0 DEF StoresState, StageAt, ClaimOK, Unclaimed, StagedOK, GenOK, BaselineStaged, GenerationsStaged,
     InPublication, AtBaseline, AtBarrier, Telling, ResumeOK, CallTypes, JobAt, Fresh, BarrierJobs, FlushJobs, SegmentJobs, EventJobs
<1>4. StateOK(p)'
  BY <1>0 DEF StoresState, StageAt, ClaimOK, Unclaimed, StagedOK, GenOK, StateOK, BaselineStaged,
     InPublication, AtBaseline, AtBarrier, CallTypes, JobAt, NoState, BarrierJobs, FlushJobs, SegmentJobs, EventJobs
<1>5. ResumeOK(p)'
  BY <1>0 DEF StoresState, StageAt, ResumeOK, CallTypes, Fresh
<1>6. LinkOK(p)'
  BY <1>0 DEF StoresState, StageAt, LinkOK
<1> QED BY <1>1, <1>2, <1>3, <1>4, <1>5, <1>6 DEF StageAt

LEMMA StagesStage ==
    ASSUME StageInv, ConstantAssumption, NEW p \in Procs, Stages(p), Grows(p)
    PROVE  StageAt(p)'
<1>0. CallTypes(p) /\ StageAt(p) /\ JobAt(p) /\ MaxGen \in Nat
  BY CallTyped DEF StageInv, TypeInv, JobOK, ConstantAssumption
<1> DEFINE one == Append(completed[p], gen[p])
<1>a. /\ one \in Seq(Nat) /\ LastOf(one) = gen[p] /\ one # <<>>
      /\ completed[p] = <<>> => one = <<gen[p]>>
      /\ (\A i \in 1 .. Len(completed[p]) : completed[p][i] > 0) /\ gen[p] > 0 =>
            \A i \in 1 .. Len(one) : one[i] > 0
  <2>1. completed[p] \in Seq(Nat) /\ gen[p] \in Nat
    BY <1>0 DEF CallTypes
  <2>2. /\ one \in Seq(Nat) /\ Len(one) = Len(completed[p]) + 1 /\ Len(completed[p]) \in Nat
        /\ \A i \in 1 .. Len(completed[p]) : one[i] = completed[p][i]
        /\ one[Len(completed[p]) + 1] = gen[p]
    BY <2>1, AppendProperties, LenProperties
  <2>3. LastOf(one) = gen[p] /\ one # <<>>
    BY <2>1, LastOfAppend
  <2>4. completed[p] = <<>> => one = <<gen[p]>>
    OBVIOUS
  <2>5. ASSUME \A i \in 1 .. Len(completed[p]) : completed[p][i] > 0, gen[p] > 0
        PROVE  \A i \in 1 .. Len(one) : one[i] > 0
    <3> HIDE DEF one
    <3> SUFFICES ASSUME NEW i \in 1 .. Len(one)
                 PROVE  one[i] > 0
      OBVIOUS
    <3>1. i \in 1 .. Len(completed[p]) \/ i = Len(completed[p]) + 1
      BY <2>2
    <3> QED BY <2>2, <2>5, <3>1
  <2> HIDE DEF one
  <2> QED BY <2>2, <2>3, <2>4, <2>5
<1>b. /\ pc[p] = "staged" /\ completed'[p] = one /\ gen'[p] = gen[p] /\ chain'[p] = chain[p]
      /\ resume'[p] = resume[p] /\ latest'[p] = latest[p] /\ job'[p] = job[p]
      /\ job[p] \in BarrierJobs
      /\ pc'[p] = "snapshot" \/ (pc'[p] = "generate" /\ job[p] = "generation_ready")
  BY <1>0 DEF Stages, JobAt, BarrierJobs
<1> HIDE DEF one
<1>1. ClaimOK(p)'
  <2>1. /\ attempt'[p] = attempt[p] /\ uncertain'[p] = uncertain[p] /\ pc[p] = "staged"
        /\ pc'[p] \in {"snapshot", "generate"}
    BY DEF Stages
  <2>2. attempt[p] # 0 /\ attempt[p] <= Current(TaskOf[p]) /\ uncertain[p] = "none"
    BY <1>0, <2>1 DEF StageAt, ClaimOK, Unclaimed, CallTypes
  <2>3. attempt[p] <= Current(TaskOf[p])'
    BY <1>0, <2>2 DEF Grows, CallTypes
  <2>4. pc'[p] \notin Unclaimed \cup {"open", "failing"}
    BY <2>1 DEF Unclaimed
  <2> QED BY <2>1, <2>2, <2>3, <2>4 DEF ClaimOK
<1>2. StagedOK(p)'
  <2>1. CASE job[p] = "baseline_ready"
    <3>1. completed[p] = <<>> /\ chain[p] = <<>> /\ resume[p] = Fresh /\ gen[p] = 0
      BY <1>0, <1>b, <2>1 DEF StageAt, StagedOK, AtBaseline
    <3> QED BY <1>a, <1>b, <2>1, <3>1 DEF StagedOK, BaselineStaged, AtBaseline, InPublication, EventJobs
  <2>2. CASE job[p] = "generation_ready"
    <3>1. gen[p] > 0 /\ \A i \in 1 .. Len(completed[p]) : completed[p][i] > 0
      BY <1>0, <1>b, <2>2 DEF StageAt, StagedOK, GenOK, AtBarrier, BaselineStaged, GenerationsStaged,
         InPublication
    <3>2. GenerationsStaged(p)'
      BY <1>a, <1>b, <2>2, <3>1 DEF GenerationsStaged, InPublication
    <3> QED BY <1>b, <2>2, <3>2 DEF StagedOK, AtBaseline, InPublication, EventJobs
  <2> QED BY <1>b, <2>1, <2>2 DEF BarrierJobs
<1>3. GenOK(p)'
  <2>1. gen[p] \in Nat /\ gen[p] <= MaxGen /\ LastOf(one) = gen[p]
    BY <1>0, <1>a DEF StageAt, GenOK, CallTypes
  <2>2. /\ pc'[p] \notin {"evaluated", "announce", "complete"}
        /\ job'[p] \notin {"resumed", "completed", "flush_terminal"}
    BY <1>b DEF BarrierJobs
  <2>3. ~AtBarrier(p)'
    BY <1>b DEF AtBarrier, BarrierJobs
  <2>4. LastOf(completed'[p]) <= gen'[p]
    BY <1>b, <2>1
  <2>5. gen'[p] <= MaxGen
    BY <1>b, <2>1
  <2> QED BY <2>2, <2>3, <2>4, <2>5 DEF GenOK
<1>4. StateOK(p)'
  BY <1>0, <1>a, <1>b DEF StageAt, StateOK, CallTypes
<1>5. ResumeOK(p)'
  BY <1>0 DEF Stages, StageAt, ResumeOK, CallTypes, Fresh
<1>6. LinkOK(p)'
  BY <1>0 DEF Stages, StageAt, LinkOK
<1> QED BY <1>1, <1>2, <1>3, <1>4, <1>5, <1>6 DEF StageAt

LEMMA WalksStage ==
    ASSUME StageInv, ConstantAssumption, NEW p \in Procs, Walks(p), Grows(p)
    PROVE  StageAt(p)'
<1>0. CallTypes(p) /\ StageAt(p) /\ JobAt(p) /\ MaxGen \in Nat
  BY CallTyped DEF StageInv, TypeInv, JobOK, ConstantAssumption
<1>1. ClaimOK(p)'
  <2>1. /\ attempt'[p] = attempt[p] /\ completed'[p] = completed[p] /\ pending'[p] = pending[p]
        /\ chain'[p] = chain[p] /\ latest'[p] = latest[p] /\ uncertain'[p] = uncertain[p]
    BY DEF Walks, Rests, Kept
  <2>2. /\ pc'[p] \in Unclaimed <=> pc[p] \in Unclaimed
        /\ pc'[p] # "open" /\ (pc[p] = "failing" => uncertain[p] = "none")
    BY DEF Walks, WalksOutside, WalksIn, WalksOut, Unclaimed
  <2>3. uncertain'[p] = "none"
    BY <1>0, <2>1, <2>2 DEF StageAt, ClaimOK
  <2>4. attempt[p] <= Current(TaskOf[p])'
    BY <1>0 DEF StageAt, ClaimOK, Grows, CallTypes
  <2> QED BY <1>0, <2>1, <2>2, <2>3, <2>4 DEF StageAt, ClaimOK
<1>2. StagedOK(p)'
  <2>1. /\ completed'[p] = completed[p] /\ chain'[p] = chain[p] /\ resume'[p] = resume[p]
        /\ gen'[p] = gen[p]
    BY DEF Walks, Rests, Kept
  <2>2. CASE WalksOutside(p)
    <3>1. completed[p] = <<>>
      BY <1>0, <2>2 DEF StageAt, ClaimOK, WalksOutside, Unclaimed
    <3>2. GenerationsStaged(p)'
      BY <2>1, <2>2, <3>1, EmptySeq DEF GenerationsStaged, InPublication, WalksOutside
    <3> QED BY <2>1, <2>2, <3>1, <3>2 DEF StagedOK, AtBaseline, InPublication, WalksOutside
  <2>3. CASE WalksIn(p)
    <3>1. ~AtBaseline(p)'
      BY <2>3 DEF WalksIn, AtBaseline
    <3>2. BaselineStaged(p)' \/ GenerationsStaged(p)'
      <4>1. CASE BaselineStaged(p)
        BY <2>1, <2>3, <4>1 DEF BaselineStaged, InPublication, WalksIn
      <4>2. CASE GenerationsStaged(p)
        <5>1. ~(InPublication(p)' /\ job'[p] = "baseline_ready")
          BY <2>3, <4>2 DEF GenerationsStaged, InPublication, WalksIn
        <5> QED BY <2>1, <4>2, <5>1 DEF GenerationsStaged
      <4> QED BY <1>0, <4>1, <4>2 DEF StageAt, StagedOK
    <3>3. \/ pc'[p] \in {"announce", "baseline", "complete", "fail_event", "notify", "record"}
          \/ InPublication(p)' /\ job'[p] \in EventJobs
          => completed'[p] = <<>>
      BY <1>0, <2>1, <2>3 DEF StageAt, StagedOK, InPublication, WalksIn, EventJobs
    <3> QED BY <3>1, <3>2, <3>3 DEF StagedOK
  <2>4. CASE WalksOut(p)
    <3>1. ~AtBaseline(p)' /\ ~InPublication(p)' /\ ~InPublication(p)
          /\ pc'[p] \in {"generate", "complete", "fail_event", "failing"} /\ pc[p] # "failing"
      BY <2>4 DEF WalksOut, AtBaseline, InPublication
    <3>2. GenerationsStaged(p)'
      BY <1>0, <2>1, <3>1 DEF StageAt, StagedOK, BaselineStaged, GenerationsStaged
    <3>3. pc'[p] \in {"complete", "fail_event"} => completed[p] = <<>>
      BY <1>0, <2>4 DEF StageAt, StagedOK, WalksOut
    <3> QED BY <2>1, <3>1, <3>2, <3>3 DEF StagedOK
  <2> QED BY <2>2, <2>3, <2>4 DEF Walks
<1>3. GenOK(p)'
  <2>1. /\ resume'[p] = resume[p] /\ gen'[p] = gen[p] /\ completed'[p] = completed[p]
        /\ GenOK(p) /\ gen[p] \in Nat /\ MaxGen \in Nat
        /\ pc'[p] # "evaluated" /\ ~AtBarrier(p)'
    BY <1>0 DEF Walks, Rests, Kept, WalksOutside, WalksIn, WalksOut, StageAt, CallTypes, AtBarrier
  <2>2. pc'[p] = "announce" \/ (Telling(p)' /\ job'[p] = "resumed") => gen[p] = resume[p].cma
    BY <1>0, <2>1 DEF Walks, WalksOutside, WalksIn, WalksOut, GenOK, Telling, InPublication
  <2>3. pc'[p] = "complete" \/ (Telling(p)' /\ job'[p] \in {"completed", "flush_terminal"})
        => gen[p] = MaxGen
    BY <1>0, <2>1 DEF Walks, WalksOutside, WalksIn, WalksOut, GenOK, Telling, InPublication
  <2> QED BY <2>1, <2>2, <2>3 DEF GenOK
<1>4. StateOK(p)'
  BY <1>0 DEF Walks, Rests, Kept, WalksOutside, WalksIn, WalksOut, FailingNotices, StageAt, ClaimOK, Unclaimed, StagedOK, GenOK, StateOK, BaselineStaged,
     InPublication, AtBaseline, AtBarrier, CallTypes, JobAt, NoState, BarrierJobs, FlushJobs, SegmentJobs, EventJobs
<1>5. ResumeOK(p)'
  BY <1>0 DEF Walks, Rests, Kept, WalksOutside, WalksIn, WalksOut, FailingNotices, StageAt, ResumeOK, CallTypes, Fresh
<1>6. LinkOK(p)'
  BY <1>0 DEF Walks, Rests, Kept, WalksOutside, WalksIn, WalksOut, FailingNotices, StageAt, LinkOK
<1> QED BY <1>1, <1>2, <1>3, <1>4, <1>5, <1>6 DEF StageAt

LEMMA CommitsStage ==
    ASSUME StageInv, ConstantAssumption, NEW p \in Procs, Commits(p), Grows(p)
    PROVE  StageAt(p)'
<1>0. CallTypes(p) /\ StageAt(p) /\ JobAt(p) /\ MaxGen \in Nat
  BY CallTyped DEF StageInv, TypeInv, JobOK, ConstantAssumption
<1>1. ClaimOK(p)'
  BY <1>0 DEF Commits, Rests, Kept, Publishes, StageAt, ClaimOK, Unclaimed, Grows, CallTypes, NoState
<1>2. StagedOK(p)'
  BY <1>0 DEF Commits, Rests, Kept, Publishes, StageAt, ClaimOK, Unclaimed, StagedOK, BaselineStaged, GenerationsStaged,
     InPublication, AtBaseline, CallTypes, JobAt, BarrierJobs, FlushJobs, SegmentJobs, EventJobs
<1>3. GenOK(p)'
  BY <1>0 DEF Commits, Rests, Kept, Publishes, StageAt, ClaimOK, Unclaimed, StagedOK, GenOK, BaselineStaged, GenerationsStaged,
     InPublication, AtBaseline, AtBarrier, Telling, ResumeOK, CallTypes, JobAt, Fresh, BarrierJobs, FlushJobs, SegmentJobs, EventJobs
<1>4. StateOK(p)'
  BY <1>0 DEF Commits, Rests, Kept, Publishes, StageAt, ClaimOK, Unclaimed, StagedOK, GenOK, StateOK, BaselineStaged,
     InPublication, AtBaseline, AtBarrier, CallTypes, JobAt, NoState, BarrierJobs, FlushJobs, SegmentJobs, EventJobs
<1>5. ResumeOK(p)'
  BY <1>0 DEF Commits, Rests, Kept, Publishes, StageAt, ResumeOK, CallTypes, Fresh
<1>6. LinkOK(p)'
  BY <1>0 DEF Commits, Rests, Kept, Publishes, StageAt, LinkOK
<1> QED BY <1>1, <1>2, <1>3, <1>4, <1>5, <1>6 DEF StageAt

LEMMA ClearsStage ==
    ASSUME StageInv, ConstantAssumption, NEW p \in Procs, Clears(p), Grows(p)
    PROVE  StageAt(p)'
<1>0. CallTypes(p) /\ StageAt(p) /\ JobAt(p) /\ MaxGen \in Nat
  BY CallTyped DEF StageInv, TypeInv, JobOK, ConstantAssumption
<1>1. ClaimOK(p)'
  BY <1>0 DEF Clears, StageAt, ClaimOK, Unclaimed, Grows, CallTypes, NoState
<1>2. StagedOK(p)'
  BY <1>0 DEF Clears, StageAt, ClaimOK, Unclaimed, StagedOK, BaselineStaged, GenerationsStaged,
     InPublication, AtBaseline, CallTypes, JobAt, BarrierJobs, FlushJobs, SegmentJobs, EventJobs
<1>3. GenOK(p)'
  BY <1>0 DEF Clears, StageAt, ClaimOK, Unclaimed, StagedOK, GenOK, BaselineStaged, GenerationsStaged,
     InPublication, AtBaseline, AtBarrier, Telling, ResumeOK, CallTypes, JobAt, Fresh, BarrierJobs, FlushJobs, SegmentJobs, EventJobs
<1>4. StateOK(p)'
  BY <1>0 DEF Clears, StageAt, ClaimOK, Unclaimed, StagedOK, GenOK, StateOK, BaselineStaged,
     InPublication, AtBaseline, AtBarrier, CallTypes, JobAt, NoState, BarrierJobs, FlushJobs, SegmentJobs, EventJobs
<1>5. ResumeOK(p)'
  BY <1>0 DEF Clears, StageAt, ResumeOK, CallTypes, Fresh
<1>6. LinkOK(p)'
  <2> SUFFICES ASSUME job[p] \in SegmentJobs
               PROVE  LinkOK(p)'
    BY DEF Clears, LinkOK
  <2>1. completed[p] # <<>> /\ chain'[p] = ChainAfter(chain[p], completed[p]) /\ job'[p] = job[p]
        /\ gen'[p] = gen[p]
    BY <1>0 DEF Clears, JobAt, PublishedSegments
  <2>2. CASE BaselineStaged(p)
    <3>1. chain'[p] = <<>> /\ job[p] \notin {"generation_ready", "flush_terminal"}
      BY <1>0, <2>1, <2>2, LinksAfter DEF BaselineStaged, InPublication, Clears, CallTypes
    <3> QED BY <2>1, <3>1 DEF LinkOK
  <2>3. CASE GenerationsStaged(p)
    <3>1. chain'[p] # <<>> /\ LastOf(chain'[p]) = LastOf(completed[p])
      <4>1. chain[p] \in Seq(Nat) /\ completed[p] \in Seq(Nat) /\ completed[p] # <<>>
            /\ \A i \in 1 .. Len(completed[p]) : completed[p][i] > 0
        BY <1>0, <2>1, <2>3 DEF GenerationsStaged, CallTypes
      <4>2. /\ ChainAfter(chain[p], completed[p]) # <<>>
            /\ LastOf(ChainAfter(chain[p], completed[p])) = LastOf(completed[p])
        BY <4>1, LinksAfter
      <4> QED BY <2>1, <4>2
    <3> QED BY <1>0, <2>1, <3>1 DEF LinkOK, StageAt, GenOK
  <2> QED BY <1>0, <2>2, <2>3 DEF StageAt, StagedOK
<1> QED BY <1>1, <1>2, <1>3, <1>4, <1>5, <1>6 DEF StageAt

LEMMA EscapesStage ==
    ASSUME StageInv, ConstantAssumption, NEW p \in Procs, Escapes(p), Grows(p)
    PROVE  StageAt(p)'
<1>0. CallTypes(p) /\ StageAt(p) /\ JobAt(p) /\ MaxGen \in Nat
  BY CallTyped DEF StageInv, TypeInv, JobOK, ConstantAssumption
<1>1. ClaimOK(p)'
  BY <1>0 DEF Escapes, Holding, StageAt, ClaimOK, Unclaimed, Grows, CallTypes, NoState
<1>2. StagedOK(p)'
  <2>1. /\ completed'[p] = completed[p] /\ resume'[p] = resume[p] /\ gen'[p] = gen[p]
        /\ pc'[p] = "failing" /\ pc[p] \in Holding
    BY DEF Escapes
  <2>2. ASSUME BaselineStaged(p)
        PROVE  BaselineStaged(p)'
    <3>1. ChainAfter(chain[p], PublishedSegments(p)) = <<>>
      <4>1. chain[p] \in Seq(Nat) /\ completed[p] \in Seq(Nat) /\ chain[p] = <<>> /\ completed[p] = << 0 >>
        BY <1>0, <2>2 DEF BaselineStaged, CallTypes
      <4>2. PublishedSegments(p) \in {completed[p], <<>>}
        BY DEF PublishedSegments
      <4>3. CASE PublishedSegments(p) = completed[p]
        BY <4>1, <4>3, LinksAfter
      <4>4. CASE PublishedSegments(p) = <<>>
        <5>1. ChainAfter(chain[p], PublishedSegments(p)) = ChainAfter(chain[p], <<>>) /\ <<>> \in Seq(Nat)
          BY <4>4
        <5>2. ChainAfter(chain[p], <<>>) = chain[p]
          BY <4>1, <5>1, LinksAfter
        <5> QED BY <4>1, <5>1, <5>2
      <4> QED BY <4>2, <4>3, <4>4
    <3>2. chain'[p] = <<>>
      BY <2>2, <3>1 DEF Escapes, BaselineStaged
    <3> QED BY <2>1, <2>2, <3>2 DEF BaselineStaged
  <2>3. ASSUME GenerationsStaged(p)
        PROVE  GenerationsStaged(p)'
    BY <2>1, <2>3 DEF GenerationsStaged, InPublication
  <2> QED BY <1>0, <2>1, <2>2, <2>3 DEF StageAt, StagedOK, AtBaseline, InPublication
<1>3. GenOK(p)'
  BY <1>0 DEF Escapes, Holding, StageAt, ClaimOK, Unclaimed, StagedOK, GenOK, BaselineStaged, GenerationsStaged,
     InPublication, AtBaseline, AtBarrier, Telling, ResumeOK, CallTypes, JobAt, Fresh, BarrierJobs, FlushJobs, SegmentJobs, EventJobs
<1>4. StateOK(p)'
  BY <1>0 DEF Escapes, Holding, StageAt, ClaimOK, Unclaimed, StagedOK, GenOK, StateOK, BaselineStaged,
     InPublication, AtBaseline, AtBarrier, CallTypes, JobAt, NoState, BarrierJobs, FlushJobs, SegmentJobs, EventJobs
<1>5. ResumeOK(p)'
  BY <1>0 DEF Escapes, Holding, StageAt, ResumeOK, CallTypes, Fresh
<1>6. LinkOK(p)'
  BY <1>0 DEF Escapes, Holding, StageAt, LinkOK
<1> QED BY <1>1, <1>2, <1>3, <1>4, <1>5, <1>6 DEF StageAt

(* A publication adds at most one checkpoint, at the end. *)
LEMMA PublishesPoint ==
    ASSUME TypeInv, ConstantAssumption, NEW p \in Procs, Publishes(p)
    PROVE  \/ ~MakesCheckpoint(p) /\ checkpoints' = checkpoints
           \/ /\ MakesCheckpoint(p) /\ Len(checkpoints[TaskOf[p]]) \in Nat
              /\ DOMAIN checkpoints[TaskOf[p]] = 1 .. Len(checkpoints[TaskOf[p]])
              /\ DOMAIN checkpoints'[TaskOf[p]] = 1 .. Len(checkpoints[TaskOf[p]]) + 1
              /\ \A i \in DOMAIN checkpoints[TaskOf[p]] :
                    checkpoints'[TaskOf[p]][i] = checkpoints[TaskOf[p]][i]
              /\ checkpoints'[TaskOf[p]][Len(checkpoints[TaskOf[p]]) + 1] = NewCheckpoint(p)
<1> DEFINE t == TaskOf[p]
           c == NewCheckpoint(p)
<1>1. CASE ~MakesCheckpoint(p)
  BY <1>1 DEF Publishes, Publish
<1>2. CASE MakesCheckpoint(p)
  <2>1. t \in Tasks /\ checkpoints \in [Tasks -> Seq(CheckpointType)] /\ c \in CheckpointType
    BY <1>2, NewCheckpointType DEF ConstantAssumption, TypeInv, TypeOK, StoreType, Publishes
  <2>2. checkpoints' = [checkpoints EXCEPT ![t] = Append(checkpoints[t], c)]
    BY <1>2 DEF Publishes, Publish
  <2> HIDE DEF c
  <2>3. checkpoints'[t] = Append(checkpoints[t], c) /\ checkpoints[t] \in Seq(CheckpointType)
    BY <2>1, <2>2
  <2>4. /\ Append(checkpoints[t], c) \in Seq(CheckpointType) /\ Len(checkpoints[t]) \in Nat
        /\ Len(Append(checkpoints[t], c)) = Len(checkpoints[t]) + 1
        /\ \A i \in 1 .. Len(checkpoints[t]) : Append(checkpoints[t], c)[i] = checkpoints[t][i]
        /\ Append(checkpoints[t], c)[Len(checkpoints[t]) + 1] = c
        /\ DOMAIN checkpoints[t] = 1 .. Len(checkpoints[t])
    BY <2>1, <2>3, AppendProperties, LenProperties
  <2>5. DOMAIN checkpoints'[t] = 1 .. Len(checkpoints[t]) + 1
    BY <2>3, <2>4, LenProperties
  <2> HIDE DEF t
  <2>6. /\ Len(checkpoints[t]) \in Nat
        /\ DOMAIN checkpoints[t] = 1 .. Len(checkpoints[t])
        /\ \A i \in DOMAIN checkpoints[t] : checkpoints'[t][i] = checkpoints[t][i]
        /\ checkpoints'[t][Len(checkpoints[t]) + 1] = c
    BY <2>3, <2>4
  <2> QED BY <1>2, <2>5, <2>6 DEF t, c
<1> QED BY <1>1, <1>2

LEMMA AllGrow ==
    ASSUME TypeInv, ConstantAssumption, NEW p \in Procs, Step(p)
    PROVE  \A q \in Procs : Grows(q)
<1>1. TypeInv'
  BY NextType DEF Step, Next
<1>2. HistoryMove
  BY StepHistory DEF Step
<1>3. \A q \in Procs : TaskOf[q] \in Tasks
  BY DEF ConstantAssumption
<1>4. \A t \in Tasks : Len(attempts'[t]) \in Nat
  BY <1>1, LenProperties DEF TypeInv, TypeOK, StoreType
<1> QED BY <1>2, <1>3, <1>4 DEF HistoryMove, Grows, Current

LEMMA StepClaims ==
    ASSUME StageInv, ConstantAssumption, NEW p \in Procs, OnlyCaller(p), Move(p)
    PROVE  OneClaim'
<1>1. attempt'[p] \in {0, attempt[p], Current(TaskOf[p]) + 1}
  BY DEF Move, Leaves, Starts, Allocates, Opens, Evaluates, Tells, StoresState, Stages, Walks, Rests,
     Commits, Clears, Escapes
<1>2. \A q \in Procs : q # p => attempt'[q] = attempt[q]
  BY DEF OnlyCaller, Untouched
<1>3. \A q \in Procs : attempt[q] <= Current(TaskOf[q]) /\ attempt[q] \in Nat /\ Current(TaskOf[q]) \in Nat
  BY CallTyped DEF StageInv, StageAt, ClaimOK, CallTypes
<1> SUFFICES ASSUME NEW q \in Procs, NEW r \in Procs, TaskOf[q] = TaskOf[r],
                    attempt'[q] = attempt'[r], attempt'[q] # 0
             PROVE  q = r
  BY DEF OneClaim
<1>4. CASE q # p /\ r # p
  BY <1>2, <1>4 DEF StageInv, OneClaim
<1>5. CASE q = p /\ r # p
  BY <1>1, <1>2, <1>3, <1>5 DEF StageInv, OneClaim
<1>6. CASE q # p /\ r = p
  BY <1>1, <1>2, <1>3, <1>6 DEF StageInv, OneClaim
<1> QED BY <1>4, <1>5, <1>6

LEMMA StepPoints ==
    ASSUME StageInv, ConstantAssumption, NEW p \in Procs, Step(p)
    PROVE  PointsOK'
<1>0. TypeInv /\ \A t \in Tasks : Current(t) \in Nat /\ Current(t)' \in Nat /\ Current(t)' >= Current(t)
  <2>1. TypeInv'
    BY NextType DEF StageInv, Step, Next
  <2>2. HistoryMove
    BY StepHistory DEF StageInv, Step
  <2>3. \A t \in Tasks : Len(attempts'[t]) \in Nat /\ Len(attempts[t]) \in Nat
    BY <2>1, LenProperties DEF StageInv, TypeInv, TypeOK, StoreType
  <2> QED BY <2>2, <2>3 DEF HistoryMove, Current, StageInv
<1>1. ASSUME NEW t \in Tasks, checkpoints'[t] = checkpoints[t], NEW i \in DOMAIN checkpoints'[t]
      PROVE  /\ checkpoints'[t][i].attempt \in 1 .. Current(t)'
             /\ checkpoints'[t][i].gen <= checkpoints'[t][i].cma /\ checkpoints'[t][i].cma <= MaxGen
  <2>1. checkpoints'[t][i] = checkpoints[t][i] /\ i \in DOMAIN checkpoints[t]
    BY <1>1
  <2>2. /\ checkpoints[t][i].attempt \in 1 .. Current(t)
        /\ checkpoints[t][i].gen <= checkpoints[t][i].cma /\ checkpoints[t][i].cma <= MaxGen
    BY <2>1 DEF StageInv, PointsOK
  <2> QED BY <1>0, <2>1, <2>2
<1>2. CASE checkpoints' = checkpoints
  BY <1>1, <1>2 DEF PointsOK
<1>3. CASE Publishes(p) /\ MakesCheckpoint(p)
  <2> DEFINE t == TaskOf[p]
             c == NewCheckpoint(p)
             n == Len(checkpoints[t])
  <2>1. /\ n \in Nat /\ DOMAIN checkpoints[t] = 1 .. n /\ DOMAIN checkpoints'[t] = 1 .. n + 1
        /\ \A i \in DOMAIN checkpoints[t] : checkpoints'[t][i] = checkpoints[t][i]
        /\ checkpoints'[t][n + 1] = c
    BY <1>0, <1>3, PublishesPoint
  <2>2. c.attempt \in 1 .. Current(t)' /\ c.gen <= c.cma /\ c.cma <= MaxGen
    <3>1. CallTypes(p) /\ StageAt(p) /\ JobAt(p) /\ MaxGen \in Nat
      BY CallTyped DEF StageInv, TypeInv, JobOK, ConstantAssumption
    <3>2. attempt[p] # 0 /\ attempt[p] = Current(t)
      BY <1>3, <3>1 DEF Publishes, PublishAccepted, StageAt, ClaimOK, Unclaimed
    <3>3. completed[p] # <<>> /\ latest[p] # NoState
      BY <1>3, <3>1 DEF Publishes, MakesCheckpoint, JobAt
    <3>4. LastOf(completed[p]) <= latest[p] /\ latest[p] <= gen[p] /\ gen[p] <= MaxGen
      BY <3>1, <3>3 DEF StageAt, StateOK, GenOK
    <3>5. LastOf(completed[p]) \in Nat /\ latest[p] \in Nat
      BY <3>1, <3>3, LastOfType DEF CallTypes
    <3>6. c.attempt = attempt[p] /\ c.gen = LastOf(completed[p]) /\ c.cma = latest[p]
      BY DEF NewCheckpoint
    <3>7. Current(t)' >= Current(t) /\ Current(t)' \in Nat
      BY <1>0, <3>1 DEF CallTypes
    <3> HIDE DEF c, t
    <3> QED BY <3>1, <3>2, <3>4, <3>5, <3>6, <3>7 DEF CallTypes
  <2>3. \A u \in Tasks \ {t} : checkpoints'[u] = checkpoints[u]
    BY <1>0, <1>3, PublishesStore DEF OnlyTask
  <2>4. ASSUME NEW i \in DOMAIN checkpoints[t]
        PROVE  /\ checkpoints'[t][i].attempt \in 1 .. Current(t)'
               /\ checkpoints'[t][i].gen <= checkpoints'[t][i].cma /\ checkpoints'[t][i].cma <= MaxGen
    <3>1. t \in Tasks
      BY DEF ConstantAssumption
    <3>2. /\ checkpoints[t][i].attempt \in 1 .. Current(t)
          /\ checkpoints[t][i].gen <= checkpoints[t][i].cma /\ checkpoints[t][i].cma <= MaxGen
      BY <3>1 DEF StageInv, PointsOK
    <3>3. checkpoints'[t][i] = checkpoints[t][i]
      BY <2>1
    <3>4. Current(t)' >= Current(t) /\ Current(t)' \in Nat /\ Current(t) \in Nat
      BY <1>0, <3>1
    <3> HIDE DEF t
    <3> QED BY <3>2, <3>3, <3>4
  <2> HIDE DEF c, n
  <2>5. \A i \in DOMAIN checkpoints'[t] : i \in DOMAIN checkpoints[t] \/ i = n + 1
    BY <2>1
  <2>6. ASSUME NEW u \in Tasks, NEW i \in DOMAIN checkpoints'[u]
        PROVE  /\ checkpoints'[u][i].attempt \in 1 .. Current(u)'
               /\ checkpoints'[u][i].gen <= checkpoints'[u][i].cma /\ checkpoints'[u][i].cma <= MaxGen
    <3>1. CASE u # t
      BY <1>1, <2>3, <2>6, <3>1
    <3>2. CASE u = t
      BY <2>1, <2>2, <2>4, <2>5, <2>6, <3>2
    <3> QED BY <3>1, <3>2
  <2> QED BY <2>6 DEF PointsOK
<1>4. checkpoints' = checkpoints \/ (Publishes(p) /\ MakesCheckpoint(p))
  BY <1>0, StoreShape, PublishesPoint DEF Begins, Updates, storeVars
<1> QED BY <1>2, <1>3, <1>4

LEMMA StepStage ==
    ASSUME StageInv, ConstantAssumption, NEW p \in Procs, Step(p)
    PROVE  StageInv'
<1>0. TypeInv /\ \A q \in Procs : Grows(q)
  BY AllGrow DEF StageInv
<1>1. TypeInv'
  BY NextType DEF StageInv, Step, Next
<1>2. OnlyCaller(p) /\ Move(p)
  BY <1>0, StepMoves
<1>3. OneClaim'
  BY <1>2, StepClaims
<1>4. PointsOK'
  BY StepPoints
<1>5. StageAt(p)'
  BY <1>0, <1>2, LeavesStage, StartsStage, AllocatesStage, OpensStage, EvaluatesStage, TellsStage,
     StoresStateStage, StagesStage, WalksStage, CommitsStage, ClearsStage, EscapesStage DEF Move
<1>6. \A q \in Procs \ {p} : StageAt(q)'
  BY <1>0, <1>2, UntouchedStage DEF StageInv, OnlyCaller
<1> QED BY <1>1, <1>3, <1>4, <1>5, <1>6 DEF StageInv

LEMMA StutterStage ==
    ASSUME StageInv, ConstantAssumption, UNCHANGED vars
    PROVE  StageInv'
<1>1. TypeInv'
  BY NextType DEF StageInv
<1>2. \A q \in Procs : Untouched(q) /\ Grows(q)
  BY CallTyped DEF vars, storeVars, callVars, writerVars, Untouched, Same, Grows, Current, StageInv,
     CallTypes
<1>3. OneClaim'
  BY DEF vars, callVars, StageInv, OneClaim
<1>4. PointsOK'
  BY DEF vars, storeVars, StageInv, PointsOK, Current
<1>5. \A q \in Procs : StageAt(q)'
  BY <1>2, UntouchedStage DEF StageInv
<1> QED BY <1>1, <1>3, <1>4, <1>5 DEF StageInv

LEMMA InitStage ==
    ASSUME ConstantAssumption, Init
    PROVE  StageInv
<1>1. TypeInv
  BY InitType
<1>2. OneClaim /\ PointsOK
  BY DEF Init, OneClaim, PointsOK
<1>3. ASSUME NEW p \in Procs
      PROVE  StageAt(p)
  <2>1. /\ pc[p] = "idle" /\ attempt[p] = 0 /\ resume[p] = Fresh /\ gen[p] = 0 /\ completed[p] = <<>>
        /\ pending[p] = <<>> /\ chain[p] = <<>> /\ latest[p] = NoState /\ uncertain[p] = "none"
    BY DEF Init
  <2>2. CallTypes(p) /\ MaxGen \in Nat
    BY <1>1, CallTyped DEF ConstantAssumption
  <2>3. ClaimOK(p)
    BY <2>1, <2>2 DEF ClaimOK, Unclaimed, CallTypes
  <2>4. StagedOK(p)
    BY <2>1, EmptySeq DEF StagedOK, AtBaseline, GenerationsStaged, InPublication
  <2>5. GenOK(p) /\ StateOK(p) /\ ResumeOK(p) /\ LinkOK(p)
    BY <2>1, <2>2 DEF GenOK, StateOK, ResumeOK, LinkOK, AtBarrier, Telling, InPublication, Fresh
  <2> QED BY <2>3, <2>4, <2>5 DEF StageAt
<1> QED BY <1>1, <1>2, <1>3 DEF StageInv

-----------------------------------------------------------------------------
(* What the callbacks have said *)

(* Nothing is ever taken out of a history or of the checkpoints. *)
Keeps(t) ==
    /\ \A i \in DOMAIN history[t] : i \in DOMAIN history'[t] /\ history'[t][i] = history[t][i]
    /\ \A i \in DOMAIN checkpoints[t] :
          i \in DOMAIN checkpoints'[t] /\ checkpoints'[t][i] = checkpoints[t][i]

LEMMA StepKeeps ==
    ASSUME TypeInv, ConstantAssumption, NEW p \in Procs, Step(p), NEW t \in Tasks
    PROVE  Keeps(t)
<1>1. PICK ext \in Seq(ChangeType) : history'[t] = history[t] \o ext
  BY StepHistory DEF Step, HistoryMove, Appends
<1>2. history[t] \in Seq(ChangeType)
  BY DEF TypeInv, TypeOK, StoreType
<1>3. /\ Len(history[t]) \in Nat /\ Len(ext) \in Nat /\ DOMAIN history[t] = 1 .. Len(history[t])
      /\ DOMAIN history'[t] = 1 .. Len(history[t]) + Len(ext)
      /\ \A i \in 1 .. Len(history[t]) : history'[t][i] = history[t][i]
  BY <1>1, <1>2, Joined
<1>4. \A i \in DOMAIN history[t] : i \in DOMAIN history'[t] /\ history'[t][i] = history[t][i]
  BY <1>3
<1>5. CASE checkpoints'[t] = checkpoints[t]
  BY <1>4, <1>5 DEF Keeps
<1>6. CASE Publishes(p) /\ t = TaskOf[p]
  BY <1>4, <1>6, PublishesPoint DEF Keeps
<1>7. CASE Publishes(p) /\ t # TaskOf[p]
  BY <1>5, <1>7, PublishesStore DEF OnlyTask
<1> QED BY <1>5, <1>6, <1>7, StoreShape DEF storeVars, Begins, Updates

LEMMA DurableKeeps ==
    ASSUME NEW n, Keeps(n.task), Durable(n)
    PROVE  Durable(n)'
<1>1. PICK i \in DOMAIN history[n.task] :
         LET e == history[n.task][i] IN
         /\ e.kind = NotedEvent[n.kind] /\ e.attempt = n.attempt
         /\ n.kind # "resumed" => e.gen = n.gen
  BY DEF Durable
<1>2. i \in DOMAIN history'[n.task] /\ history'[n.task][i] = history[n.task][i]
  BY DEF Keeps
<1>3. ASSUME Checkpointed[n.task], n.kind \in SegmentJobs
      PROVE  \E j \in DOMAIN checkpoints'[n.task] :
                /\ checkpoints'[n.task][j].attempt = n.attempt
                /\ checkpoints'[n.task][j].gen = n.gen
  <2>1. PICK j \in DOMAIN checkpoints[n.task] :
           /\ checkpoints[n.task][j].attempt = n.attempt
           /\ checkpoints[n.task][j].gen = n.gen
    BY <1>3 DEF Durable
  <2> QED BY <2>1 DEF Keeps
<1> QED BY <1>1, <1>2, <1>3 DEF Durable

(* What a publication appends comes after the history it read. *)
LEMMA PublishesHistory ==
    ASSUME TypeInv, ConstantAssumption, NEW p \in Procs, Publishes(p)
    PROVE  /\ Len(history[TaskOf[p]]) \in Nat /\ Len(NewChanges(p)) \in Nat
           /\ DOMAIN history[TaskOf[p]] = 1 .. Len(history[TaskOf[p]])
           /\ DOMAIN history'[TaskOf[p]] = 1 .. Len(history[TaskOf[p]]) + Len(NewChanges(p))
           /\ \A i \in 1 .. Len(history[TaskOf[p]]) : history'[TaskOf[p]][i] = history[TaskOf[p]][i]
           /\ \A k \in 1 .. Len(NewChanges(p)) :
                 history'[TaskOf[p]][Len(history[TaskOf[p]]) + k] = NewChanges(p)[k]
<1> DEFINE t == TaskOf[p]
<1>1. history[t] \in Seq(ChangeType)
  BY DEF ConstantAssumption, TypeInv, TypeOK, StoreType
<1>2. NewChanges(p) \in Seq(ChangeType) /\ history'[t] = history[t] \o NewChanges(p)
  BY PublishesStore DEF Extends
<1> HIDE DEF t
<1>3. /\ Len(history[t]) \in Nat /\ Len(NewChanges(p)) \in Nat /\ DOMAIN history[t] = 1 .. Len(history[t])
      /\ DOMAIN history'[t] = 1 .. Len(history[t]) + Len(NewChanges(p))
      /\ \A i \in 1 .. Len(history[t]) : history'[t][i] = history[t][i]
      /\ \A k \in 1 .. Len(NewChanges(p)) : history'[t][Len(history[t]) + k] = NewChanges(p)[k]
  BY <1>1, <1>2, Joined
<1> QED BY <1>3 DEF t

(* The three shapes of a publication: a baseline, generations, an event. *)
LEMMA BaselineChanges ==
    ASSUME NEW p, job[p] \in SegmentJobs, completed[p] = << 0 >>
    PROVE  /\ NewChanges(p) = <<Change("baseline_ready", attempt[p], 0, snap[p].seq)>>
           /\ NewEventCount(p) = 1
<1> DEFINE c == Change("baseline_ready", attempt[p], 0, snap[p].seq)
           tail == [i \in 1 .. 2 * (Len(<<0>>) - 1) |->
                       Change(IF i % 2 = 1 THEN "evaluation" ELSE "generation_ready",
                              attempt[p], <<0>>[1 + ((i + 1) \div 2)], snap[p].seq + i)]
<1>1. Len(<<0>>) = 1 /\ <<0>>[1] = 0 /\ <<0>> # <<>> /\ 2 * (1 - 1) = 0 /\ 2 * 1 - 1 = 1
  OBVIOUS
<1>2. NewChanges(p) = <<c>> \o tail
  BY <1>1 DEF NewChanges, SegmentChanges
<1>3. tail = <<>>
  <2>1. tail = [i \in 1 .. 0 |->
                   Change(IF i % 2 = 1 THEN "evaluation" ELSE "generation_ready",
                          attempt[p], <<0>>[1 + ((i + 1) \div 2)], snap[p].seq + i)]
    BY <1>1
  <2>2. DOMAIN tail = 1 .. 0 /\ tail \in Seq({0})
    BY <2>1
  <2> HIDE DEF tail
  <2> QED BY <2>2, EmptySeq, LenProperties
<1>4. <<c>> \in Seq({c})
  OBVIOUS
<1> HIDE DEF c, tail
<1>5. <<c>> \o <<>> = <<c>>
  BY <1>4, ConcatEmptySeq
<1>6. NewEventCount(p) = 1
  BY <1>1 DEF NewEventCount
<1> QED BY <1>2, <1>3, <1>5, <1>6 DEF c

LEMMA GenerationChanges ==
    ASSUME TypeInv, NEW p \in Procs, pc[p] = "commit", job[p] \in SegmentJobs, GenerationsStaged(p)
    PROVE  /\ Len(completed[p]) \in Nat /\ Len(completed[p]) > 0 /\ completed[p] # <<0>>
           /\ Len(NewChanges(p)) = 2 * Len(completed[p])
           /\ NewEventCount(p) = 2 * Len(completed[p])
           /\ \A k \in 1 .. Len(completed[p]) :
                 /\ 2 * k - 1 \in 1 .. 2 * Len(completed[p]) /\ 2 * k \in 1 .. 2 * Len(completed[p])
                 /\ NewChanges(p)[2 * k - 1] =
                       Change("evaluation", attempt[p], completed[p][k], snap[p].seq + 2 * k - 2)
                 /\ NewChanges(p)[2 * k] =
                       Change("generation_ready", attempt[p], completed[p][k], snap[p].seq + 2 * k - 1)
           /\ \A i \in 1 .. 2 * Len(completed[p]) :
                 \E k \in 1 .. Len(completed[p]) : i = 2 * k - 1 \/ i = 2 * k
<1>1. /\ attempt[p] \in Nat /\ completed[p] \in Seq(Nat) /\ completed[p] # <<>> /\ snap[p].seq \in Nat
  BY DEF TypeInv, TypeOK, CallType, WriterType, JobOK, JobAt
<1>2. Len(completed[p]) \in Nat /\ Len(completed[p]) > 0
  BY <1>1, EmptySeq, LenProperties
<1>3. completed[p][1] # 0 /\ completed[p] # <<0>>
  <2>1. completed[p][1] > 0
    BY <1>2 DEF GenerationsStaged
  <2> QED BY <2>1
<1>4. NewChanges(p) = SegmentChanges(attempt[p], completed[p], snap[p].seq)
      /\ NewEventCount(p) = 2 * Len(completed[p])
  BY <1>3 DEF NewChanges, NewEventCount
<1>5. GroupShape(attempt[p], completed[p], snap[p].seq)
  BY <1>1, <1>3, GroupChanges
<1> QED BY <1>2, <1>3, <1>4, <1>5 DEF GroupShape

LEMMA ChangesOfEvent ==
    ASSUME TypeInv, NEW p \in Procs, pc[p] = "commit", job[p] \in EventJobs
    PROVE  /\ EventShape(job[p], attempt[p], pending[p], gen[p], snap[p].seq)
           /\ NewChanges(p) = EventChanges(job[p], attempt[p], pending[p], gen[p], snap[p].seq)
           /\ NewEventCount(p) = Len(pending[p]) + 1
<1>1. /\ attempt[p] \in Nat /\ pending[p] \in Seq(Nat) /\ snap[p].seq \in Nat /\ gen[p] \in Nat
      /\ job[p] \notin SegmentJobs
  BY DEF TypeInv, TypeOK, CallType, WriterType, EventJobs, SegmentJobs, BarrierJobs, FlushJobs
<1> QED BY <1>1, OneEvent DEF NewChanges, NewEventCount

(* The published group is in the history, and its checkpoint with it. *)
LEMMA GroupPublished ==
    ASSUME StageInv, ConstantAssumption, NEW p \in Procs, Publishes(p), job[p] \in SegmentJobs,
           completed[p] # << 0 >> \/ job[p] = "baseline_ready",
           NEW n, n = Note(p, LastOf(completed[p]))
    PROVE  Durable(n)'
<1> DEFINE t == TaskOf[p]
           h == history[t]
<1>0. /\ TypeInv /\ pc[p] = "commit" /\ CallTypes(p) /\ StageAt(p) /\ completed[p] # <<>>
      /\ t \in Tasks
  BY CallTyped DEF StageInv, Publishes, TypeInv, JobOK, JobAt, ConstantAssumption
<1>1. /\ Len(h) \in Nat /\ Len(NewChanges(p)) \in Nat
      /\ DOMAIN history'[t] = 1 .. Len(h) + Len(NewChanges(p))
      /\ \A k \in 1 .. Len(NewChanges(p)) : history'[t][Len(h) + k] = NewChanges(p)[k]
  BY <1>0, PublishesHistory
<1>2. n.kind = job[p] /\ n.task = t /\ n.attempt = attempt[p] /\ n.gen = LastOf(completed[p])
  BY DEF Note
<1>3. \E k \in 1 .. Len(NewChanges(p)) :
         /\ NewChanges(p)[k].kind = NotedEvent[n.kind] /\ NewChanges(p)[k].attempt = n.attempt
         /\ NewChanges(p)[k].gen = n.gen
  <2>1. CASE BaselineStaged(p)
    <3>1. completed[p] = <<0>> /\ job[p] = "baseline_ready" /\ LastOf(<<0>>) = 0
      BY <1>0, <2>1 DEF BaselineStaged, LastOf
    <3>2. /\ Len(NewChanges(p)) = 1
          /\ NewChanges(p)[1] = Change("baseline_ready", attempt[p], 0, snap[p].seq)
      BY <3>1, BaselineChanges
    <3> QED BY <1>2, <3>1, <3>2 DEF Change, NotedEvent
  <2>2. CASE GenerationsStaged(p)
    <3>1. job[p] \in {"generation_ready", "flush_terminal", "flush_failure"}
      BY <1>0, <2>2 DEF GenerationsStaged, InPublication, SegmentJobs, BarrierJobs, FlushJobs
    <3>2. NotedEvent[n.kind] = "generation_ready"
      BY <1>2, <3>1 DEF NotedEvent
    <3>3. /\ Len(completed[p]) \in Nat /\ Len(completed[p]) > 0
          /\ Len(NewChanges(p)) = 2 * Len(completed[p])
          /\ \A k \in 1 .. Len(completed[p]) :
                NewChanges(p)[2 * k] =
                   Change("generation_ready", attempt[p], completed[p][k], snap[p].seq + 2 * k - 1)
      BY <1>0, <2>2, GenerationChanges
    <3>4. NewChanges(p)[2 * Len(completed[p])] =
             Change("generation_ready", attempt[p], LastOf(completed[p]),
                    snap[p].seq + 2 * Len(completed[p]) - 1)
      <4>1. Len(completed[p]) \in 1 .. Len(completed[p])
        BY <3>3
      <4> QED BY <3>3, <4>1 DEF LastOf
    <3>5. 2 * Len(completed[p]) \in 1 .. Len(NewChanges(p))
      BY <3>3
    <3>6. /\ NewChanges(p)[2 * Len(completed[p])].kind = "generation_ready"
          /\ NewChanges(p)[2 * Len(completed[p])].attempt = attempt[p]
          /\ NewChanges(p)[2 * Len(completed[p])].gen = LastOf(completed[p])
      BY <3>4 DEF Change
    <3> QED BY <1>2, <3>2, <3>5, <3>6
  <2> QED BY <1>0, <2>1, <2>2 DEF StageAt, StagedOK
<1>4. \E i \in DOMAIN history'[t] :
         /\ history'[t][i].kind = NotedEvent[n.kind] /\ history'[t][i].attempt = n.attempt
         /\ history'[t][i].gen = n.gen
  <2>1. PICK k \in 1 .. Len(NewChanges(p)) :
           /\ NewChanges(p)[k].kind = NotedEvent[n.kind] /\ NewChanges(p)[k].attempt = n.attempt
           /\ NewChanges(p)[k].gen = n.gen
    BY <1>3
  <2>2. Len(h) + k \in DOMAIN history'[t] /\ history'[t][Len(h) + k] = NewChanges(p)[k]
    BY <1>1
  <2> QED BY <2>1, <2>2
<1>5. ASSUME Checkpointed[t]
      PROVE  \E j \in DOMAIN checkpoints'[t] :
                checkpoints'[t][j].attempt = n.attempt /\ checkpoints'[t][j].gen = n.gen
  <2>1. MakesCheckpoint(p)
    BY <1>0, <1>5 DEF MakesCheckpoint, StageAt, StateOK
  <2>2. /\ Len(checkpoints[t]) \in Nat /\ DOMAIN checkpoints'[t] = 1 .. Len(checkpoints[t]) + 1
        /\ checkpoints'[t][Len(checkpoints[t]) + 1] = NewCheckpoint(p)
    BY <1>0, <2>1, PublishesPoint
  <2>3. NewCheckpoint(p).attempt = attempt[p] /\ NewCheckpoint(p).gen = LastOf(completed[p])
    BY DEF NewCheckpoint
  <2>4. Len(checkpoints[t]) + 1 \in DOMAIN checkpoints'[t]
    BY <2>2
  <2> QED BY <1>2, <2>2, <2>3, <2>4
<1> HIDE DEF t, h
<1> QED BY <1>2, <1>4, <1>5 DEF Durable, t

(* The published event is in the history. *)
LEMMA EventPublished ==
    ASSUME StageInv, ConstantAssumption, NEW p \in Procs, Publishes(p), job[p] \in {"resumed", "completed"},
           NEW n, n = Note(p, gen[p])
    PROVE  Durable(n)'
<1> DEFINE t == TaskOf[p]
           h == history[t]
<1>0. /\ TypeInv /\ pc[p] = "commit" /\ CallTypes(p) /\ job[p] \in EventJobs /\ job[p] \notin SegmentJobs
  BY CallTyped DEF StageInv, Publishes, EventJobs, SegmentJobs, BarrierJobs, FlushJobs
<1>1. /\ Len(h) \in Nat /\ Len(NewChanges(p)) \in Nat
      /\ DOMAIN history'[t] = 1 .. Len(h) + Len(NewChanges(p))
      /\ \A k \in 1 .. Len(NewChanges(p)) : history'[t][Len(h) + k] = NewChanges(p)[k]
  BY <1>0, PublishesHistory
<1>2. n.kind = job[p] /\ n.task = t /\ n.attempt = attempt[p] /\ n.gen = gen[p]
      /\ NotedEvent[n.kind] = job[p]
  BY DEF Note, NotedEvent
<1>3. /\ Len(pending[p]) \in Nat /\ Len(pending[p]) + 1 \in 1 .. Len(NewChanges(p))
      /\ NewChanges(p)[Len(pending[p]) + 1] = Change(job[p], attempt[p], gen[p], snap[p].seq + Len(pending[p]))
  <2>1. EventShape(job[p], attempt[p], pending[p], gen[p], snap[p].seq)
        /\ NewChanges(p) = EventChanges(job[p], attempt[p], pending[p], gen[p], snap[p].seq)
    BY <1>0, ChangesOfEvent
  <2> QED BY <2>1 DEF EventShape
<1>4. Len(h) + (Len(pending[p]) + 1) \in DOMAIN history'[t]
      /\ history'[t][Len(h) + (Len(pending[p]) + 1)] = NewChanges(p)[Len(pending[p]) + 1]
  <2>1. PICK k \in 1 .. Len(NewChanges(p)) : k = Len(pending[p]) + 1
    BY <1>3
  <2>2. Len(h) + k \in 1 .. Len(h) + Len(NewChanges(p))
    BY <1>1
  <2>3. history'[t][Len(h) + k] = NewChanges(p)[k] /\ Len(h) + k \in DOMAIN history'[t]
    BY <1>1, <2>2
  <2> QED BY <2>1, <2>3
<1>5. \E i \in DOMAIN history'[t] :
         /\ history'[t][i].kind = NotedEvent[n.kind] /\ history'[t][i].attempt = n.attempt
         /\ history'[t][i].gen = n.gen
  <2>1. PICK i \in DOMAIN history'[t] :
           history'[t][i] = Change(job[p], attempt[p], gen[p], snap[p].seq + Len(pending[p]))
    BY <1>3, <1>4
  <2>2. /\ history'[t][i].kind = job[p] /\ history'[t][i].attempt = attempt[p]
        /\ history'[t][i].gen = gen[p]
    BY <2>1 DEF Change
  <2> QED BY <1>2, <2>2
<1> HIDE DEF t, h
<1> QED BY <1>0, <1>2, <1>5 DEF Durable, t

LEMMA StepNotes ==
    ASSUME TypeInv, ConstantAssumption, NEW p \in Procs, Step(p)
    PROVE  \/ notes' = notes
           \/ /\ pc[p] = "reuse" /\ Leaves(p)
              /\ notes' = notes \cup {[kind |-> "result_reuse", task |-> s.task, attempt |-> s.attempt,
                                       gen |-> MaxGen] : s \in selected}
           \/ /\ pc[p] = "notify" /\ ~Silent(p) /\ notes' = notes \cup {Note(p, NotifyGen(p))}
              /\ Leaves(p) \/ (Rests(p) /\ WalksOut(p))
<1>1. CASE Reuse(p)
  <2>1. Leaves(p)
    BY <1>1, LeaveMoves DEF Reuse, End
  <2> QED BY <1>1, <2>1 DEF Reuse
<1>2. ASSUME pc[p] = "notify", Deliver(p)
      PROVE  \/ notes' = notes
             \/ ~Silent(p) /\ notes' = notes \cup {Note(p, NotifyGen(p))}
  BY <1>2 DEF Deliver, Silent, Note
<1>3. CASE Notify(p)
  <2>1. CASE End(p)
    <3>1. Leaves(p)
      BY <2>1, LeaveMoves DEF End
    <3> QED BY <1>2, <1>3, <3>1 DEF Notify
  <2>2. CASE /\ job[p] # "completed"
             /\ Goto(p, AfterNotify[job[p]])
             /\ UNCHANGED <<job, callVars, writerVars, snap>>
    <3>1. Rests(p) /\ WalksOut(p)
      BY <1>3, <2>2 DEF Notify, Goto, Rests, Kept, WalksOut, AfterNotify, callVars, writerVars,
         TypeInv, TypeOK, CallType, WriterType, JobOK, JobAt, SegmentJobs, BarrierJobs, FlushJobs,
         EventJobs
    <3> QED BY <1>2, <1>3, <3>1 DEF Notify
  <2> QED BY <1>3, <2>1, <2>2 DEF Notify
<1>4. CASE CallbackRaises(p)
  <2>1. Rests(p) /\ WalksOut(p)
    BY <1>4 DEF CallbackRaises, Goto, Rests, Kept, WalksOut, callVars, writerVars, TypeInv, TypeOK,
       CallType
  <2> QED BY <1>2, <1>4, <2>1 DEF CallbackRaises
<1>5. CASE \/ Start(p) \/ Recover(p) \/ Lookup(p) \/ Begin(p) \/ Open(p) \/ Announce(p) \/ Evaluate(p)
           \/ Tell(p) \/ EnterBarrier(p) \/ Stage(p) \/ Flush(p)
  BY <1>5 DEF Start, Recover, Lookup, Begin, Open, Announce, Evaluate, Tell, EnterBarrier, Stage, Flush
<1>6. CASE \/ EnterEvent(p) \/ Snapshot(p) \/ Commit(p) \/ Reject(p) \/ Clear(p) \/ Record(p)
           \/ GiveUp(p) \/ Finish(p)
  BY <1>6 DEF EnterEvent, Snapshot, Commit, Reject, Clear, Record, GiveUp, Finish
<1>7. CASE CommitError(p) \/ FactError(p) \/ Fault(p) \/ Interrupt(p) \/ Crash(p)
  BY <1>7 DEF CommitError, FactError, Fault, Interrupt, Crash
<1> QED BY <1>1, <1>3, <1>4, <1>5, <1>6, <1>7 DEF Step, Progress, Disturbance

(* Clearing a published group tells its last generation, or nothing. *)
LEMMA ClearsTells ==
    ASSUME StageInv, ConstantAssumption, NEW p \in Procs, Clears(p), job[p] \in SegmentJobs
    PROVE  \/ job[p] \in FlushJobs /\ chain'[p] = <<>>
           \/ /\ NotifyGen(p)' = LastOf(completed[p])
              /\ completed[p] # << 0 >> \/ job[p] = "baseline_ready"
<1>0. CallTypes(p) /\ StageAt(p) /\ completed[p] # <<>> /\ pc[p] = "clear" /\ job'[p] = job[p]
  BY CallTyped DEF StageInv, Clears, TypeInv, JobOK, JobAt
<1>1. chain'[p] = ChainAfter(chain[p], completed[p])
  BY DEF Clears, PublishedSegments
<1>2. CASE BaselineStaged(p)
  <2>1. completed[p] = <<0>> /\ job[p] \in {"baseline_ready", "flush_failure"} /\ LastOf(<<0>>) = 0
    BY <1>0, <1>2 DEF BaselineStaged, InPublication, LastOf
  <2>2. chain'[p] = <<>>
    BY <1>0, <1>1, <2>1, LinksAfter DEF CallTypes
  <2> QED BY <1>0, <2>1, <2>2 DEF NotifyGen, FlushJobs
<1>3. CASE GenerationsStaged(p)
  <2>1. chain[p] \in Seq(Nat) /\ completed[p] \in Seq(Nat)
        /\ \A i \in 1 .. Len(completed[p]) : completed[p][i] > 0
    BY <1>0, <1>3 DEF GenerationsStaged, CallTypes
  <2>2. /\ ChainAfter(chain[p], completed[p]) # <<>>
        /\ LastOf(ChainAfter(chain[p], completed[p])) = LastOf(completed[p])
    BY <1>0, <2>1, LinksAfter
  <2>3. job[p] \notin {"baseline_ready", "resumed", "completed"}
    BY <1>0, <1>3 DEF GenerationsStaged, InPublication, SegmentJobs, BarrierJobs, FlushJobs
  <2>4. completed[p] # <<0>>
    <3> SUFFICES ASSUME completed[p] = << 0 >>
                 PROVE  FALSE
      OBVIOUS
    <3>1. 1 \in 1 .. Len(completed[p]) /\ completed[p][1] = 0
      OBVIOUS
    <3> QED BY <2>1, <3>1
  <2> QED BY <1>0, <1>1, <2>2, <2>3, <2>4 DEF NotifyGen
<1> QED BY <1>0, <1>2, <1>3 DEF StageAt, StagedOK

LEMMA StepAnnounced ==
    ASSUME CallbackInv, ConstantAssumption, NEW p \in Procs, Step(p), OnlyCaller(p), Move(p)
    PROVE  \A q \in Procs : AnnouncedOK(q)'
<1>0. StageInv /\ TypeInv /\ \A t \in Tasks : Keeps(t)
  BY StepKeeps DEF CallbackInv, StageInv
<1>1. ASSUME NEW q \in Procs, NEW g
      PROVE  Note(q, g).task \in Tasks /\ Note(q, g).task = TaskOf[q] /\ Note(q, g).kind = job[q]
             /\ Note(q, g).attempt = attempt[q] /\ Note(q, g).gen = g
  BY DEF Note, ConstantAssumption
<1>2. ASSUME NEW q \in Procs, q # p
      PROVE  AnnouncedOK(q)'
  <2>1. Untouched(q) /\ AnnouncedOK(q)
    BY <1>2 DEF OnlyCaller, CallbackInv
  <2>2. /\ pc'[q] = pc[q] /\ job'[q] = job[q] /\ completed'[q] = completed[q] /\ gen'[q] = gen[q]
        /\ chain'[q] = chain[q] /\ attempt'[q] = attempt[q] /\ resume'[q] = resume[q]
    BY <2>1 DEF Untouched, Same
  <2>4. NotifyGen(q)' = NotifyGen(q) /\ Silent(q)' = Silent(q)
    BY <2>2 DEF NotifyGen, Silent
  <2>5. ASSUME pc[q] = "clear", job[q] \in SegmentJobs, completed[q] # << 0 >> \/ job[q] = "baseline_ready"
        PROVE  Durable(Note(q, LastOf(completed[q])))'
    <3>1. PICK n : n = Note(q, LastOf(completed[q]))
      OBVIOUS
    <3>2. Durable(n)'
      BY <1>0, <1>1, <2>1, <2>5, <3>1, DurableKeeps DEF AnnouncedOK
    <3>3. Note(q, LastOf(completed[q]))' = n
      BY <2>2, <3>1 DEF Note
    <3> QED BY <3>2, <3>3
  <2>6. ASSUME pc[q] = "clear", job[q] \in {"resumed", "completed"}
        PROVE  Durable(Note(q, gen[q]))'
    <3>1. PICK n : n = Note(q, gen[q])
      OBVIOUS
    <3>2. Durable(n)'
      BY <1>0, <1>1, <2>1, <2>6, <3>1, DurableKeeps DEF AnnouncedOK
    <3>3. Note(q, gen[q])' = n
      BY <2>2, <3>1 DEF Note
    <3> QED BY <3>2, <3>3
  <2>7. ASSUME pc[q] = "notify", ~Silent(q)
        PROVE  Durable(Note(q, NotifyGen(q)))'
    <3>1. PICK n : n = Note(q, NotifyGen(q))
      OBVIOUS
    <3>2. Durable(n)'
      BY <1>0, <1>1, <2>1, <2>7, <3>1, DurableKeeps DEF AnnouncedOK
    <3>3. Note(q, NotifyGen(q))' = n
      BY <2>2, <2>4, <3>1 DEF Note
    <3> QED BY <3>2, <3>3
  <2> QED BY <2>2, <2>4, <2>5, <2>6, <2>7 DEF AnnouncedOK
<1>3. ASSUME Commits(p)
      PROVE  AnnouncedOK(p)'
  <2>1. /\ pc'[p] = "clear" /\ job'[p] = job[p] /\ completed'[p] = completed[p] /\ gen'[p] = gen[p]
        /\ attempt'[p] = attempt[p] /\ Publishes(p)
    BY <1>3 DEF Commits, Rests, Kept
  <2>2. ASSUME job[p] \in SegmentJobs, completed[p] # << 0 >> \/ job[p] = "baseline_ready"
        PROVE  Durable(Note(p, LastOf(completed[p])))'
    <3>1. PICK n : n = Note(p, LastOf(completed[p]))
      OBVIOUS
    <3>2. Durable(n)'
      BY <1>0, <2>1, <2>2, <3>1, GroupPublished
    <3>3. Note(p, LastOf(completed[p]))' = n
      BY <2>1, <3>1 DEF Note
    <3> QED BY <3>2, <3>3
  <2>3. ASSUME job[p] \in {"resumed", "completed"}
        PROVE  Durable(Note(p, gen[p]))'
    <3>1. PICK n : n = Note(p, gen[p])
      OBVIOUS
    <3>2. Durable(n)'
      BY <1>0, <2>1, <2>3, <3>1, EventPublished
    <3>3. Note(p, gen[p])' = n
      BY <2>1, <3>1 DEF Note
    <3> QED BY <3>2, <3>3
  <2>4. pc'[p] # "notify" /\ pc'[p] = "clear" /\ job'[p] = job[p] /\ completed'[p] = completed[p]
    BY <2>1
  <2>5. job'[p] \in SegmentJobs /\ (completed'[p] # <<0>> \/ job'[p] = "baseline_ready") =>
           Durable(Note(p, LastOf(completed[p])))'
    BY <2>2, <2>4
  <2>6. job'[p] \in {"resumed", "completed"} => Durable(Note(p, gen[p]))'
    BY <2>3, <2>4
  <2> QED BY <2>4, <2>5, <2>6 DEF AnnouncedOK
<1>4. ASSUME Clears(p)
      PROVE  AnnouncedOK(p)'
  <2>1. /\ pc[p] = "clear" /\ job'[p] = job[p] /\ attempt'[p] = attempt[p] /\ gen'[p] = gen[p]
        /\ resume'[p] = resume[p]
        /\ pc'[p] = (IF job[p] = "failed" THEN "record" ELSE "notify")
    BY <1>4 DEF Clears
  <2> SUFFICES ASSUME job[p] # "failed", ~Silent(p)'
               PROVE  Durable(Note(p, NotifyGen(p)))'
    <3>1. pc'[p] # "clear" /\ (pc'[p] = "notify" => job[p] # "failed")
      BY <2>1
    <3> QED BY <3>1 DEF AnnouncedOK
  <2>2. AnnouncedOK(p) /\ job[p] \in SegmentJobs \cup EventJobs
    BY <1>0, <2>1 DEF CallbackInv, TypeInv, JobOK, JobAt
  <2>3. CASE job[p] \in SegmentJobs
    <3>1. /\ NotifyGen(p)' = LastOf(completed[p])
          /\ completed[p] # << 0 >> \/ job[p] = "baseline_ready"
      BY <1>0, <1>4, <2>1, <2>3, ClearsTells DEF Silent
    <3>2. PICK n : n = Note(p, LastOf(completed[p]))
      OBVIOUS
    <3>3. Durable(n)'
      BY <1>0, <1>1, <2>1, <2>2, <2>3, <3>1, <3>2, DurableKeeps DEF AnnouncedOK
    <3>4. Note(p, NotifyGen(p))' = n
      BY <2>1, <3>1, <3>2 DEF Note
    <3> QED BY <3>3, <3>4
  <2>4. CASE job[p] \in {"resumed", "completed"}
    <3>1. PICK n : n = Note(p, gen[p])
      OBVIOUS
    <3>2. Durable(n) /\ n.task \in Tasks
      BY <1>1, <2>1, <2>2, <2>4, <3>1 DEF AnnouncedOK
    <3>3. Durable(n)'
      BY <1>0, <3>2, DurableKeeps
    <3>4. CASE job[p] = "completed"
      <4>1. NotifyGen(p)' = gen[p]
        BY <2>1, <3>4 DEF NotifyGen
      <4>2. Note(p, NotifyGen(p))' = n
        BY <2>1, <3>1, <4>1 DEF Note
      <4> QED BY <3>3, <4>2
    <3>5. CASE job[p] = "resumed"
      <4>1. PICK m : m = Note(p, NotifyGen(p))'
        OBVIOUS
      <4>2. m.task = n.task /\ m.kind = n.kind /\ m.attempt = n.attempt /\ n.kind = "resumed"
        BY <2>1, <3>1, <3>5, <4>1 DEF Note
      <4>3. "resumed" \notin SegmentJobs
        BY DEF SegmentJobs, BarrierJobs, FlushJobs
      <4>4. Durable(m)'
        BY <3>3, <4>2, <4>3 DEF Durable
      <4> QED BY <4>1, <4>4
    <3> QED BY <2>4, <3>4, <3>5
  <2> QED BY <2>2, <2>3, <2>4 DEF EventJobs
<1>5. ASSUME ~Commits(p) /\ ~Clears(p)
      PROVE  AnnouncedOK(p)'
  <2>1. pc'[p] \notin {"clear", "notify"}
    BY <1>5 DEF Move, Leaves, Starts, Allocates, Opens, Evaluates, Tells, StoresState, Stages, Walks,
       WalksOutside, WalksIn, WalksOut, Escapes
  <2>2. pc'[p] # "clear" /\ pc'[p] # "notify"
    BY <2>1
  <2> QED BY <2>2 DEF AnnouncedOK
<1> QED BY <1>2, <1>3, <1>4, <1>5

LEMMA StepDurable ==
    ASSUME CallbackInv, ConstantAssumption, NEW p \in Procs, Step(p)
    PROVE  CallbackDurable' /\ NotesOK'
<1>0. StageInv /\ TypeInv /\ \A t \in Tasks : Keeps(t)
  BY StepKeeps DEF CallbackInv, StageInv
<1>1. notes \subseteq [kind: SegmentJobs \cup EventJobs \cup {"result_reuse"}, task: Tasks, attempt: Nat,
                       gen: Nat]
  BY <1>0 DEF TypeInv, TypeOK, SharedType
<1>2. \A n : Durable(n) <=>
          /\ \E i \in DOMAIN history[n.task] :
                LET e == history[n.task][i] IN
                /\ e.kind = NotedEvent[n.kind] /\ e.attempt = n.attempt
                /\ n.kind # "resumed" => e.gen = n.gen
          /\ Checkpointed[n.task] /\ n.kind \in SegmentJobs =>
                \E i \in DOMAIN checkpoints[n.task] :
                    /\ checkpoints[n.task][i].attempt = n.attempt
                    /\ checkpoints[n.task][i].gen = n.gen
  BY DEF Durable
<1>3. \A n \in notes : Durable(n)
  BY DEF CallbackInv, CallbackDurable, Durable
<1>4. \A n \in notes : Durable(n)' /\ (n.kind \in SegmentJobs \cup {"resumed"} =>
                                          n.attempt <= Current(n.task)')
  <2> SUFFICES ASSUME NEW n \in notes
               PROVE  Durable(n)' /\ (n.kind \in SegmentJobs \cup {"resumed"} =>
                                          n.attempt <= Current(n.task)')
    OBVIOUS
  <2>1. n.task \in Tasks /\ n.attempt \in Nat
    BY <1>1
  <2>2. Durable(n)'
    BY <1>0, <1>3, <2>1, DurableKeeps
  <2>3. n.kind \in SegmentJobs \cup {"resumed"} => n.attempt <= Current(n.task)
    BY DEF CallbackInv, NotesOK
  <2>4. Current(n.task)' >= Current(n.task) /\ Current(n.task) \in Nat /\ Current(n.task)' \in Nat
    <3>1. TypeInv'
      BY <1>0, NextType DEF Step, Next
    <3>2. HistoryMove
      BY <1>0, StepHistory DEF Step
    <3>3. Len(attempts'[n.task]) \in Nat /\ Len(attempts[n.task]) \in Nat
      BY <1>0, <2>1, <3>1, LenProperties DEF TypeInv, TypeOK, StoreType
    <3> QED BY <2>1, <3>2, <3>3 DEF HistoryMove, Current
  <2> QED BY <2>1, <2>2, <2>3, <2>4
<1>5. CASE notes' = notes
  BY <1>4, <1>5 DEF CallbackDurable, NotesOK, Durable
<1>6. CASE /\ pc[p] = "reuse"
           /\ notes' = notes \cup {[kind |-> "result_reuse", task |-> s.task, attempt |-> s.attempt,
                                    gen |-> MaxGen] : s \in selected}
  <2>1. ASSUME NEW s \in selected, NEW n, n = [kind |-> "result_reuse", task |-> s.task,
                                               attempt |-> s.attempt, gen |-> MaxGen]
        PROVE  Durable(n)' /\ n.kind \notin SegmentJobs \cup {"resumed"}
    <3>1. n.kind = "result_reuse" /\ n.task = s.task /\ n.attempt = s.attempt /\ n.gen = MaxGen
          /\ NotedEvent[n.kind] = "completed"
      BY <2>1 DEF NotedEvent
    <3>2. s.task \in Tasks
      BY <1>0 DEF TypeInv, TypeOK, StoreType
    <3>3. \E i \in DOMAIN history[s.task] :
             /\ history[s.task][i].kind = "completed" /\ history[s.task][i].attempt = s.attempt
             /\ history[s.task][i].gen = MaxGen
      BY DEF CallbackInv, SelectedDone
    <3>4. n.kind \notin SegmentJobs \cup {"resumed"}
      BY <3>1 DEF SegmentJobs, BarrierJobs, FlushJobs
    <3>5. Durable(n)
      BY <3>1, <3>3, <3>4 DEF Durable
    <3> QED BY <1>0, <3>1, <3>2, <3>4, <3>5, DurableKeeps
  <2>2. \A n \in notes' : Durable(n)' /\ (n.kind \in SegmentJobs \cup {"resumed"} =>
                                          n.attempt <= Current(n.task)')
    BY <1>4, <1>6, <2>1
  <2> QED BY <2>2 DEF CallbackDurable, NotesOK, Durable
<1>7. CASE pc[p] = "notify" /\ ~Silent(p) /\ notes' = notes \cup {Note(p, NotifyGen(p))}
  <2>1. PICK n : n = Note(p, NotifyGen(p))
    OBVIOUS
  <2>2. Durable(n) /\ n.task = TaskOf[p] /\ n.attempt = attempt[p] /\ TaskOf[p] \in Tasks
    BY <1>7, <2>1 DEF CallbackInv, AnnouncedOK, Note, ConstantAssumption
  <2>3. Durable(n)'
    BY <1>0, <2>2, DurableKeeps
  <2>4. n.attempt <= Current(n.task)'
    <3>1. attempt[p] <= Current(TaskOf[p])
      BY <1>0 DEF StageInv, StageAt, ClaimOK
    <3>2. Grows(p) /\ CallTypes(p)
      BY <1>0, AllGrow, CallTyped
    <3> QED BY <2>2, <3>1, <3>2 DEF Grows, CallTypes
  <2>5. \A m \in notes' : Durable(m)' /\ (m.kind \in SegmentJobs \cup {"resumed"} =>
                                          m.attempt <= Current(m.task)')
    BY <1>4, <1>7, <2>1, <2>3, <2>4
  <2> QED BY <2>5 DEF CallbackDurable, NotesOK, Durable
<1> QED BY <1>0, <1>5, <1>6, <1>7, StepNotes

LEMMA StepSelected ==
    ASSUME StageInv, SelectedDone, ConstantAssumption, NEW p \in Procs, Step(p)
    PROVE  SelectedDone'
<1>0. TypeInv /\ \A t \in Tasks : Keeps(t)
  BY StepKeeps DEF StageInv
<1> SUFFICES ASSUME NEW s \in selected'
             PROVE  \E i \in DOMAIN history'[s.task] :
                       /\ history'[s.task][i].kind = "completed"
                       /\ history'[s.task][i].attempt = s.attempt
                       /\ history'[s.task][i].gen = MaxGen
  BY DEF SelectedDone
<1>1. CASE s \in selected
  <2>1. PICK i \in DOMAIN history[s.task] :
           /\ history[s.task][i].kind = "completed" /\ history[s.task][i].attempt = s.attempt
           /\ history[s.task][i].gen = MaxGen
    BY <1>1 DEF SelectedDone
  <2>2. s.task \in Tasks
    BY <1>0, <1>1 DEF TypeInv, TypeOK, StoreType
  <2> QED BY <1>0, <2>1, <2>2 DEF Keeps
<1>2. CASE s \notin selected
  <2>1. Publishes(p) /\ job[p] = "completed" /\ s = [task |-> TaskOf[p], attempt |-> attempt[p]]
    BY <1>0, <1>2, StoreShape DEF storeVars, Begins, Updates, Publishes, Publish, Selection
  <2>2. PICK n : n = Note(p, gen[p])
    OBVIOUS
  <2>3. Durable(n)'
    BY <2>1, <2>2, EventPublished
  <2>4. n.task = s.task /\ NotedEvent[n.kind] = "completed" /\ n.attempt = s.attempt /\ n.gen = gen[p]
        /\ n.kind # "resumed"
    BY <2>1, <2>2 DEF Note, NotedEvent
  <2>5. gen[p] = MaxGen
    BY <2>1 DEF StageInv, StageAt, GenOK, Publishes, Telling, InPublication
  <2> QED BY <2>3, <2>4, <2>5 DEF Durable
<1> QED BY <1>1, <1>2

(* The notes of an attempt change with the steps of its own caller only. *)
LEMMA StepGroupNotes ==
    ASSUME StageInv, ConstantAssumption, NEW p \in Procs, Step(p), NEW t, NEW a
    PROVE  \/ GroupNotes(t, a)' = GroupNotes(t, a)
           \/ /\ pc[p] = "notify" /\ ~Silent(p) /\ t = TaskOf[p] /\ a = attempt[p]
              /\ GroupNotes(t, a)' = GroupNotes(t, a) \cup {Note(p, NotifyGen(p))}
              /\ Leaves(p) \/ (Rests(p) /\ WalksOut(p))
<1>0. TypeInv
  BY DEF StageInv
<1>1. CASE notes' = notes
  BY <1>1 DEF GroupNotes
<1>2. CASE /\ pc[p] = "reuse"
           /\ notes' = notes \cup {[kind |-> "result_reuse", task |-> s.task, attempt |-> s.attempt,
                                    gen |-> MaxGen] : s \in selected}
  <2>1. "result_reuse" \notin SegmentJobs \cup {"resumed"}
    BY DEF SegmentJobs, BarrierJobs, FlushJobs
  <2> QED BY <1>2, <2>1 DEF GroupNotes
<1>3. CASE /\ pc[p] = "notify" /\ ~Silent(p) /\ notes' = notes \cup {Note(p, NotifyGen(p))}
           /\ Leaves(p) \/ (Rests(p) /\ WalksOut(p))
  BY <1>3 DEF GroupNotes, Note
<1> QED BY <1>0, <1>1, <1>2, <1>3, StepNotes

LEMMA StepNews ==
    ASSUME CallbackInv, ConstantAssumption, NEW p \in Procs, Step(p), OnlyCaller(p), Move(p)
    PROVE  \A q \in Procs : NewsOK(q)'
<1>0. StageInv /\ TypeInv /\ StageInv'
  BY StepStage DEF CallbackInv, StageInv
<1>1. ASSUME NEW q \in Procs, q # p
      PROVE  NewsOK(q)'
  <2> SUFFICES ASSUME attempt'[q] # 0
               PROVE  NewsOK(q)'
    BY DEF NewsOK
  <2>1. Untouched(q) /\ NewsOK(q) /\ attempt[q] # 0
    BY <1>1 DEF OnlyCaller, Untouched, CallbackInv
  <2>2. ~(TaskOf[q] = TaskOf[p] /\ attempt[q] = attempt[p])
    BY <1>0, <1>1, <2>1 DEF StageInv, OneClaim
  <2>3. PICK t, a : t = TaskOf[q] /\ a = attempt[q]
    OBVIOUS
  <2>4. GroupNotes(t, a)' = GroupNotes(t, a)
    BY <1>0, <2>2, <2>3, StepGroupNotes
  <2>5. GroupNotes(TaskOf[q], attempt[q])' = GroupNotes(t, a)
    BY <2>1, <2>3, <2>4 DEF Untouched, GroupNotes
  <2>6. /\ Quiet(q)' = Quiet(q) /\ AtBarrier(q)' = AtBarrier(q) /\ Silent(q)' = Silent(q)
        /\ NotifyGen(q)' = NotifyGen(q)
    BY <2>1 DEF Untouched, Same, Quiet, AtBaseline, AtBarrier, Telling, InPublication, Silent, NotifyGen
  <2>7. /\ gen'[q] = gen[q] /\ completed'[q] = completed[q] /\ pc'[q] = pc[q] /\ job'[q] = job[q]
    BY <2>1 DEF Untouched, Same
  <2>8. \A m \in GroupNotes(t, a) :
            /\ ~Quiet(q) /\ m.gen <= gen[q]
            /\ AtBarrier(q) => m.gen < gen[q]
            /\ completed[q] # <<>> => m.gen < LastOf(completed[q])
            /\ pc[q] = "notify" /\ job[q] \in SegmentJobs /\ ~Silent(q) => m.gen < NotifyGen(q)
    BY <2>1, <2>3 DEF NewsOK
  <2> QED BY <2>5, <2>6, <2>7, <2>8 DEF NewsOK
<1>2. NewsOK(p) /\ CallTypes(p) /\ StageAt(p) /\ NotesOK /\ JobAt(p)
      /\ notes \subseteq [kind: SegmentJobs \cup EventJobs \cup {"result_reuse"}, task: Tasks,
                          attempt: Nat, gen: Nat]
  BY <1>0, CallTyped DEF CallbackInv, StageInv, TypeInv, TypeOK, SharedType, JobOK
<1> DEFINE group == GroupNotes(TaskOf[p], attempt[p])
<1>3. \A m \in group : m.gen \in Nat /\ m.attempt = attempt[p] /\ m.task = TaskOf[p]
                       /\ m.kind \in SegmentJobs \cup {"resumed"} /\ m \in notes
  BY <1>2 DEF GroupNotes
<1>5. ASSUME attempt'[p] = 0
      PROVE  NewsOK(p)'
  BY <1>5 DEF NewsOK
<1>6. ASSUME attempt[p] # 0
      PROVE  \A m \in group :
                /\ ~Quiet(p) /\ m.gen <= gen[p]
                /\ AtBarrier(p) => m.gen < gen[p]
                /\ completed[p] # <<>> => m.gen < LastOf(completed[p])
                /\ pc[p] = "notify" /\ job[p] \in SegmentJobs /\ ~Silent(p) => m.gen < NotifyGen(p)
  BY <1>2, <1>6 DEF NewsOK
<1>7. ASSUME Allocates(p)
      PROVE  NewsOK(p)'
  <2>1. PICK t, a : t = TaskOf[p] /\ a = Current(t) + 1
    OBVIOUS
  <2>2. attempt'[p] = a /\ pc[p] = "begin"
    BY <1>7, <2>1 DEF Allocates, Begins
  <2>3. GroupNotes(t, a)' = GroupNotes(t, a)
    BY <1>0, <2>1, <2>2, StepGroupNotes
  <2>4. GroupNotes(t, a) = {}
    <3>1. Current(t) \in Nat
      BY <1>2, <2>1 DEF CallTypes
    <3>2. \A n \in notes : n.task = t /\ n.attempt = a /\ n.kind \in SegmentJobs \cup {"resumed"} => FALSE
      BY <1>2, <2>1, <3>1 DEF NotesOK
    <3> QED BY <3>2 DEF GroupNotes
  <2>5. GroupNotes(TaskOf[p], attempt[p])' = {}
    BY <2>1, <2>2, <2>3, <2>4 DEF GroupNotes
  <2> QED BY <2>5 DEF NewsOK
<1>8. ASSUME ~Allocates(p), attempt'[p] # 0
      PROVE  attempt'[p] = attempt[p] /\ attempt[p] # 0
  <2>1. ~Leaves(p)
    BY <1>8 DEF Leaves
  <2> QED BY <1>8, <2>1 DEF Move, Starts, Opens, Evaluates, Tells, StoresState, Stages, Walks, Rests, Commits,
          Clears, Escapes
<1>9. ASSUME attempt'[p] = attempt[p], attempt[p] # 0, GroupNotes(TaskOf[p], attempt[p])' = group,
             \A m \in group :
                /\ ~Quiet(p)' /\ m.gen <= gen'[p]
                /\ AtBarrier(p)' => m.gen < gen'[p]
                /\ completed'[p] # <<>> => m.gen < LastOf(completed'[p])
                /\ pc'[p] = "notify" /\ job'[p] \in SegmentJobs /\ ~Silent(p)' => m.gen < NotifyGen(p)'
      PROVE  NewsOK(p)'
  BY <1>9 DEF NewsOK
<1>10. ASSUME ~Allocates(p) /\ attempt'[p] # 0 /\ pc[p] = "notify" /\ ~Leaves(p)
      PROVE  NewsOK(p)'
  <2>1. Rests(p) /\ WalksOut(p) /\ attempt[p] # 0
    BY <1>8, <1>10 DEF Move, Starts, Opens, Evaluates, Tells, StoresState, Stages, Walks, WalksOutside,
       WalksIn, Commits, Publishes, Clears, Escapes, Holding
  <2>2. /\ gen'[p] = gen[p] /\ completed'[p] = completed[p] /\ attempt'[p] = attempt[p]
        /\ pc'[p] \in {"generate", "complete", "fail_event", "failing"}
    BY <1>10, <2>1 DEF Rests, Kept, WalksOut
  <2>3. ~Quiet(p)' /\ ~AtBarrier(p)' /\ pc'[p] # "notify"
    BY <2>2 DEF Quiet, AtBaseline, AtBarrier, Telling, InPublication
  <2>4. completed[p] = <<>>
    BY <1>2, <1>10 DEF StageAt, StagedOK
  <2>5. NotifyGen(p) <= gen[p]
    <3>1. job[p] = "resumed" => resume[p].gen <= gen[p]
      BY <1>2, <1>10 DEF StageAt, GenOK, ResumeOK, Telling
    <3>2. job[p] \in SegmentJobs /\ chain[p] # <<>> => LastOf(chain[p]) <= gen[p]
      BY <1>2, <1>10 DEF StageAt, LinkOK
    <3>3. job[p] \in SegmentJobs \cup {"resumed", "completed"} /\ gen[p] \in Nat
      BY <1>2, <1>10 DEF JobAt, EventJobs, CallTypes
    <3> QED BY <3>1, <3>2, <3>3 DEF NotifyGen
  <2>6. PICK n : n = Note(p, NotifyGen(p))
    OBVIOUS
  <2>7. \A m \in GroupNotes(TaskOf[p], attempt[p])' : m \in group \/ m = n
    <3>1. PICK t, a : t = TaskOf[p] /\ a = attempt[p]
      OBVIOUS
    <3>2. GroupNotes(t, a)' \subseteq GroupNotes(t, a) \cup {n}
      BY <1>0, <2>6, StepGroupNotes
    <3>3. GroupNotes(TaskOf[p], attempt[p])' = GroupNotes(t, a)'
      BY <2>2, <3>1 DEF GroupNotes
    <3> QED BY <3>1, <3>2, <3>3
  <2>8. n.gen <= gen[p]
    BY <2>5, <2>6 DEF Note
  <2>9. \A m \in group : m.gen <= gen[p]
    BY <1>6, <2>1
  <2> HIDE DEF group
  <2>10. \A m \in GroupNotes(TaskOf[p], attempt[p])' : m.gen <= gen'[p]
    BY <2>2, <2>7, <2>8, <2>9
  <2> QED BY <2>2, <2>3, <2>4, <2>10 DEF NewsOK
<1>11. ASSUME ~Allocates(p) /\ attempt'[p] # 0 /\ pc[p] # "notify"
      PROVE  NewsOK(p)'
  <2>1. attempt'[p] = attempt[p] /\ attempt[p] # 0
    BY <1>8, <1>11
  <2>2. GroupNotes(TaskOf[p], attempt[p])' = group
    <3>1. PICK t, a : t = TaskOf[p] /\ a = attempt[p]
      OBVIOUS
    <3>2. GroupNotes(t, a)' = GroupNotes(t, a)
      BY <1>0, <1>11, StepGroupNotes
    <3> QED BY <2>1, <3>1, <3>2 DEF GroupNotes
  <2>3. pc[p] \notin Unclaimed
    BY <1>2, <2>1 DEF StageAt, ClaimOK
  <2> SUFFICES ASSUME NEW m \in group
               PROVE  /\ ~Quiet(p)' /\ m.gen <= gen'[p]
                      /\ AtBarrier(p)' => m.gen < gen'[p]
                      /\ completed'[p] # <<>> => m.gen < LastOf(completed'[p])
                      /\ pc'[p] = "notify" /\ job'[p] \in SegmentJobs /\ ~Silent(p)' => m.gen < NotifyGen(p)'
    BY <1>9, <2>1, <2>2
  <2>4. /\ ~Quiet(p) /\ m.gen <= gen[p] /\ m.gen \in Nat /\ gen[p] \in Nat
        /\ AtBarrier(p) => m.gen < gen[p]
        /\ completed[p] # <<>> => m.gen < LastOf(completed[p])
    BY <1>2, <1>3, <1>6, <2>1 DEF CallTypes
  <2> HIDE DEF group
  <2>5. CASE Evaluates(p)
    BY <2>4, <2>5 DEF Evaluates, Kept, Quiet, AtBaseline, AtBarrier, Telling, InPublication
  <2>6. CASE Tells(p)
    BY <2>4, <2>6 DEF Tells, Quiet, AtBaseline, AtBarrier, Telling, InPublication
  <2>7. CASE StoresState(p)
    BY <2>4, <2>7 DEF StoresState, Quiet, AtBaseline, AtBarrier, Telling, InPublication
  <2>8. CASE Stages(p)
    <3>1. job[p] = "generation_ready" /\ AtBarrier(p)
      BY <1>2, <2>4, <2>8 DEF Stages, JobAt, BarrierJobs, Quiet, AtBaseline, AtBarrier
    <3>2. LastOf(completed'[p]) = gen[p]
      BY <1>2, <2>8, LastOfAppend DEF Stages, CallTypes
    <3> QED BY <2>4, <2>8, <3>1, <3>2 DEF Stages, Quiet, AtBaseline, AtBarrier, Telling, InPublication
  <2>9. CASE Walks(p)
    <3>1. gen'[p] = gen[p] /\ completed'[p] = completed[p]
      BY <2>9 DEF Walks, Rests, Kept
    <3>2. ~Quiet(p)' /\ ~AtBarrier(p)' /\ pc'[p] # "notify"
      BY <1>11, <2>3, <2>4, <2>9 DEF Walks, WalksOutside, WalksIn, WalksOut, Unclaimed, Quiet, AtBaseline,
         AtBarrier, Telling, InPublication
    <3> QED BY <2>4, <3>1, <3>2
  <2>10. CASE Commits(p)
    BY <2>4, <2>10 DEF Commits, Rests, Kept, Publishes, Quiet, AtBaseline, AtBarrier, Telling, InPublication
  <2>11. CASE Clears(p)
    <3>1. /\ gen'[p] = gen[p] /\ job'[p] = job[p] /\ pc[p] = "clear"
          /\ completed'[p] # <<>> => completed'[p] = completed[p]
          /\ pc'[p] \in {"record", "notify"}
      BY <2>11 DEF Clears
    <3>2. ~Quiet(p)' /\ ~AtBarrier(p)'
      BY <2>4, <3>1 DEF Quiet, AtBaseline, AtBarrier, Telling, InPublication
    <3>3. ASSUME job[p] \in SegmentJobs, ~Silent(p)'
          PROVE  m.gen < NotifyGen(p)'
      <4>1. NotifyGen(p)' = LastOf(completed[p])
        BY <1>0, <2>11, <3>1, <3>3, ClearsTells DEF Silent
      <4>2. completed[p] # <<>>
        BY <1>2, <3>1, <3>3 DEF JobAt
      <4> QED BY <2>4, <4>1, <4>2
    <3> QED BY <2>4, <3>1, <3>2, <3>3
  <2>12. CASE Escapes(p)
    BY <2>4, <2>12 DEF Escapes, Quiet, AtBaseline, AtBarrier, Telling, InPublication
  <2>13. CASE Leaves(p) \/ Starts(p) \/ Opens(p)
    BY <1>11, <2>3, <2>4, <2>13 DEF Leaves, Starts, Opens, Unclaimed, Quiet
  <2> QED BY <1>11, <2>5, <2>6, <2>7, <2>8, <2>9, <2>10, <2>11, <2>12, <2>13 DEF Move
<1>12. ASSUME Leaves(p)
      PROVE  NewsOK(p)'
  BY <1>5, <1>12 DEF Leaves
<1> QED BY <1>1, <1>5, <1>7, <1>10, <1>11, <1>12

LEMMA StepCallback ==
    ASSUME CallbackInv, ConstantAssumption, NEW p \in Procs, Step(p)
    PROVE  CallbackInv'
<1>1. StageInv /\ TypeInv
  BY DEF CallbackInv, StageInv
<1>2. OnlyCaller(p) /\ Move(p)
  BY <1>1, StepMoves
<1>3. StageInv'
  BY <1>1, StepStage
<1>4. CallbackDurable' /\ NotesOK'
  BY StepDurable
<1>5. SelectedDone'
  BY <1>1, StepSelected DEF CallbackInv
<1>6. \A q \in Procs : AnnouncedOK(q)'
  BY <1>2, StepAnnounced
<1>7. \A q \in Procs : NewsOK(q)'
  BY <1>2, StepNews
<1> QED BY <1>3, <1>4, <1>5, <1>6, <1>7 DEF CallbackInv

LEMMA StutterCallback ==
    ASSUME CallbackInv, ConstantAssumption, UNCHANGED vars
    PROVE  CallbackInv'
<1>1. StageInv'
  BY StutterStage DEF CallbackInv
<1>2. /\ history' = history /\ checkpoints' = checkpoints /\ attempts' = attempts
      /\ selected' = selected /\ notes' = notes /\ pc' = pc /\ job' = job /\ attempt' = attempt
      /\ resume' = resume /\ gen' = gen /\ completed' = completed /\ chain' = chain
  BY DEF vars, storeVars, callVars, writerVars
<1>3. CallbackDurable' /\ NotesOK' /\ SelectedDone'
  BY <1>2 DEF CallbackInv, CallbackDurable, NotesOK, SelectedDone, Current
<1>4. \A q \in Procs : AnnouncedOK(q)'
  BY <1>2 DEF CallbackInv, AnnouncedOK, Durable, Note, NotifyGen, Silent
<1>5. \A q \in Procs : NewsOK(q)'
  BY <1>2 DEF CallbackInv, NewsOK, GroupNotes, Quiet, AtBaseline, AtBarrier, Telling, InPublication,
     Silent, NotifyGen
<1> QED BY <1>1, <1>3, <1>4, <1>5 DEF CallbackInv

LEMMA InitCallback ==
    ASSUME ConstantAssumption, Init
    PROVE  CallbackInv
<1>1. StageInv
  BY InitStage
<1>2. notes = {} /\ selected = {}
  BY DEF Init
<1>3. \A q \in Procs : pc[q] = "idle" /\ attempt[q] = 0
  BY DEF Init
<1>4. CallbackDurable /\ NotesOK /\ SelectedDone
  BY <1>2 DEF CallbackDurable, NotesOK, SelectedDone
<1>5. \A q \in Procs : AnnouncedOK(q) /\ NewsOK(q)
  BY <1>3 DEF AnnouncedOK, NewsOK
<1> QED BY <1>1, <1>4, <1>5 DEF CallbackInv

LEMMA NextCallback ==
    ASSUME CallbackInv, ConstantAssumption, [Next]_vars
    PROVE  CallbackInv'
BY StepCallback, StutterCallback DEF Next, Step

LEMMA CallbackInvariant == Spec => []CallbackInv
<1>1. Init => CallbackInv
  BY ConstantAssumption, InitCallback
<1>2. CallbackInv /\ [Next]_vars => CallbackInv'
  BY ConstantAssumption, NextCallback
<1> QED BY <1>1, <1>2, PTL DEF Spec

(* A callback only ever reports what is durable, under every fault, crash and *)
(* interrupt: the event it stands for, and a generation's checkpoint with it. *)
THEOREM CallbacksDurable == Spec => []CallbackDurable
<1>1. CallbackInv => CallbackDurable
  BY DEF CallbackInv
<1> QED BY <1>1, CallbackInvariant, PTL

(* Every group an attempt reports ends later than all it has reported, also   *)
(* after a failure and when an older call of the same task still runs.        *)
THEOREM CallbacksOrdered == Spec => CallbackOrder
<1>1. ASSUME CallbackInv, NEW p \in Procs, Step(p)
      PROVE  \A n \in notes' \ notes : n.kind \in SegmentJobs =>
                \A m \in GroupNotes(n.task, n.attempt) : m.gen < n.gen
  <2> SUFFICES ASSUME NEW n \in notes' \ notes, n.kind \in SegmentJobs,
                      NEW m \in GroupNotes(n.task, n.attempt)
               PROVE  m.gen < n.gen
    OBVIOUS
  <2>0. TypeInv
    BY <1>1 DEF CallbackInv, StageInv
  <2>1. "result_reuse" \notin SegmentJobs
    BY DEF SegmentJobs, BarrierJobs, FlushJobs
  <2>2. pc[p] = "notify" /\ ~Silent(p) /\ n = Note(p, NotifyGen(p))
    BY <1>1, <2>0, <2>1, StepNotes, ConstantAssumption
  <2>3. n.kind = job[p] /\ n.task = TaskOf[p] /\ n.attempt = attempt[p] /\ n.gen = NotifyGen(p)
    BY <2>2 DEF Note
  <2>4. attempt[p] # 0
    BY <1>1, <2>2 DEF CallbackInv, StageInv, StageAt, ClaimOK, Unclaimed
  <2> QED BY <1>1, <2>2, <2>3, <2>4 DEF CallbackInv, NewsOK
<1>2. CallbackInv /\ [Next]_vars =>
        [\A n \in notes' \ notes : n.kind \in SegmentJobs =>
            \A m \in GroupNotes(n.task, n.attempt) : m.gen < n.gen]_vars
  BY <1>1 DEF Next, Step
<1> QED BY <1>2, CallbackInvariant, PTL DEF CallbackOrder, Spec
=============================================================================
