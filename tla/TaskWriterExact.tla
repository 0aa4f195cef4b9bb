-------------------------- MODULE TaskWriterExact --------------------------
(***************************************************************************)
(* Published checkpoints are exact, for every value of the constants and    *)
(* under crashes, failed commits, faults and raising callbacks, as long as  *)
(* no KeyboardInterrupt lands inside the writer (~AsyncSignals): with one   *)
(* the code does not keep this promise.                                     *)
(***************************************************************************)
EXTENDS TaskWriterProofs

-----------------------------------------------------------------------------
(* The inductive invariant *)

Exact(c) == c.cma = c.gen /\ c.chain = UpTo(c.gen)

(* The evidence links the caller would have after publishing what is staged. *)
Reached(p) == ChainAfter(chain[p], completed[p])

(* Nothing lies between the optimizer and what is published or staged. *)
AtGeneration(p) ==
    \/ pc[p] \in {"announce", "generate", "evaluated", "complete"}
    \/ /\ pc[p] \in {"snapshot", "commit", "clear", "notify"}
       /\ job[p] \notin {"flush_failure", "failed"}

(* No writer is open. *)
Outside(p) == pc[p] \in {"idle", "lookup", "reuse", "begin", "open", "finish"}

(* The optimizer has just finished a generation that is not staged yet. *)
AtBarrier(p) == pc[p] = "barrier" \/ (pc[p] = "staged" /\ job[p] = "generation_ready")

AtBaseline(p) == pc[p] = "baseline" \/ (pc[p] = "staged" /\ job[p] = "baseline_ready")

LinksOK(p) ==
    /\ Reached(p) = UpTo(Len(Reached(p)))
    /\ completed[p] # <<>> => LastOf(completed[p]) = Len(Reached(p))

PlaceOK(p) ==
    /\ AtGeneration(p) => gen[p] = Len(Reached(p))
    /\ AtBarrier(p) => gen[p] = Len(Reached(p)) + 1
    /\ AtBaseline(p) => gen[p] = 0 /\ completed[p] = <<>>
    /\ Outside(p) => completed[p] = <<>>

LatestOK(p) ==
    IF pc[p] = "staged" THEN latest[p] \in {NoState, gen[p]}
    ELSE completed[p] # <<>> /\ latest[p] # NoState => latest[p] = LastOf(completed[p])

ExactAt(p) == Exact(resume[p]) /\ LinksOK(p) /\ PlaceOK(p) /\ LatestOK(p)

ExactInv == TypeInv /\ CheckpointExact /\ \A p \in Procs : ExactAt(p)

-----------------------------------------------------------------------------
(* Lemmas about evidence links *)

LEMMA UpToLen ==
    ASSUME NEW n \in Nat
    PROVE  UpTo(n) \in Seq(Nat) /\ Len(UpTo(n)) = n
BY DEF UpTo

LEMMA UpToNext ==
    ASSUME NEW n \in Nat
    PROVE  Append(UpTo(n), n + 1) = UpTo(n + 1)
<1>1. UpTo(n) \in Seq(Nat) /\ Len(UpTo(n)) = n /\ UpTo(n + 1) \in Seq(Nat) /\ Len(UpTo(n + 1)) = n + 1
  BY UpToLen
<1>2. /\ Append(UpTo(n), n + 1) \in Seq(Nat) /\ Len(Append(UpTo(n), n + 1)) = n + 1
      /\ \A i \in 1 .. n : Append(UpTo(n), n + 1)[i] = UpTo(n)[i]
      /\ Append(UpTo(n), n + 1)[n + 1] = n + 1
  BY <1>1, AppendProperties
<1>3. \A i \in 1 .. n + 1 : Append(UpTo(n), n + 1)[i] = UpTo(n + 1)[i]
  BY <1>2 DEF UpTo
<1> QED BY <1>1, <1>2, <1>3, SeqEqual

LEMMA NothingStaged ==
    ASSUME NEW links \in Seq(Nat)
    PROVE  ChainAfter(links, <<>>) = links
BY DEF ChainAfter

(* Staging one more generation adds one evidence link. *)
LEMMA ChainAppend ==
    ASSUME NEW links \in Seq(Nat), NEW segments \in Seq(Nat), NEW g \in Nat
    PROVE  ChainAfter(links, Append(segments, g)) =
              IF segments # <<>> THEN Append(ChainAfter(links, segments), g)
              ELSE IF g = 0 THEN <<>> ELSE Append(links, g)
<1> DEFINE s == Append(segments, g)
<1>0. s \in Seq(Nat) /\ s # <<>> /\ Len(s) = Len(segments) + 1 /\ Len(segments) \in Nat
  BY AppendProperties, LenProperties
<1>1. CASE segments = <<>>
  <2>1. s = <<g>> /\ s[1] = g /\ Tail(s) = <<>>
    BY <1>1
  <2>2. links \o <<g>> = Append(links, g)
    BY AppendIsConcat
  <2> QED BY <1>0, <1>1, <2>1, <2>2 DEF ChainAfter
<1>2. CASE segments # <<>>
  <2>1. Len(segments) > 0
    BY <1>2, EmptySeq
  <2>2. s[1] = segments[1]
    BY <1>0, <2>1, AppendProperties
  <2>3. CASE segments[1] = 0
    <3>1. Tail(s) = Append(Tail(segments), g)
      BY <1>2, <2>1
    <3> QED BY <1>0, <1>2, <2>2, <2>3, <3>1 DEF ChainAfter
  <2>4. CASE segments[1] # 0
    <3>1. s = segments \o <<g>>
      BY AppendIsConcat
    <3>2. links \o (segments \o <<g>>) = (links \o segments) \o <<g>>
      BY ConcatAssociative
    <3>3. (links \o segments) \o <<g>> = Append(links \o segments, g)
      BY ConcatProperties, AppendIsConcat
    <3> HIDE DEF s
    <3> QED BY SMTT(30), <1>0, <1>2, <2>2, <2>4, <3>1, <3>2, <3>3 DEF ChainAfter
  <2> QED BY <2>3, <2>4
<1> QED BY <1>1, <1>2

LEMMA LastOfAppend ==
    ASSUME NEW s \in Seq(Nat), NEW g \in Nat
    PROVE  LastOf(Append(s, g)) = g /\ Append(s, g) # <<>>
BY AppendProperties DEF LastOf

LEMMA ReachedType ==
    ASSUME TypeInv, NEW p \in Procs
    PROVE  Reached(p) \in Seq(Nat) /\ Len(Reached(p)) \in Nat
<1>1. chain[p] \in Seq(Nat) /\ completed[p] \in Seq(Nat)
  BY DEF TypeInv, TypeOK, WriterType
<1> QED BY <1>1, ChainAfterType, LenProperties DEF Reached

LEMMA FreshExact == Exact(Fresh)
BY DEF Exact, Fresh, UpTo

-----------------------------------------------------------------------------
(* A step of one caller *)

Same(q) ==
    /\ pc'[q] = pc[q] /\ job'[q] = job[q] /\ resume'[q] = resume[q] /\ gen'[q] = gen[q]
    /\ completed'[q] = completed[q] /\ latest'[q] = latest[q] /\ chain'[q] = chain[q]

Alone(p) == \A q \in Procs \ {p} : Same(q)

LEMMA SameExact ==
    ASSUME NEW q \in Procs, ExactAt(q), Same(q)
    PROVE  ExactAt(q)'
BY DEF Same, ExactAt, LinksOK, PlaceOK, LatestOK, AtGeneration, AtBarrier, AtBaseline, Outside,
   Reached

(* The caller moves on without touching what is staged or linked. *)
Kept(p) ==
    /\ resume'[p] = resume[p] /\ gen'[p] = gen[p]
    /\ completed'[p] = completed[p] /\ latest'[p] = latest[p] /\ chain'[p] = chain[p]

LEMMA KeptExact ==
    ASSUME NEW p \in Procs, ExactAt(p), Kept(p), pc[p] # "staged", pc'[p] # "staged", PlaceOK(p)'
    PROVE  ExactAt(p)'
BY DEF ExactAt, Kept, LinksOK, LatestOK, Reached

(* A caller whose call is over has nothing staged. *)
LEMMA LeaveExact ==
    ASSUME TypeInv, NEW p \in Procs, Forget(p), NEW label \in {"finish", "idle"}, Goto(p, label)
    PROVE  Alone(p) /\ ExactAt(p)'
<1>1. Alone(p) /\ pc'[p] = label
  BY DEF Forget, Goto, Alone, Same, TypeInv, TypeOK, CallType, WriterType
<1>2. resume'[p] = Fresh /\ completed'[p] = <<>> /\ chain'[p] = <<>>
  BY DEF Forget, TypeInv, TypeOK, CallType, WriterType
<1>3. Reached(p)' = <<>>
  BY <1>2 DEF Reached, ChainAfter
<1>4. LinksOK(p)'
  BY <1>2, <1>3 DEF LinksOK, UpTo
<1>5. PlaceOK(p)' /\ LatestOK(p)'
  BY <1>1, <1>2 DEF PlaceOK, LatestOK, AtGeneration, AtBarrier, AtBaseline, Outside
<1> QED BY <1>1, <1>2, <1>4, <1>5, FreshExact DEF ExactAt

(* An exception leaves what is staged for the failure handling. *)
LEMMA RaiseExact ==
    ASSUME ExactInv, NEW p \in Procs, NEW outcome, Raise(p, outcome), pc[p] # "staged"
    PROVE  Alone(p) /\ ExactAt(p)'
<1>0. TypeInv /\ ExactAt(p)
  BY DEF ExactInv
<1>1. CASE job[p] \in {"flush_failure", "failed"}
  BY <1>0, <1>1, LeaveExact DEF Raise, Escape, End
<1>2. CASE job[p] \notin {"flush_failure", "failed"}
  <2>1. /\ Goto(p, "failing") /\ chain' = [chain EXCEPT ![p] = chain[p]]
        /\ UNCHANGED <<job, callVars, completed, latest, snap>>
    BY <1>2 DEF Raise, Escape
  <2>2. Alone(p) /\ Kept(p) /\ pc'[p] = "failing"
    BY <1>0, <2>1 DEF Goto, Alone, Same, Kept, callVars, TypeInv, TypeOK, CallType, WriterType
  <2>3. PlaceOK(p)'
    BY <2>2 DEF PlaceOK, AtGeneration, AtBarrier, AtBaseline, Outside
  <2> QED BY <1>0, <2>2, <2>3, KeptExact
<1> QED BY <1>1, <1>2

(* A publication leaves exact checkpoints behind. *)
LEMMA PublishExact ==
    ASSUME ExactInv, ConstantAssumption, NEW p \in Procs, pc[p] = "commit", Publish(p)
    PROVE  CheckpointExact'
<1> DEFINE t == TaskOf[p]
           c == NewCheckpoint(p)
<1>0. TypeInv /\ ExactAt(p) /\ t \in Tasks
  BY DEF ExactInv, ConstantAssumption
<1>1. CASE ~MakesCheckpoint(p)
  BY <1>1 DEF Publish, ExactInv, CheckpointExact
<1>2. CASE MakesCheckpoint(p)
  <2>1. completed[p] # <<>> /\ latest[p] # NoState
    BY <1>0, <1>2 DEF MakesCheckpoint, TypeInv, JobOK, JobAt
  <2>2. latest[p] = LastOf(completed[p]) /\ LastOf(completed[p]) = Len(Reached(p))
        /\ Reached(p) = UpTo(Len(Reached(p)))
    BY <1>0, <2>1 DEF ExactAt, LatestOK, LinksOK
  <2>3. c.cma = c.gen /\ c.chain = UpTo(c.gen)
    BY <2>2 DEF NewCheckpoint, Reached
  <2>4. c \in CheckpointType
    BY <1>0, <1>2, NewCheckpointType
  <2>5. checkpoints \in [Tasks -> Seq(CheckpointType)]
    BY <1>0 DEF TypeInv, TypeOK, StoreType
  <2>6. checkpoints' = [checkpoints EXCEPT ![t] = Append(checkpoints[t], c)]
    BY <1>2 DEF Publish
  <2> HIDE DEF c
  <2>7. ASSUME NEW u \in Tasks, NEW i \in DOMAIN checkpoints'[u]
        PROVE  checkpoints'[u][i].cma = checkpoints'[u][i].gen
               /\ checkpoints'[u][i].chain = UpTo(checkpoints'[u][i].gen)
    <3>1. CASE u # t
      <4>1. checkpoints'[u] = checkpoints[u]
        BY <2>5, <2>6, <3>1
      <4> QED BY <2>7, <4>1 DEF ExactInv, CheckpointExact
    <3>2. CASE u = t
      <4>1. checkpoints'[t] = Append(checkpoints[t], c) /\ checkpoints[t] \in Seq(CheckpointType)
        BY <1>0, <2>5, <2>6
      <4>2. i \in 1 .. Len(checkpoints[t]) + 1 /\ Len(checkpoints[t]) \in Nat
        BY <2>4, <2>7, <3>2, <4>1, AppendProperties, LenProperties
      <4>3. CASE i \in 1 .. Len(checkpoints[t])
        <5>1. checkpoints'[u][i] = checkpoints[t][i] /\ i \in DOMAIN checkpoints[t]
          BY <2>4, <3>2, <4>1, <4>3, AppendProperties, LenProperties
        <5> QED BY <1>0, <5>1 DEF ExactInv, CheckpointExact
      <4>4. CASE i = Len(checkpoints[t]) + 1
        <5>1. checkpoints'[u][i] = c
          BY <2>4, <3>2, <4>1, <4>4, AppendProperties
        <5>2. /\ checkpoints'[u][i].cma = c.cma /\ checkpoints'[u][i].gen = c.gen
              /\ checkpoints'[u][i].chain = c.chain
          BY <5>1
        <5> QED BY <2>3, <5>2
      <4>5. i \in 1 .. Len(checkpoints[t]) \/ i = Len(checkpoints[t]) + 1
        BY <4>2
      <4> QED BY <4>3, <4>4, <4>5
    <3> QED BY <3>1, <3>2
  <2> QED BY <2>7 DEF CheckpointExact
<1> QED BY <1>1, <1>2

-----------------------------------------------------------------------------
(* Every action keeps the caller exact *)

LEMMA AnnounceExact ==
    ASSUME ExactInv, ConstantAssumption, NEW p \in Procs, Announce(p)
    PROVE  Alone(p) /\ ExactAt(p)' /\ UNCHANGED checkpoints
<1>0. TypeInv /\ ExactAt(p)
  BY DEF ExactInv
<1>1. Alone(p)
  BY <1>0 DEF Announce, Goto, Alone, Same, callVars, writerVars, TypeInv, TypeOK, CallType,
     WriterType
<1>2. Kept(p)
  BY <1>0 DEF Announce, Kept, callVars, writerVars, TypeInv, TypeOK, CallType, WriterType
<1>3. pc[p] # "staged" /\ pc'[p] # "staged"
  BY <1>0 DEF Announce, Goto, TypeInv, TypeOK, CallType, WriterType
<1>4. PlaceOK(p)'
  <2>1. Reached(p)' = Reached(p) /\ gen'[p] = gen[p] /\ completed'[p] = completed[p]
    BY <1>2 DEF Kept, Reached
  <2> QED BY <1>0, <2>1 DEF Announce, Goto, ExactAt, PlaceOK, AtGeneration, AtBarrier,
        AtBaseline, Outside, TypeInv, TypeOK, CallType, WriterType, BarrierJobs, FlushJobs,
        SegmentJobs, EventJobs
<1>5. UNCHANGED checkpoints
  BY DEF Announce, storeVars
<1> QED BY <1>0, <1>1, <1>2, <1>3, <1>4, <1>5, KeptExact

LEMMA EvaluateExact ==
    ASSUME ExactInv, ConstantAssumption, NEW p \in Procs, Evaluate(p)
    PROVE  Alone(p) /\ ExactAt(p)' /\ UNCHANGED checkpoints
<1>0. TypeInv /\ ExactAt(p)
  BY DEF ExactInv
<1>1. Alone(p)
  BY <1>0 DEF Evaluate, Goto, Alone, Same, callVars, writerVars, TypeInv, TypeOK, CallType,
     WriterType
<1>2. Kept(p)
  BY <1>0 DEF Evaluate, Kept, callVars, writerVars, TypeInv, TypeOK, CallType, WriterType
<1>3. pc[p] # "staged" /\ pc'[p] # "staged"
  BY <1>0 DEF Evaluate, Goto, TypeInv, TypeOK, CallType, WriterType
<1>4. PlaceOK(p)'
  <2>1. Reached(p)' = Reached(p) /\ gen'[p] = gen[p] /\ completed'[p] = completed[p]
    BY <1>2 DEF Kept, Reached
  <2> QED BY <1>0, <2>1 DEF Evaluate, Goto, ExactAt, PlaceOK, AtGeneration, AtBarrier,
        AtBaseline, Outside, TypeInv, TypeOK, CallType, WriterType, BarrierJobs, FlushJobs,
        SegmentJobs, EventJobs
<1>5. UNCHANGED checkpoints
  BY DEF Evaluate, storeVars
<1> QED BY <1>0, <1>1, <1>2, <1>3, <1>4, <1>5, KeptExact

LEMMA EnterEventExact ==
    ASSUME ExactInv, ConstantAssumption, NEW p \in Procs, EnterEvent(p)
    PROVE  Alone(p) /\ ExactAt(p)' /\ UNCHANGED checkpoints
<1>0. TypeInv /\ ExactAt(p)
  BY DEF ExactInv
<1>1. Alone(p)
  BY <1>0 DEF EnterEvent, Goto, Alone, Same, callVars, writerVars, TypeInv, TypeOK, CallType,
     WriterType
<1>2. Kept(p)
  BY <1>0 DEF EnterEvent, Kept, callVars, writerVars, TypeInv, TypeOK, CallType, WriterType
<1>3. pc[p] # "staged" /\ pc'[p] # "staged"
  BY <1>0 DEF EnterEvent, Goto, TypeInv, TypeOK, CallType, WriterType
<1>4. PlaceOK(p)'
  <2>1. Reached(p)' = Reached(p) /\ gen'[p] = gen[p] /\ completed'[p] = completed[p]
    BY <1>2 DEF Kept, Reached
  <2> QED BY <1>0, <2>1 DEF EnterEvent, Goto, ExactAt, PlaceOK, AtGeneration, AtBarrier,
        AtBaseline, Outside, TypeInv, TypeOK, CallType, WriterType, BarrierJobs, FlushJobs,
        SegmentJobs, EventJobs
<1>5. UNCHANGED checkpoints
  BY DEF EnterEvent, storeVars
<1> QED BY <1>0, <1>1, <1>2, <1>3, <1>4, <1>5, KeptExact

LEMMA RecoverExact ==
    ASSUME ExactInv, ConstantAssumption, NEW p \in Procs, Recover(p)
    PROVE  Alone(p) /\ ExactAt(p)' /\ UNCHANGED checkpoints
<1>0. TypeInv /\ ExactAt(p)
  BY DEF ExactInv
<1>1. Alone(p)
  BY <1>0 DEF Recover, Goto, Alone, Same, callVars, writerVars, TypeInv, TypeOK, CallType,
     WriterType
<1>2. Kept(p)
  BY <1>0 DEF Recover, Kept, callVars, writerVars, TypeInv, TypeOK, CallType, WriterType
<1>3. pc[p] # "staged" /\ pc'[p] # "staged"
  BY <1>0 DEF Recover, Goto, TypeInv, TypeOK, CallType, WriterType
<1>4. PlaceOK(p)'
  <2>1. Reached(p)' = Reached(p) /\ gen'[p] = gen[p] /\ completed'[p] = completed[p]
    BY <1>2 DEF Kept, Reached
  <2> QED BY <1>0, <2>1 DEF Recover, Goto, ExactAt, PlaceOK, AtGeneration, AtBarrier,
        AtBaseline, Outside, TypeInv, TypeOK, CallType, WriterType, BarrierJobs, FlushJobs,
        SegmentJobs, EventJobs
<1>5. UNCHANGED checkpoints
  BY DEF Recover, storeVars
<1> QED BY <1>0, <1>1, <1>2, <1>3, <1>4, <1>5, KeptExact

LEMMA FinishExact ==
    ASSUME ExactInv, ConstantAssumption, NEW p \in Procs, Finish(p)
    PROVE  Alone(p) /\ ExactAt(p)' /\ UNCHANGED checkpoints
<1>0. TypeInv /\ ExactAt(p)
  BY DEF ExactInv
<1>1. Alone(p)
  BY <1>0 DEF Finish, Goto, Alone, Same, callVars, writerVars, TypeInv, TypeOK, CallType,
     WriterType
<1>2. Kept(p)
  BY <1>0 DEF Finish, Kept, callVars, writerVars, TypeInv, TypeOK, CallType, WriterType
<1>3. pc[p] # "staged" /\ pc'[p] # "staged"
  BY <1>0 DEF Finish, Goto, TypeInv, TypeOK, CallType, WriterType
<1>4. PlaceOK(p)'
  <2>1. Reached(p)' = Reached(p) /\ gen'[p] = gen[p] /\ completed'[p] = completed[p]
    BY <1>2 DEF Kept, Reached
  <2> QED BY <1>0, <2>1 DEF Finish, Goto, ExactAt, PlaceOK, AtGeneration, AtBarrier, AtBaseline,
        Outside, TypeInv, TypeOK, CallType, WriterType, BarrierJobs, FlushJobs, SegmentJobs,
        EventJobs
<1>5. UNCHANGED checkpoints
  BY DEF Finish, storeVars
<1> QED BY <1>0, <1>1, <1>2, <1>3, <1>4, <1>5, KeptExact

LEMMA CallbackRaisesExact ==
    ASSUME ExactInv, ConstantAssumption, NEW p \in Procs, CallbackRaises(p)
    PROVE  Alone(p) /\ ExactAt(p)' /\ UNCHANGED checkpoints
<1>0. TypeInv /\ ExactAt(p)
  BY DEF ExactInv
<1>1. Alone(p)
  BY <1>0 DEF CallbackRaises, Goto, Alone, Same, callVars, writerVars, TypeInv, TypeOK,
     CallType, WriterType
<1>2. Kept(p)
  BY <1>0 DEF CallbackRaises, Kept, callVars, writerVars, TypeInv, TypeOK, CallType, WriterType
<1>3. pc[p] # "staged" /\ pc'[p] # "staged"
  BY <1>0 DEF CallbackRaises, Goto, TypeInv, TypeOK, CallType, WriterType
<1>4. PlaceOK(p)'
  <2>1. Reached(p)' = Reached(p) /\ gen'[p] = gen[p] /\ completed'[p] = completed[p]
    BY <1>2 DEF Kept, Reached
  <2> QED BY <1>0, <2>1 DEF CallbackRaises, Goto, ExactAt, PlaceOK, AtGeneration, AtBarrier,
        AtBaseline, Outside, TypeInv, TypeOK, CallType, WriterType, BarrierJobs, FlushJobs,
        SegmentJobs, EventJobs
<1>5. UNCHANGED checkpoints
  BY DEF CallbackRaises, storeVars
<1> QED BY <1>0, <1>1, <1>2, <1>3, <1>4, <1>5, KeptExact

LEMMA BeginExact ==
    ASSUME ExactInv, ConstantAssumption, NEW p \in Procs, Begin(p)
    PROVE  Alone(p) /\ ExactAt(p)' /\ UNCHANGED checkpoints
<1>0. TypeInv /\ ExactAt(p)
  BY DEF ExactInv
<1>1. Alone(p)
  BY <1>0 DEF Begin, Goto, Alone, Same, callVars, writerVars, TypeInv, TypeOK, CallType,
     WriterType
<1>2. Kept(p)
  BY <1>0 DEF Begin, Kept, callVars, writerVars, TypeInv, TypeOK, CallType, WriterType
<1>3. pc[p] # "staged" /\ pc'[p] # "staged"
  BY <1>0 DEF Begin, Goto, TypeInv, TypeOK, CallType, WriterType
<1>4. PlaceOK(p)'
  <2>1. Reached(p)' = Reached(p) /\ gen'[p] = gen[p] /\ completed'[p] = completed[p]
    BY <1>2 DEF Kept, Reached
  <2> QED BY <1>0, <2>1 DEF Begin, Goto, ExactAt, PlaceOK, AtGeneration, AtBarrier, AtBaseline,
        Outside, TypeInv, TypeOK, CallType, WriterType, BarrierJobs, FlushJobs, SegmentJobs,
        EventJobs
<1>5. UNCHANGED checkpoints
  BY DEF Begin, storeVars
<1> QED BY <1>0, <1>1, <1>2, <1>3, <1>4, <1>5, KeptExact

LEMMA FlushExact ==
    ASSUME ExactInv, ConstantAssumption, NEW p \in Procs, Flush(p)
    PROVE  Alone(p) /\ ExactAt(p)' /\ UNCHANGED checkpoints
<1>0. TypeInv /\ ExactAt(p)
  BY DEF ExactInv
<1>1. Alone(p)
  BY <1>0 DEF Flush, Goto, Alone, Same, callVars, writerVars, TypeInv, TypeOK, CallType,
     WriterType
<1>2. Kept(p)
  BY <1>0 DEF Flush, Kept, callVars, writerVars, TypeInv, TypeOK, CallType, WriterType
<1>3. pc[p] # "staged" /\ pc'[p] # "staged"
  BY <1>0 DEF Flush, Goto, TypeInv, TypeOK, CallType, WriterType
<1>4. PlaceOK(p)'
  <2>1. Reached(p)' = Reached(p) /\ gen'[p] = gen[p] /\ completed'[p] = completed[p]
    BY <1>2 DEF Kept, Reached
  <2> QED BY <1>0, <2>1 DEF Flush, Goto, ExactAt, PlaceOK, AtGeneration, AtBarrier, AtBaseline,
        Outside, TypeInv, TypeOK, CallType, WriterType, BarrierJobs, FlushJobs, SegmentJobs,
        EventJobs
<1>5. UNCHANGED checkpoints
  BY DEF Flush, storeVars
<1> QED BY <1>0, <1>1, <1>2, <1>3, <1>4, <1>5, KeptExact

LEMMA LookupExact ==
    ASSUME ExactInv, ConstantAssumption, NEW p \in Procs, Lookup(p)
    PROVE  Alone(p) /\ ExactAt(p)' /\ UNCHANGED checkpoints
<1>0. TypeInv /\ ExactAt(p)
  BY DEF ExactInv
<1>1. UNCHANGED checkpoints
  BY DEF Lookup, storeVars
<1>2. CASE End(p)
  BY <1>0, <1>1, <1>2, LeaveExact DEF End
<1>3. CASE ~End(p)
  <2>1. Alone(p)
    BY <1>0, <1>3 DEF Lookup, Goto, Alone, Same, callVars, writerVars, TypeInv, TypeOK,
       CallType, WriterType
  <2>2. Kept(p)
    BY <1>0, <1>3 DEF Lookup, Kept, callVars, writerVars, TypeInv, TypeOK, CallType, WriterType
  <2>3. pc[p] # "staged" /\ pc'[p] # "staged"
    BY <1>0, <1>3 DEF Lookup, Goto, TypeInv, TypeOK, CallType, WriterType
  <2>4. PlaceOK(p)'
    <3>1. Reached(p)' = Reached(p) /\ gen'[p] = gen[p] /\ completed'[p] = completed[p]
      BY <2>2 DEF Kept, Reached
    <3> QED BY <1>0, <1>3, <3>1 DEF Lookup, Goto, ExactAt, PlaceOK, AtGeneration, AtBarrier,
          AtBaseline, Outside, TypeInv, TypeOK, CallType, WriterType, BarrierJobs, FlushJobs,
          SegmentJobs, EventJobs
  <2> QED BY <1>0, <1>1, <2>1, <2>2, <2>3, <2>4, KeptExact
<1> QED BY <1>2, <1>3

LEMMA FaultExact ==
    ASSUME ExactInv, ConstantAssumption, NEW p \in Procs, Fault(p)
    PROVE  Alone(p) /\ ExactAt(p)' /\ UNCHANGED checkpoints
<1>0. TypeInv /\ ExactAt(p)
  BY DEF ExactInv
<1>1. UNCHANGED checkpoints
  BY DEF Fault, storeVars
<1>2. CASE End(p)
  BY <1>0, <1>1, <1>2, LeaveExact DEF End
<1>3. CASE ~End(p)
  <2>1. Alone(p)
    BY <1>0, <1>3 DEF Fault, Goto, Alone, Same, callVars, writerVars, TypeInv, TypeOK, CallType,
       WriterType
  <2>2. Kept(p)
    BY <1>0, <1>3 DEF Fault, Kept, callVars, writerVars, TypeInv, TypeOK, CallType, WriterType
  <2>3. pc[p] # "staged" /\ pc'[p] # "staged"
    BY <1>0, <1>3 DEF Fault, Goto, TypeInv, TypeOK, CallType, WriterType
  <2>4. PlaceOK(p)'
    <3>1. Reached(p)' = Reached(p) /\ gen'[p] = gen[p] /\ completed'[p] = completed[p]
      BY <2>2 DEF Kept, Reached
    <3> QED BY <1>0, <1>3, <3>1 DEF Fault, Goto, ExactAt, PlaceOK, AtGeneration, AtBarrier,
          AtBaseline, Outside, TypeInv, TypeOK, CallType, WriterType, BarrierJobs, FlushJobs,
          SegmentJobs, EventJobs
  <2> QED BY <1>0, <1>1, <2>1, <2>2, <2>3, <2>4, KeptExact
<1> QED BY <1>2, <1>3

LEMMA NotifyExact ==
    ASSUME ExactInv, ConstantAssumption, NEW p \in Procs, Notify(p)
    PROVE  Alone(p) /\ ExactAt(p)' /\ UNCHANGED checkpoints
<1>0. TypeInv /\ ExactAt(p)
  BY DEF ExactInv
<1>1. UNCHANGED checkpoints
  BY DEF Notify, storeVars
<1>2. CASE End(p)
  BY <1>0, <1>1, <1>2, LeaveExact DEF End
<1>3. CASE ~End(p)
  <2>1. Alone(p)
    BY <1>0, <1>3 DEF Notify, Goto, Alone, Same, callVars, writerVars, TypeInv, TypeOK,
       CallType, WriterType, AfterNotify, JobOK, JobAt
  <2>2. Kept(p)
    BY <1>0, <1>3 DEF Notify, Kept, callVars, writerVars, TypeInv, TypeOK, CallType, WriterType
  <2>3. pc[p] # "staged" /\ pc'[p] # "staged"
    <3>1. /\ pc[p] = "notify" /\ Goto(p, AfterNotify[job[p]])
          /\ job[p] \in {"resumed", "baseline_ready", "generation_ready", "flush_terminal",
                         "flush_failure"}
      BY <1>0, <1>3 DEF Notify, TypeInv, JobOK, JobAt, BarrierJobs, FlushJobs, SegmentJobs,
         EventJobs
    <3>2. AfterNotify[job[p]] \in {"generate", "complete", "fail_event"}
      BY <3>1 DEF AfterNotify
    <3> QED BY <1>0, <3>1, <3>2 DEF Goto, TypeInv, TypeOK, CallType
  <2>4. PlaceOK(p)'
    <3>1. Reached(p)' = Reached(p) /\ gen'[p] = gen[p] /\ completed'[p] = completed[p]
      BY <2>2 DEF Kept, Reached
    <3> QED BY SMTT(30), <1>0, <1>3, <3>1 DEF Notify, Goto, ExactAt, PlaceOK, AtGeneration, AtBarrier,
          AtBaseline, Outside, TypeInv, TypeOK, CallType, WriterType, BarrierJobs, FlushJobs,
          SegmentJobs, EventJobs, AfterNotify, JobOK, JobAt
  <2> QED BY <1>0, <1>1, <2>1, <2>2, <2>3, <2>4, KeptExact
<1> QED BY <1>2, <1>3

LEMMA ReuseExact ==
    ASSUME ExactInv, ConstantAssumption, NEW p \in Procs, Reuse(p)
    PROVE  Alone(p) /\ ExactAt(p)' /\ UNCHANGED checkpoints
<1>1. UNCHANGED checkpoints
  BY DEF Reuse, storeVars
<1>2. TypeInv
  BY DEF ExactInv
<1> QED BY <1>1, <1>2, LeaveExact DEF Reuse, End

LEMMA RecordExact ==
    ASSUME ExactInv, ConstantAssumption, NEW p \in Procs, Record(p)
    PROVE  Alone(p) /\ ExactAt(p)' /\ UNCHANGED checkpoints
<1>1. UNCHANGED checkpoints
  BY DEF Record, storeVars
<1>2. TypeInv
  BY DEF ExactInv
<1> QED BY <1>1, <1>2, LeaveExact DEF Record, End

LEMMA GiveUpExact ==
    ASSUME ExactInv, ConstantAssumption, NEW p \in Procs, GiveUp(p)
    PROVE  Alone(p) /\ ExactAt(p)' /\ UNCHANGED checkpoints
<1>1. UNCHANGED checkpoints
  BY DEF GiveUp, storeVars
<1>2. TypeInv
  BY DEF ExactInv
<1> QED BY <1>1, <1>2, LeaveExact DEF GiveUp, End

LEMMA CrashExact ==
    ASSUME ExactInv, ConstantAssumption, NEW p \in Procs, Crash(p)
    PROVE  Alone(p) /\ ExactAt(p)' /\ UNCHANGED checkpoints
<1>1. UNCHANGED checkpoints
  BY DEF Crash, storeVars
<1>2. TypeInv
  BY DEF ExactInv
<1> QED BY <1>1, <1>2, LeaveExact DEF Crash, End

LEMMA StartExact ==
    ASSUME ExactInv, ConstantAssumption, NEW p \in Procs, Start(p)
    PROVE  Alone(p) /\ ExactAt(p)' /\ UNCHANGED checkpoints
<1>0. TypeInv /\ ExactAt(p)
  BY DEF ExactInv
<1>1. Alone(p) /\ pc'[p] = "lookup" /\ UNCHANGED checkpoints
  <2>1. PICK c \in CheckpointType \cup {Fresh} \cup {checkpoints[TaskOf[p]][i] : i \in DOMAIN checkpoints[TaskOf[p]]} :
           resume' = [resume EXCEPT ![p] = c]
    BY DEF Start
  <2>2. UNCHANGED checkpoints
    BY DEF Start, storeVars
  <2>3. Goto(p, "lookup") /\ UNCHANGED <<job, gen, writerVars>>
    BY DEF Start
  <2> QED BY <1>0, <2>1, <2>2, <2>3 DEF Goto, Alone, Same, writerVars, TypeInv, TypeOK,
        CallType, WriterType
<1>2. Exact(resume'[p])
  <2>1. PICK c \in {Fresh} \cup {checkpoints[TaskOf[p]][i] : i \in DOMAIN checkpoints[TaskOf[p]]} :
           resume' = [resume EXCEPT ![p] = c]
    BY DEF Start
  <2>2. TaskOf[p] \in Tasks
    BY DEF ConstantAssumption
  <2>3. Exact(c)
    BY <2>2, FreshExact DEF ExactInv, CheckpointExact, Exact
  <2> QED BY <1>0, <2>1, <2>3 DEF TypeInv, TypeOK, CallType
<1>3. gen' = gen /\ completed' = completed /\ latest' = latest /\ chain' = chain /\ pc[p] = "idle"
  BY DEF Start, writerVars
<1>4. LinksOK(p)' /\ LatestOK(p)'
  BY <1>0, <1>1, <1>3 DEF ExactAt, LinksOK, LatestOK, Reached
<1>5. PlaceOK(p)'
  BY <1>0, <1>1, <1>3 DEF ExactAt, PlaceOK, AtGeneration, AtBarrier, AtBaseline, Outside
<1> QED BY <1>1, <1>2, <1>4, <1>5 DEF ExactAt


(* A writer opened on a resume point continues its evidence links. *)
LEMMA AdoptExact ==
    ASSUME TypeInv, NEW p \in Procs, ExactAt(p), chain' = [chain EXCEPT ![p] = resume[p].chain],
           completed[p] = <<>>, NEW label \in Places \ {"staged"}, Goto(p, label),
           UNCHANGED <<job, attempt, resume, pending, completed, latest, uncertain, snap>>
    PROVE  /\ Exact(resume[p])' /\ LinksOK(p)' /\ LatestOK(p)'
           /\ Len(Reached(p)') = resume[p].gen
<1>1. pc'[p] = label /\ chain'[p] = resume[p].chain /\ completed'[p] = <<>> /\ resume'[p] = resume[p]
  BY DEF Goto, TypeInv, TypeOK, CallType, WriterType
<1>2. resume[p].gen \in Nat /\ resume[p].chain \in Seq(Nat)
  BY DEF TypeInv, TypeOK, CallType, CheckpointType
<1>3. Reached(p)' = UpTo(resume[p].gen)
  BY <1>1, <1>2, NothingStaged DEF Reached, ExactAt, Exact
<1>4. Len(UpTo(resume[p].gen)) = resume[p].gen
  BY <1>2, UpToLen
<1> QED BY <1>1, <1>3, <1>4 DEF ExactAt, LinksOK, LatestOK, Exact

LEMMA OpenExact ==
    ASSUME ExactInv, ConstantAssumption, NEW p \in Procs, Open(p)
    PROVE  Alone(p) /\ ExactAt(p)' /\ UNCHANGED checkpoints
<1>0. TypeInv /\ ExactAt(p)
  BY DEF ExactInv
<1>1. UNCHANGED checkpoints
  BY DEF Open
<1>2. CASE End(p)
  BY <1>0, <1>1, <1>2, LeaveExact DEF End
<1>3. CASE ~End(p)
  <2>1. /\ chain' = [chain EXCEPT ![p] = resume[p].chain]
        /\ gen' = [gen EXCEPT ![p] = resume[p].cma]
        /\ Goto(p, IF resume[p] = Fresh THEN "baseline" ELSE "announce")
        /\ UNCHANGED <<job, attempt, resume, pending, completed, latest, uncertain, snap>>
    BY <1>3 DEF Open
  <2>2. PICK label \in {"baseline", "announce"} :
           Goto(p, label) /\ (label = "baseline" => resume[p] = Fresh)
    BY <2>1
  <2>3. label \in Places \ {"staged"}
    BY DEF Places
  <2>8. completed[p] = <<>>
    BY <1>0 DEF Open, ExactAt, PlaceOK, Outside
  <2>4. /\ Exact(resume[p])' /\ LinksOK(p)' /\ LatestOK(p)'
        /\ Len(Reached(p)') = resume[p].gen
    BY <1>0, <2>1, <2>2, <2>3, <2>8, AdoptExact
  <2>5. Alone(p)
    BY <1>0, <2>1, <2>2 DEF Goto, Alone, Same, TypeInv, TypeOK, CallType, WriterType
  <2>6. gen'[p] = resume[p].gen /\ completed'[p] = <<>> /\ pc'[p] = label
    BY <1>0, <2>1, <2>2, <2>8 DEF Goto, ExactAt, Exact, TypeInv, TypeOK, CallType, WriterType
  <2>7. PlaceOK(p)'
    BY <2>2, <2>4, <2>6 DEF PlaceOK, AtGeneration, AtBarrier, AtBaseline, Outside, Fresh
  <2> QED BY <1>1, <2>4, <2>5, <2>7 DEF ExactAt, Exact
<1> QED BY <1>2, <1>3

LEMMA TellExact ==
    ASSUME ExactInv, ConstantAssumption, NEW p \in Procs, Tell(p)
    PROVE  Alone(p) /\ ExactAt(p)' /\ UNCHANGED checkpoints
<1>0. TypeInv /\ ExactAt(p)
  BY DEF ExactInv
<1>1. /\ pc[p] = "evaluated" /\ Goto(p, "barrier") /\ gen' = [gen EXCEPT ![p] = @ + 1]
      /\ UNCHANGED <<checkpoints, job, resume, completed, latest, chain>>
  BY DEF Tell, storeVars, writerVars
<1>2. Alone(p)
  BY <1>0, <1>1 DEF Goto, Alone, Same, TypeInv, TypeOK, CallType, WriterType
<1>3. gen'[p] = gen[p] + 1 /\ pc'[p] = "barrier" /\ Reached(p)' = Reached(p)
  BY <1>0, <1>1 DEF Goto, Reached, TypeInv, TypeOK, CallType, WriterType
<1>4. gen[p] = Len(Reached(p))
  BY <1>0, <1>1 DEF ExactAt, PlaceOK, AtGeneration
<1>5. PlaceOK(p)'
  BY <1>3, <1>4 DEF PlaceOK, AtGeneration, AtBarrier, AtBaseline, Outside
<1>6. Exact(resume[p])' /\ LinksOK(p)' /\ LatestOK(p)'
  BY <1>0, <1>1, <1>3 DEF ExactAt, Exact, LinksOK, LatestOK
<1> QED BY <1>1, <1>2, <1>5, <1>6 DEF ExactAt, Exact

LEMMA EnterBarrierExact ==
    ASSUME ExactInv, ConstantAssumption, NEW p \in Procs, EnterBarrier(p)
    PROVE  Alone(p) /\ ExactAt(p)' /\ UNCHANGED checkpoints
<1>0. TypeInv /\ ExactAt(p)
  BY DEF ExactInv
<1>1. /\ pc[p] \in {"baseline", "barrier"} /\ Goto(p, "staged")
      /\ job' = [job EXCEPT ![p] = IF pc[p] = "baseline" THEN "baseline_ready" ELSE "generation_ready"]
      /\ latest' = [latest EXCEPT ![p] = IF Checkpointed[TaskOf[p]] THEN gen[p] ELSE NoState]
      /\ UNCHANGED <<checkpoints, resume, gen, completed, chain>>
  BY DEF EnterBarrier, storeVars, callVars
<1>2. Alone(p)
  BY <1>0, <1>1 DEF Goto, Alone, Same, TypeInv, TypeOK, CallType, WriterType
<1>3. /\ job'[p] = IF pc[p] = "baseline" THEN "baseline_ready" ELSE "generation_ready"
      /\ latest'[p] \in {NoState, gen'[p]}
      /\ pc'[p] = "staged" /\ Reached(p)' = Reached(p)
  BY <1>0, <1>1 DEF Goto, Reached, TypeInv, TypeOK, CallType, WriterType
<1>4. PlaceOK(p)'
  BY <1>0, <1>1, <1>3 DEF ExactAt, PlaceOK, AtGeneration, AtBarrier, AtBaseline, Outside
<1>5. Exact(resume[p])' /\ LinksOK(p)' /\ LatestOK(p)'
  BY <1>0, <1>1, <1>3 DEF ExactAt, Exact, LinksOK, LatestOK
<1> QED BY <1>1, <1>2, <1>4, <1>5 DEF ExactAt, Exact

LEMMA StageExact ==
    ASSUME ExactInv, ConstantAssumption, NEW p \in Procs, Stage(p)
    PROVE  Alone(p) /\ ExactAt(p)' /\ UNCHANGED checkpoints
<1>0. TypeInv /\ ExactAt(p)
  BY DEF ExactInv
<1>1. /\ pc[p] = "staged" /\ job[p] \in BarrierJobs
      /\ completed' = [completed EXCEPT ![p] = Append(@, gen[p])]
      /\ UNCHANGED <<checkpoints, job, resume, gen, latest, chain>>
  BY <1>0 DEF Stage, storeVars, callVars, TypeInv, JobOK, JobAt
<1>2. PICK label \in {"snapshot", "generate"} : Goto(p, label)
  BY DEF Stage
<1>3. Alone(p)
  BY <1>0, <1>1, <1>2 DEF Goto, Alone, Same, TypeInv, TypeOK, CallType, WriterType
<1>4. completed'[p] = Append(completed[p], gen[p]) /\ pc'[p] = label
  BY <1>0, <1>1, <1>2 DEF Goto, TypeInv, TypeOK, CallType, WriterType
<1>5. chain[p] \in Seq(Nat) /\ completed[p] \in Seq(Nat)
  BY <1>0 DEF TypeInv, TypeOK, WriterType
<1>g. gen[p] \in Nat
  BY <1>0 DEF TypeInv, TypeOK, CallType
<1>6. Reached(p)' = UpTo(gen[p])
  <2>1. Reached(p)' = ChainAfter(chain[p], Append(completed[p], gen[p]))
    BY <1>1, <1>4 DEF Reached
  <2>2. CASE job[p] = "baseline_ready"
    <3>1. gen[p] = 0 /\ completed[p] = <<>>
      BY <1>0, <1>1, <2>2 DEF ExactAt, PlaceOK, AtBaseline
    <3>2. Reached(p)' = <<>>
      BY <1>5, <1>g, <2>1, <3>1, ChainAppend
    <3> QED BY <3>1, <3>2 DEF UpTo
  <2>3. CASE job[p] = "generation_ready"
    <3>1. gen[p] = Len(Reached(p)) + 1 /\ Len(Reached(p)) \in Nat /\ Reached(p) = UpTo(Len(Reached(p)))
      BY <1>0, <1>1, <2>3, ReachedType DEF ExactAt, PlaceOK, AtBarrier, LinksOK
    <3>2. gen[p] # 0
      BY <3>1
    <3>3. completed[p] = <<>> => chain[p] = Reached(p)
      BY <1>5, NothingStaged DEF Reached
    <3>4. Reached(p)' = IF completed[p] # <<>> THEN Append(Reached(p), gen[p])
                         ELSE IF gen[p] = 0 THEN <<>> ELSE Append(chain[p], gen[p])
      <4>1. ChainAfter(chain[p], Append(completed[p], gen[p])) =
               IF completed[p] # <<>> THEN Append(ChainAfter(chain[p], completed[p]), gen[p])
               ELSE IF gen[p] = 0 THEN <<>> ELSE Append(chain[p], gen[p])
        BY ZenonT(30), <1>5, <1>g, ChainAppend
      <4> QED BY <2>1, <4>1 DEF Reached
    <3>5. Reached(p)' = Append(Reached(p), gen[p])
      BY <3>2, <3>3, <3>4
    <3> QED BY <3>1, <3>5, UpToNext
  <2> QED BY <1>1, <2>2, <2>3 DEF BarrierJobs
<1>7. Len(Reached(p)') = gen[p]
  BY <1>6, <1>g, UpToLen
<1>8. completed'[p] # <<>> /\ LastOf(completed'[p]) = gen[p]
  <2>1. LastOf(Append(completed[p], gen[p])) = gen[p] /\ Append(completed[p], gen[p]) # <<>>
    BY <1>5, <1>g, LastOfAppend
  <2> QED BY <1>4, <2>1
<1>9. LinksOK(p)'
  BY <1>6, <1>7, <1>8 DEF LinksOK
<1>10. PlaceOK(p)'
  BY <1>1, <1>4, <1>7 DEF PlaceOK, AtGeneration, AtBarrier, AtBaseline, Outside
<1>11. LatestOK(p)'
  BY <1>0, <1>1, <1>4, <1>8 DEF ExactAt, LatestOK
<1> QED BY <1>0, <1>1, <1>3, <1>9, <1>10, <1>11 DEF ExactAt, Exact

LEMMA SnapshotExact ==
    ASSUME ExactInv, ConstantAssumption, NEW p \in Procs, Snapshot(p)
    PROVE  Alone(p) /\ ExactAt(p)' /\ UNCHANGED checkpoints
<1>0. TypeInv /\ ExactAt(p)
  BY DEF ExactInv
<1>1. UNCHANGED checkpoints /\ pc[p] = "snapshot"
  BY DEF Snapshot, storeVars
<1>2. CASE Raise(p, "none")
  BY <1>1, <1>2, RaiseExact
<1>3. CASE ~Raise(p, "none")
  <2>1. Goto(p, "commit") /\ UNCHANGED <<job, callVars, writerVars>>
    BY <1>3 DEF Snapshot
  <2>2. Alone(p) /\ Kept(p) /\ pc'[p] = "commit"
    BY <1>0, <2>1 DEF Goto, Alone, Same, Kept, callVars, writerVars, TypeInv, TypeOK, CallType,
       WriterType
  <2>3. PlaceOK(p)'
    BY <1>0, <1>1, <2>1, <2>2 DEF Kept, ExactAt, Reached, PlaceOK, AtGeneration, AtBarrier,
       AtBaseline, Outside
  <2> QED BY <1>0, <1>1, <2>2, <2>3, KeptExact
<1> QED BY <1>2, <1>3

LEMMA CommitExact ==
    ASSUME ExactInv, ConstantAssumption, NEW p \in Procs, Commit(p)
    PROVE  Alone(p) /\ ExactAt(p)' /\ CheckpointExact'
<1>0. TypeInv /\ ExactAt(p)
  BY DEF ExactInv
<1>1. pc[p] = "commit" /\ Goto(p, "clear") /\ UNCHANGED <<job, callVars, writerVars>> /\ Publish(p)
  BY DEF Commit
<1>2. Alone(p) /\ Kept(p) /\ pc'[p] = "clear"
  BY <1>0, <1>1 DEF Goto, Alone, Same, Kept, callVars, writerVars, TypeInv, TypeOK, CallType,
     WriterType
<1>3. PlaceOK(p)'
  BY <1>0, <1>1, <1>2 DEF Kept, ExactAt, Reached, PlaceOK, AtGeneration, AtBarrier, AtBaseline,
     Outside
<1>4. CheckpointExact'
  BY <1>1, PublishExact
<1> QED BY <1>0, <1>1, <1>2, <1>3, <1>4, KeptExact

LEMMA RejectExact ==
    ASSUME ExactInv, ConstantAssumption, NEW p \in Procs, Reject(p)
    PROVE  Alone(p) /\ ExactAt(p)' /\ UNCHANGED checkpoints
<1>0. TypeInv /\ ExactAt(p)
  BY DEF ExactInv
<1>1. UNCHANGED checkpoints /\ pc[p] = "commit" /\ Raise(p, "not_committed")
  BY DEF Reject, storeVars
<1> QED BY <1>1, RaiseExact

LEMMA CommitErrorExact ==
    ASSUME ExactInv, ConstantAssumption, NEW p \in Procs, CommitError(p)
    PROVE  Alone(p) /\ ExactAt(p)' /\ CheckpointExact'
<1>0. TypeInv /\ ExactAt(p)
  BY DEF ExactInv
<1>1. pc[p] = "commit" /\ (Publish(p) \/ UNCHANGED storeVars)
  BY DEF CommitError
<1>2. PICK outcome \in {"committed", "not_committed", "unknown"} : Raise(p, outcome)
  BY DEF CommitError
<1>3. CheckpointExact'
  BY <1>1, PublishExact DEF storeVars, ExactInv, CheckpointExact
<1> QED BY <1>1, <1>2, <1>3, RaiseExact

LEMMA ClearExact ==
    ASSUME ExactInv, ConstantAssumption, NEW p \in Procs, Clear(p)
    PROVE  Alone(p) /\ ExactAt(p)' /\ UNCHANGED checkpoints
<1>0. TypeInv /\ ExactAt(p)
  BY DEF ExactInv
<1>1. /\ pc[p] = "clear" /\ UNCHANGED <<checkpoints, job, resume, gen>>
      /\ chain' = [chain EXCEPT ![p] = ChainAfter(@, PublishedSegments(p))]
  BY DEF Clear, storeVars, callVars
<1>2. PICK label \in {"record", "notify"} : Goto(p, label)
  BY DEF Clear
<1>3. IF job[p] \in SegmentJobs
      THEN completed' = [completed EXCEPT ![p] = <<>>] /\ latest' = [latest EXCEPT ![p] = NoState]
      ELSE UNCHANGED <<completed, latest>>
  BY DEF Clear, EmptyStaged
<1>4. Alone(p) /\ pc'[p] = label
  BY <1>0, <1>1, <1>2, <1>3 DEF Goto, Alone, Same, TypeInv, TypeOK, CallType, WriterType
<1>5. chain[p] \in Seq(Nat) /\ completed[p] \in Seq(Nat) /\ Reached(p) \in Seq(Nat)
  BY <1>0, ReachedType DEF TypeInv, TypeOK, WriterType
<1>6. Reached(p)' = Reached(p)
  <2>1. CASE job[p] \in SegmentJobs
    <3>1. chain'[p] = Reached(p) /\ completed'[p] = <<>>
      BY <1>0, <1>1, <1>3, <2>1 DEF PublishedSegments, Reached, TypeInv, TypeOK, WriterType
    <3> QED BY <1>5, <3>1, NothingStaged DEF Reached
  <2>2. CASE job[p] \notin SegmentJobs
    <3>1. chain'[p] = ChainAfter(chain[p], <<>>) /\ completed'[p] = completed[p]
      BY <1>0, <1>1, <1>3, <2>2 DEF PublishedSegments, TypeInv, TypeOK, WriterType
    <3> QED BY <1>5, <3>1, NothingStaged DEF Reached
  <2> QED BY <2>1, <2>2
<1>7. /\ completed'[p] \in {<<>>, completed[p]}
      /\ completed'[p] # <<>> => completed'[p] = completed[p] /\ latest'[p] = latest[p]
  BY <1>0, <1>3 DEF TypeInv, TypeOK, WriterType
<1>8. LinksOK(p)' /\ LatestOK(p)'
  BY <1>0, <1>1, <1>4, <1>6, <1>7 DEF ExactAt, LinksOK, LatestOK
<1>9. PlaceOK(p)'
  BY <1>0, <1>1, <1>4, <1>6 DEF ExactAt, PlaceOK, AtGeneration, AtBarrier, AtBaseline, Outside
<1> QED BY <1>0, <1>1, <1>4, <1>8, <1>9 DEF ExactAt, Exact

LEMMA FactErrorExact ==
    ASSUME ExactInv, ConstantAssumption, NEW p \in Procs, FactError(p)
    PROVE  Alone(p) /\ ExactAt(p)' /\ UNCHANGED checkpoints
<1>0. TypeInv /\ ExactAt(p)
  BY DEF ExactInv
<1>1. UNCHANGED checkpoints
  BY DEF FactError
<1>2. CASE End(p)
  BY <1>0, <1>1, <1>2, LeaveExact DEF End
<1>3. CASE ~End(p)
  <2>1. /\ pc[p] = "open" /\ Goto(p, "failing")
        /\ chain' = [chain EXCEPT ![p] = resume[p].chain]
        /\ UNCHANGED <<job, attempt, resume, gen, pending, completed, latest, uncertain, snap>>
    BY <1>3 DEF FactError, callVars
  <2>2. "failing" \in Places \ {"staged"}
    BY DEF Places
  <2>3. completed[p] = <<>>
    BY <1>0, <2>1 DEF ExactAt, PlaceOK, Outside
  <2>4. Exact(resume[p])' /\ LinksOK(p)' /\ LatestOK(p)'
    BY <1>0, <2>1, <2>2, <2>3, AdoptExact
  <2>5. Alone(p) /\ pc'[p] = "failing"
    BY <1>0, <2>1 DEF Goto, Alone, Same, TypeInv, TypeOK, CallType, WriterType
  <2>6. PlaceOK(p)'
    BY <2>5 DEF PlaceOK, AtGeneration, AtBarrier, AtBaseline, Outside
  <2> QED BY <1>1, <2>4, <2>5, <2>6 DEF ExactAt, Exact
<1> QED BY <1>2, <1>3

LEMMA StepExact ==
    ASSUME ExactInv, ConstantAssumption, ~AsyncSignals, NEW p \in Procs,
           Start(p) \/ Recover(p) \/ Progress(p) \/ Disturbance(p)
    PROVE  Alone(p) /\ ExactAt(p)' /\ CheckpointExact'
<1>1. ASSUME UNCHANGED checkpoints
      PROVE  CheckpointExact'
  BY <1>1 DEF ExactInv, CheckpointExact
<1>2. CASE Start(p) \/ Recover(p)
  BY <1>1, <1>2, StartExact, RecoverExact
<1>3. CASE Progress(p)
  BY <1>1, <1>3, LookupExact, ReuseExact, BeginExact, OpenExact, AnnounceExact, EvaluateExact,
     TellExact, EnterBarrierExact, StageExact, FlushExact, EnterEventExact, SnapshotExact,
     CommitExact, RejectExact, ClearExact, RecordExact, NotifyExact, GiveUpExact, FinishExact
     DEF Progress
<1>4. CASE Disturbance(p)
  BY <1>1, <1>4, CommitErrorExact, FactErrorExact, FaultExact, CallbackRaisesExact, CrashExact
     DEF Disturbance, Interrupt
<1> QED BY <1>2, <1>3, <1>4

LEMMA NextExact ==
    ASSUME ExactInv, ConstantAssumption, ~AsyncSignals, [Next]_vars
    PROVE  ExactInv'
<1>1. TypeInv'
  BY NextType DEF ExactInv
<1>2. CASE UNCHANGED vars
  <2>1. CheckpointExact'
    BY <1>2 DEF vars, storeVars, ExactInv, CheckpointExact
  <2>2. \A q \in Procs : Same(q)
    BY <1>2 DEF vars, callVars, writerVars, Same
  <2> QED BY <1>1, <2>1, <2>2, SameExact DEF ExactInv
<1>3. ASSUME NEW p \in Procs, Start(p) \/ Recover(p) \/ Progress(p) \/ Disturbance(p)
      PROVE  ExactInv'
  <2>1. Alone(p) /\ ExactAt(p)' /\ CheckpointExact'
    BY <1>3, StepExact
  <2>2. \A q \in Procs \ {p} : ExactAt(q)'
    BY <2>1, SameExact DEF ExactInv, Alone
  <2> QED BY <1>1, <2>1, <2>2 DEF ExactInv
<1> QED BY <1>2, <1>3 DEF Next

LEMMA InitExact ==
    ASSUME ConstantAssumption, Init
    PROVE  ExactInv
<1>1. TypeInv
  BY InitType
<1>2. CheckpointExact
  BY DEF Init, CheckpointExact
<1>3. ASSUME NEW p \in Procs
      PROVE  ExactAt(p)
  <2>1. /\ pc[p] = "idle" /\ resume[p] = Fresh /\ completed[p] = <<>> /\ chain[p] = <<>>
    BY DEF Init
  <2>2. Reached(p) = <<>>
    BY <2>1 DEF Reached, ChainAfter
  <2>3. LinksOK(p)
    BY <2>1, <2>2 DEF LinksOK, UpTo
  <2> QED BY <2>1, <2>3, FreshExact
          DEF ExactAt, PlaceOK, LatestOK, AtGeneration, AtBarrier, AtBaseline, Outside
<1> QED BY <1>1, <1>2, <1>3 DEF ExactInv

(* Without a KeyboardInterrupt inside the writer, every checkpoint ever       *)
(* published carries the CMA/RNG state of the generation it names and links   *)
(* the evidence of every generation up to it.                                 *)
THEOREM CheckpointsExact == ~AsyncSignals => (Spec => []CheckpointExact)
<1> SUFFICES ASSUME ~AsyncSignals
             PROVE  Spec => []CheckpointExact
  OBVIOUS
<1>1. Init => ExactInv
  BY ConstantAssumption, InitExact
<1>2. ExactInv /\ [Next]_vars => ExactInv'
  BY ConstantAssumption, NextExact
<1>3. ExactInv => CheckpointExact
  BY DEF ExactInv
<1> QED BY <1>1, <1>2, <1>3, PTL DEF Spec
=============================================================================
