--------------------------- MODULE RequestLeafProofs ---------------------------
(***************************************************************************)
(* The evidence of one request, for any processes, sizes and calls and under *)
(* every cut: types and the writer lock, at most one success, agreement of   *)
(* the ledgers that are retained, no generation evaluated twice, a history   *)
(* that stays readable, the causes of an integrity error, and the history    *)
(* that the leaf implements (RequestHistory).                                *)
(***************************************************************************)
EXTENDS RequestLeafProperties, FiniteSetTheorems, SequenceTheorems, TLAPS

(* A process works on an attempt; it holds the writer lock. *)
Late == {"launch", "seal", "run", "point", "stage", "list", "validate", "fail", "promote"}
Inside == Late \cup {"recheck", "ensure", "json", "anchor", "root", "index", "select", "allocate"}

-----------------------------------------------------------------------------
(* The inductive invariant *)

LockOK == \A p \in Procs : pc[p] \in Inside => owner = p

StagedOK == \A p \in Procs : pc[p] \in Late => staging # NoAttempt /\ staging.id = fresh

(* Past the second look there is no success. *)
DoneOK == \A p \in Procs : pc[p] \in Inside \ {"recheck"} => ~Succeeded

SelectOK ==
    \A p \in Procs :
        /\ pc[p] = "allocate" => Highest # {}
        /\ pc[p] \in {"point", "stage", "list"} => kind = "sweep"

(* Two chains agree where both have a ledger; no producer is above a bound.   *)
Agree(s, t) == \A g \in 1 .. Len(s) : g <= Len(t) => s[g] = t[g]
Made(s, bound) == \A g \in 1 .. Len(s) : s[g] <= bound

FinalsOK ==
    /\ \A i \in 1 .. Len(finals) : Made(finals[i].ledgers, fresh)
    /\ \A i, j \in 1 .. Len(finals) : Agree(finals[i].ledgers, finals[j].ledgers)
    /\ kind # "optimize" => \A i \in 1 .. Len(finals) : finals[i].ledgers = <<>>

(* The chain that is resumed covers every sealed one, and the attempt's own   *)
(* ledgers are a part of it or go beyond it.                                  *)
WorkOK ==
    /\ \A i \in 1 .. Len(finals) :
           Len(finals[i].ledgers) <= Len(staging.resume) /\ Agree(finals[i].ledgers, staging.resume)
    /\ Agree(staging.ledgers, staging.resume)
    /\ Made(staging.ledgers, fresh) /\ Made(staging.resume, fresh - 1)
    /\ kind # "optimize" => staging.ledgers = <<>>

EvolveOK == child = "evolve" /\ kind = "optimize" => Len(staging.resume) <= Len(staging.ledgers)

LedgerOK ==
    /\ FinalsOK
    /\ \A p \in Procs : pc[p] \in Late => WorkOK
    /\ \A p \in Procs : pc[p] = "run" => EvolveOK

Types == FileTypes /\ AttemptTypes /\ ProcessTypes

Inv == Types /\ LockOK /\ StagedOK /\ DoneOK /\ SelectOK /\ OneSuccess /\ LedgerOK

(* Everything a process does. *)
Acts(p) == Prologue(p) \/ Work(p) \/ Epilogue(p)

-----------------------------------------------------------------------------
(* The lock *)

(* What a step of one process does to the others and to the lock. *)
LockMove(p) ==
    /\ \A q \in Procs \ {p} : pc'[q] = pc[q]
    /\ \/ owner' = owner /\ (pc'[p] \in Inside => pc[p] \in Inside)
       \/ owner = NoProc /\ owner' = p
       \/ pc'[p] = "idle" /\ owner' = IF owner = p THEN NoProc ELSE owner

(* The lock is waited for, and given back with the call. *)
LEMMA LockMoves ==
    ASSUME ProcessTypes, NEW p \in Procs, Acts(p)
    PROVE  LockMove(p)
<1>1. CASE Call(p)
  BY <1>1 DEF Call, Goto, diskVars, LockMove, Late, Inside, ProcessTypes
<1>2. CASE Look(p)
  BY <1>2 DEF Look, End, Goto, Release, diskVars, LockMove, Late, Inside, ProcessTypes
<1>3. CASE PrepareRuntime(p)
  BY <1>3 DEF PrepareRuntime, Goto, diskVars, LockMove, Late, Inside, ProcessTypes
<1>4. CASE Lock(p)
  BY <1>4 DEF Lock, Goto, CleanStaging, LockMove, Late, Inside, ProcessTypes
<1>5. CASE CleanupRaises(p)
  BY <1>5 DEF CleanupRaises, End, Goto, Release, diskVars, LockMove, Late, Inside,
     ProcessTypes
<1>6. CASE Recheck(p)
  BY <1>6 DEF Recheck, Holds, End, Goto, Release, Step, diskVars, LockMove, Late, Inside,
     ProcessTypes
<1>7. CASE Ensure(p)
  BY <1>7 DEF Ensure, Step, Holds, Goto, diskVars, End, Release, LockMove, Late, Inside,
     ProcessTypes
<1>8. CASE WriteRequest(p)
  BY <1>8 DEF WriteRequest, Write, Step, Holds, Goto, LockMove, Late, Inside, ProcessTypes
<1>9. CASE WriteAnchor(p)
  BY <1>9 DEF WriteAnchor, Write, Step, Holds, Goto, LockMove, Late, Inside, ProcessTypes
<1>10. CASE MakePointRoot(p)
  BY <1>10 DEF MakePointRoot, Write, Step, Holds, Goto, LockMove, Late, Inside,
     ProcessTypes
<1>11. CASE WriteFirstIndex(p)
  BY <1>11 DEF WriteFirstIndex, Write, Step, Holds, Goto, LockMove, Late, Inside,
     ProcessTypes
<1>12. CASE Select(p)
  BY <1>12 DEF Select, diskVars, Step, Holds, Goto, End, Release, LockMove, Late, Inside,
     ProcessTypes
<1>13. CASE Allocate(p)
  BY <1>13 DEF Allocate, Holds, End, Goto, Release, diskVars, LockMove, Late, Inside,
     ProcessTypes
<1>14. CASE Launch(p)
  BY <1>14 DEF Launch, Step, Holds, Goto, diskVars, LockMove, Late, Inside, ProcessTypes
<1>15. CASE LaunchFails(p)
  BY <1>15 DEF LaunchFails, Step, Holds, Goto, diskVars, LockMove, Late, Inside,
     ProcessTypes
<1>16. CASE PublishBaseline(p)
  BY <1>16 DEF PublishBaseline, Runs, Holds, ChildGoes, LockMove, Late, Inside,
     ProcessTypes
<1>17. CASE LoadBaseline(p)
  BY <1>17 DEF LoadBaseline, Runs, Holds, diskVars, ChildGoes, LockMove, Late, Inside,
     ProcessTypes
<1>18. CASE ReplayRefused(p)
  BY <1>18 DEF ReplayRefused, Runs, Holds, Step, Goto, Stage, LockMove, Late, Inside,
     ProcessTypes
<1>19. CASE OpenReplayed(p)
  BY <1>19 DEF OpenReplayed, Runs, Holds, Stage, ChildGoes, diskVars, LockMove, Late, Inside,
     ProcessTypes
<1>20. CASE OpenLedger(p)
  BY <1>20 DEF OpenLedger, Runs, Holds, Stage, ChildGoes, LockMove, Late, Inside,
     ProcessTypes
<1>21. CASE CloseLedger(p)
  BY <1>21 DEF CloseLedger, Runs, Holds, Stage, ChildGoes, LockMove, Late, Inside,
     ProcessTypes
<1>22. CASE StartSweep(p)
  BY <1>22 DEF StartSweep, Runs, Holds, Stage, ChildGoes, LockMove, Late, Inside,
     ProcessTypes
<1>23. CASE ComputePoint(p)
  BY <1>23 DEF ComputePoint, Runs, Holds, Step, Goto, diskVars, LockMove, Late, Inside,
     ProcessTypes
<1>24. CASE RenewPointRoot(p)
  BY <1>24 DEF RenewPointRoot, Write, Step, Holds, Goto, LockMove, Late, Inside,
     ProcessTypes
<1>25. CASE StagePoint(p)
  BY <1>25 DEF StagePoint, Write, Step, Holds, Goto, LockMove, Late, Inside, ProcessTypes
<1>26. CASE RenamePoint(p)
  BY <1>26 DEF RenamePoint, Write, Step, Holds, Goto, LockMove, Late, Inside, ProcessTypes
<1>27. CASE ListPoint(p)
  BY <1>27 DEF ListPoint, Write, Step, Holds, Goto, LockMove, Late, Inside, ProcessTypes
<1>28. CASE ChildSucceeds(p)
  BY <1>28 DEF ChildSucceeds, Step, Holds, Goto, Stage, LockMove, Late, Inside,
     ProcessTypes
<1>29. CASE ChildFails(p)
  BY <1>29 DEF ChildFails, Step, Holds, Goto, Stage, LockMove, Late, Inside, ProcessTypes
<1>30. CASE ChildBreaks(p)
  BY <1>30 DEF ChildBreaks, Step, Holds, Goto, diskVars, LockMove, Late, Inside,
     ProcessTypes
<1>31. CASE PublishRaises(p)
  BY <1>31 DEF PublishRaises, Step, Holds, Goto, diskVars, LockMove, Late, Inside,
     ProcessTypes
<1>32. CASE SealProtocolFailure(p)
  BY <1>32 DEF SealProtocolFailure, Receipt, Holds, Step, Goto, End, Release, Stage,
     LockMove, Late, Inside, ProcessTypes
<1>33. CASE Interrupt(p)
  BY <1>33 DEF Interrupt, Holds, Receipt, Step, Goto, End, Release, Stage, diskVars,
     LockMove, Late, Inside, ProcessTypes
<1>34. CASE Validate(p)
  BY <1>34 DEF Validate, Holds, Receipt, Step, Goto, End, Release, Stage, diskVars,
     LockMove, Late, Inside, ProcessTypes
<1>35. CASE Promote(p)
  BY <1>35 DEF Promote, Holds, End, Goto, Release, diskVars, LockMove, Late, Inside,
     ProcessTypes
<1>36. CASE Stop(p)
  BY <1>36 DEF Stop, Goto, Release, diskVars, LockMove, Late, Inside, ProcessTypes
<1>37. CASE CloseReplayed(p)
  BY <1>37 DEF CloseReplayed, ReplayedLedger, Runs, Holds, Stage, ChildGoes, diskVars, LockMove, Late, Inside,
     ProcessTypes
<1>38. CASE Evolve(p)
  BY <1>38 DEF Evolve, Runs, Holds, Stage, ChildGoes, diskVars, LockMove, Late, Inside,
     ProcessTypes
<1>39. CASE Authorize(p)
  BY <1>39 DEF Authorize, Step, Holds, Goto, diskVars, LockMove, Late, Inside, ProcessTypes
<1>40. CASE SealCut(p)
  BY <1>40 DEF SealCut, Holds, End, Goto, Release, diskVars, LockMove, Late, Inside,
     ProcessTypes
<1> QED BY <1>1, <1>2, <1>3, <1>4, <1>5, <1>6, <1>7, <1>8, <1>9, <1>10, <1>11, <1>12,
     <1>13, <1>14, <1>15, <1>16, <1>17, <1>18, <1>19, <1>20, <1>21, <1>22, <1>23, <1>24,
     <1>25, <1>26, <1>27, <1>28, <1>29, <1>30, <1>31, <1>32, <1>33, <1>34, <1>35, <1>36,
     <1>37, <1>38, <1>39, <1>40 DEF Acts, Prologue, Work, Epilogue

LEMMA LockKept ==
    ASSUME LockOK, NEW p \in Procs, LockMove(p), ProcessTypes
    PROVE  LockOK'
<1> SUFFICES ASSUME NEW q \in Procs, pc'[q] \in Inside
             PROVE  owner' = q
  BY DEF LockOK
<1>1. CASE q = p
  BY <1>1, LeafAssumption DEF LockMove, LockOK, Inside, Late
<1>2. CASE q # p
  BY <1>2, LeafAssumption DEF LockMove, LockOK
<1> QED BY <1>1, <1>2

-----------------------------------------------------------------------------
(* Types *)

LEMMA NewAttemptType ==
    ASSUME NEW id \in Ids, NEW resume \in Chains
    PROVE  NewAttempt(id, resume) \in Attempt /\ NewAttempt(id, resume) # NoAttempt
<1>1. (baseline # 0) \in BOOLEAN /\ <<>> \in Chains /\ "none" \in Verdicts /\ 0 \in Nat /\ FALSE \in BOOLEAN
  BY DEF Chains, Verdicts
<1>2. NewAttempt(id, resume) \in Attempt
  BY <1>1, SMT DEF NewAttempt, Attempt
<1>3. NoAttempt \notin Attempt
  BY LeafAssumption
<1> QED BY <1>2, <1>3

LEMMA DiscardedType ==
    ASSUME NEW record \in Attempt, FileTypes, NEW keep \in BOOLEAN, NEW verdict \in Verdicts
    PROVE  /\ [Discarded(record, keep) EXCEPT !.verdict = verdict] \in Attempt
           /\ [Discarded(record, keep) EXCEPT !.verdict = verdict].id = record.id
           /\ [Discarded(record, keep) EXCEPT !.verdict = verdict].resume = record.resume
           /\ [Discarded(record, keep) EXCEPT !.verdict = verdict].ledgers \in {record.ledgers, <<>>}
<1>1. (keep /\ record.cut) \in BOOLEAN /\ request.entries \in Nat /\ <<>> \in Chains
  BY DEF FileTypes, Chains
<1> QED BY <1>1 DEF Discarded, Attempt

LEMMA ResumeType ==
    ASSUME AttemptTypes, Highest # {}
    PROVE  ResumeLedger \in Chains
<1>1. \A i \in DOMAIN finals : finals[i].ledgers \in Chains
  <2> TAKE i \in DOMAIN finals
  <2>1. finals[i] \in Attempt
    BY DEF AttemptTypes
  <2> QED BY <2>1 DEF Attempt
<1>2. <<>> \in Chains
  BY DEF Chains
<1>3. \A c \in Highest : c \in Chains
  BY <1>1, <1>2 DEF Highest, Resumable
<1>4. (CHOOSE c \in Highest : TRUE) \in Highest
  BY Zenon
<1>5. CASE kind = "optimize"
  BY <1>3, <1>4, <1>5 DEF ResumeLedger
<1>6. CASE kind # "optimize"
  BY <1>2, <1>6 DEF ResumeLedger
<1> QED BY <1>5, <1>6

(* Files. *)
LEMMA FileTypesKept ==
    ASSUME FileTypes, AttemptTypes, StagedOK, NEW p \in Procs, Acts(p)
    PROVE  FileTypes'
<1>1. CASE Call(p)
  BY <1>1 DEF Call, Goto, diskVars, FileTypes, AttemptTypes, Attempt, Ids, StagedOK, Late,
     Labels
<1>2. CASE Look(p)
  BY <1>2 DEF Look, End, Goto, Release, diskVars, FileTypes, AttemptTypes, Attempt, Ids,
     StagedOK, Late, Labels
<1>3. CASE PrepareRuntime(p)
  BY <1>3 DEF PrepareRuntime, Goto, diskVars, FileTypes, AttemptTypes, Attempt, Ids,
     StagedOK, Late, Labels
<1>4. CASE Lock(p)
  BY <1>4 DEF Lock, Goto, CleanStaging, FileTypes, AttemptTypes, Attempt, Ids, StagedOK,
     Late, Labels
<1>5. CASE CleanupRaises(p)
  BY <1>5 DEF CleanupRaises, End, Goto, Release, diskVars, FileTypes, AttemptTypes,
     Attempt, Ids, StagedOK, Late, Labels
<1>6. CASE Recheck(p)
  BY <1>6 DEF Recheck, Holds, End, Goto, Release, Step, diskVars, FileTypes, AttemptTypes,
     Attempt, Ids, StagedOK, Late, Labels
<1>7. CASE Ensure(p)
  BY <1>7 DEF Ensure, Step, Holds, Goto, diskVars, End, Release, FileTypes, AttemptTypes,
     Attempt, Ids, StagedOK, Late, Labels
<1>8. CASE WriteRequest(p)
  BY <1>8 DEF WriteRequest, Write, Step, Holds, Goto, FileTypes, AttemptTypes, Attempt,
     Ids, StagedOK, Late, Labels
<1>9. CASE WriteAnchor(p)
  BY <1>9 DEF WriteAnchor, Write, Step, Holds, Goto, FileTypes, AttemptTypes, Attempt,
     Ids, StagedOK, Late, Labels
<1>10. CASE MakePointRoot(p)
  BY <1>10 DEF MakePointRoot, Write, Step, Holds, Goto, FileTypes, AttemptTypes, Attempt,
     Ids, StagedOK, Late, Labels
<1>11. CASE WriteFirstIndex(p)
  BY <1>11 DEF WriteFirstIndex, Write, Step, Holds, Goto, FileTypes, AttemptTypes,
     Attempt, Ids, StagedOK, Late, Labels
<1>12. CASE Select(p)
  BY <1>12 DEF Select, diskVars, Step, Holds, Goto, End, Release, FileTypes, AttemptTypes,
     Attempt, Ids, StagedOK, Late, Labels
<1>13. CASE Allocate(p)
  BY <1>13 DEF Allocate, Holds, End, Goto, Release, diskVars, FileTypes, AttemptTypes,
     Attempt, Ids, StagedOK, Late, Labels
<1>14. CASE Launch(p)
  BY <1>14 DEF Launch, Step, Holds, Goto, diskVars, FileTypes, AttemptTypes, Attempt, Ids,
     StagedOK, Late, Labels
<1>15. CASE LaunchFails(p)
  BY <1>15 DEF LaunchFails, Step, Holds, Goto, diskVars, FileTypes, AttemptTypes, Attempt,
     Ids, StagedOK, Late, Labels
<1>16. CASE PublishBaseline(p)
  BY <1>16 DEF PublishBaseline, Runs, Holds, ChildGoes, FileTypes, AttemptTypes, Attempt,
     Ids, StagedOK, Late, Labels
<1>17. CASE LoadBaseline(p)
  BY <1>17 DEF LoadBaseline, Runs, Holds, diskVars, ChildGoes, FileTypes, AttemptTypes,
     Attempt, Ids, StagedOK, Late, Labels
<1>18. CASE ReplayRefused(p)
  BY <1>18 DEF ReplayRefused, Runs, Holds, Step, Goto, Stage, FileTypes, AttemptTypes,
     Attempt, Ids, StagedOK, Late, Labels
<1>19. CASE OpenReplayed(p)
  BY <1>19 DEF OpenReplayed, Runs, Holds, Stage, ChildGoes, diskVars, FileTypes, AttemptTypes,
     Attempt, Ids, StagedOK, Late, Labels
<1>20. CASE OpenLedger(p)
  BY <1>20 DEF OpenLedger, Runs, Holds, Stage, ChildGoes, FileTypes, AttemptTypes,
     Attempt, Ids, StagedOK, Late, Labels
<1>21. CASE CloseLedger(p)
  BY <1>21 DEF CloseLedger, Runs, Holds, Stage, ChildGoes, FileTypes, AttemptTypes,
     Attempt, Ids, StagedOK, Late, Labels
<1>22. CASE StartSweep(p)
  BY <1>22 DEF StartSweep, Runs, Holds, Stage, ChildGoes, FileTypes, AttemptTypes,
     Attempt, Ids, StagedOK, Late, Labels
<1>23. CASE ComputePoint(p)
  BY <1>23 DEF ComputePoint, Runs, Holds, Step, Goto, diskVars, FileTypes, AttemptTypes,
     Attempt, Ids, StagedOK, Late, Labels
<1>24. CASE RenewPointRoot(p)
  BY <1>24 DEF RenewPointRoot, Write, Step, Holds, Goto, FileTypes, AttemptTypes, Attempt,
     Ids, StagedOK, Late, Labels
<1>25. CASE StagePoint(p)
  BY <1>25 DEF StagePoint, Write, Step, Holds, Goto, FileTypes, AttemptTypes, Attempt,
     Ids, StagedOK, Late, Labels
<1>26. CASE RenamePoint(p)
  <2>1. request' = [request EXCEPT !.points = request.points + 1, !.stage = FALSE]
    BY <1>26 DEF RenamePoint, Write
  <2>2. UNCHANGED <<kind, baseline, stray>> /\ request.points + 1 \in Nat
    BY <1>26 DEF RenamePoint, Write, Step, FileTypes
  <2> QED BY <2>1, <2>2 DEF FileTypes
<1>27. CASE ListPoint(p)
  <2>1. request' = [request EXCEPT !.entries = request.entries + 1]
    BY <1>27 DEF ListPoint, Write
  <2>2. UNCHANGED <<kind, baseline, stray>> /\ request.entries + 1 \in Nat
    BY <1>27 DEF ListPoint, Write, Step, FileTypes
  <2> QED BY <2>1, <2>2 DEF FileTypes
<1>28. CASE ChildSucceeds(p)
  BY <1>28 DEF ChildSucceeds, Step, Holds, Goto, Stage, FileTypes, AttemptTypes, Attempt,
     Ids, StagedOK, Late, Labels
<1>29. CASE ChildFails(p)
  BY <1>29 DEF ChildFails, Step, Holds, Goto, Stage, FileTypes, AttemptTypes, Attempt,
     Ids, StagedOK, Late, Labels
<1>30. CASE ChildBreaks(p)
  BY <1>30 DEF ChildBreaks, Step, Holds, Goto, diskVars, FileTypes, AttemptTypes, Attempt,
     Ids, StagedOK, Late, Labels
<1>31. CASE PublishRaises(p)
  BY <1>31 DEF PublishRaises, Step, Holds, Goto, diskVars, FileTypes, AttemptTypes,
     Attempt, Ids, StagedOK, Late, Labels
<1>32. CASE SealProtocolFailure(p)
  BY <1>32 DEF SealProtocolFailure, Receipt, Holds, Step, Goto, End, Release, Stage,
     FileTypes, AttemptTypes, Attempt, Ids, StagedOK, Late, Labels
<1>33. CASE Interrupt(p)
  BY <1>33 DEF Interrupt, Holds, Receipt, Step, Goto, End, Release, Stage, diskVars,
     FileTypes, AttemptTypes, Attempt, Ids, StagedOK, Late, Labels
<1>34. CASE Validate(p)
  BY <1>34 DEF Validate, Holds, Receipt, Step, Goto, End, Release, Stage, diskVars,
     FileTypes, AttemptTypes, Attempt, Ids, StagedOK, Late, Labels
<1>35. CASE Promote(p)
  BY <1>35 DEF Promote, Holds, End, Goto, Release, diskVars, FileTypes, AttemptTypes,
     Attempt, Ids, StagedOK, Late, Labels
<1>36. CASE Stop(p)
  BY <1>36 DEF Stop, Goto, Release, diskVars, FileTypes, AttemptTypes, Attempt, Ids,
     StagedOK, Late, Labels
<1>37. CASE CloseReplayed(p)
  BY <1>37 DEF CloseReplayed, ReplayedLedger, Runs, Holds, Stage, ChildGoes, diskVars, FileTypes, AttemptTypes,
     Attempt, Ids, StagedOK, Late, Labels
<1>38. CASE Evolve(p)
  BY <1>38 DEF Evolve, Runs, Holds, Stage, ChildGoes, diskVars, FileTypes, AttemptTypes,
     Attempt, Ids, StagedOK, Late, Labels
<1>39. CASE Authorize(p)
  BY <1>39 DEF Authorize, Step, Holds, Goto, diskVars, FileTypes, AttemptTypes, Attempt, Ids,
     StagedOK, Late, Labels
<1>40. CASE SealCut(p)
  BY <1>40 DEF SealCut, Holds, End, Goto, Release, diskVars, FileTypes, AttemptTypes,
     Attempt, Ids, StagedOK, Late, Labels
<1> QED BY <1>1, <1>2, <1>3, <1>4, <1>5, <1>6, <1>7, <1>8, <1>9, <1>10, <1>11, <1>12,
     <1>13, <1>14, <1>15, <1>16, <1>17, <1>18, <1>19, <1>20, <1>21, <1>22, <1>23, <1>24,
     <1>25, <1>26, <1>27, <1>28, <1>29, <1>30, <1>31, <1>32, <1>33, <1>34, <1>35, <1>36,
     <1>37, <1>38, <1>39, <1>40 DEF Acts, Prologue, Work, Epilogue

(* Processes. *)
LEMMA ProcessTypesKept ==
    ASSUME ProcessTypes, AttemptTypes, StagedOK, NEW p \in Procs, Acts(p)
    PROVE  ProcessTypes'
<1>1. CASE Call(p)
  <2>1. calls' \in 0 .. MaxCalls
    BY <1>1, LeafAssumption DEF Call, ProcessTypes
  <2>2. pc' \in [Procs -> Labels \cup {"idle"}] /\ UNCHANGED <<owner, child, orphan, fresh>>
    BY <1>1 DEF Call, Goto, ProcessTypes, Labels
  <2>3. outcome' \in [Procs -> Verdicts \cup {"reused", "integrity", "raised", "exists", "stopped"}]
    BY <1>1 DEF Call, ProcessTypes, Verdicts
  <2> QED BY <2>1, <2>2, <2>3 DEF ProcessTypes
<1>2. CASE Look(p)
  BY <1>2 DEF Look, End, Goto, Release, diskVars, ProcessTypes, Labels, Verdicts,
     AttemptTypes, Attempt, StagedOK, Late
<1>3. CASE PrepareRuntime(p)
  BY <1>3 DEF PrepareRuntime, Goto, diskVars, ProcessTypes, Labels, Verdicts,
     AttemptTypes, Attempt, StagedOK, Late
<1>4. CASE Lock(p)
  BY <1>4 DEF Lock, Goto, CleanStaging, ProcessTypes, Labels, Verdicts, AttemptTypes,
     Attempt, StagedOK, Late
<1>5. CASE CleanupRaises(p)
  BY <1>5 DEF CleanupRaises, End, Goto, Release, diskVars, ProcessTypes, Labels, Verdicts,
     AttemptTypes, Attempt, StagedOK, Late
<1>6. CASE Recheck(p)
  BY <1>6 DEF Recheck, Holds, End, Goto, Release, Step, diskVars, ProcessTypes, Labels,
     Verdicts, AttemptTypes, Attempt, StagedOK, Late
<1>7. CASE Ensure(p)
  BY <1>7 DEF Ensure, Step, Holds, Goto, diskVars, End, Release, ProcessTypes, Labels,
     Verdicts, AttemptTypes, Attempt, StagedOK, Late
<1>8. CASE WriteRequest(p)
  BY <1>8 DEF WriteRequest, Write, Step, Holds, Goto, ProcessTypes, Labels, Verdicts,
     AttemptTypes, Attempt, StagedOK, Late
<1>9. CASE WriteAnchor(p)
  BY <1>9 DEF WriteAnchor, Write, Step, Holds, Goto, ProcessTypes, Labels, Verdicts,
     AttemptTypes, Attempt, StagedOK, Late
<1>10. CASE MakePointRoot(p)
  BY <1>10 DEF MakePointRoot, Write, Step, Holds, Goto, ProcessTypes, Labels, Verdicts,
     AttemptTypes, Attempt, StagedOK, Late
<1>11. CASE WriteFirstIndex(p)
  BY <1>11 DEF WriteFirstIndex, Write, Step, Holds, Goto, ProcessTypes, Labels, Verdicts,
     AttemptTypes, Attempt, StagedOK, Late
<1>12. CASE Select(p)
  BY <1>12 DEF Select, diskVars, Step, Holds, Goto, End, Release, ProcessTypes, Labels,
     Verdicts, AttemptTypes, Attempt, StagedOK, Late
<1>13. CASE Allocate(p)
  BY SMTT(30), <1>13 DEF Allocate, Holds, End, Goto, Release, diskVars, ProcessTypes, Labels,
     Verdicts, AttemptTypes, Attempt, StagedOK, Late
<1>14. CASE Launch(p)
  BY <1>14 DEF Launch, Step, Holds, Goto, diskVars, ProcessTypes, Labels, Verdicts,
     AttemptTypes, Attempt, StagedOK, Late
<1>15. CASE LaunchFails(p)
  BY <1>15 DEF LaunchFails, Step, Holds, Goto, diskVars, ProcessTypes, Labels, Verdicts,
     AttemptTypes, Attempt, StagedOK, Late
<1>16. CASE PublishBaseline(p)
  BY <1>16 DEF PublishBaseline, Runs, Holds, ChildGoes, ProcessTypes, Labels, Verdicts,
     AttemptTypes, Attempt, StagedOK, Late
<1>17. CASE LoadBaseline(p)
  BY <1>17 DEF LoadBaseline, Runs, Holds, diskVars, ChildGoes, ProcessTypes, Labels,
     Verdicts, AttemptTypes, Attempt, StagedOK, Late
<1>18. CASE ReplayRefused(p)
  BY <1>18 DEF ReplayRefused, Runs, Holds, Step, Goto, Stage, ProcessTypes, Labels,
     Verdicts, AttemptTypes, Attempt, StagedOK, Late
<1>19. CASE OpenReplayed(p)
  BY <1>19 DEF OpenReplayed, Runs, Holds, Stage, ChildGoes, diskVars, ProcessTypes, Labels,
     Verdicts, AttemptTypes, Attempt, StagedOK, Late
<1>20. CASE OpenLedger(p)
  BY <1>20 DEF OpenLedger, Runs, Holds, Stage, ChildGoes, ProcessTypes, Labels, Verdicts,
     AttemptTypes, Attempt, StagedOK, Late
<1>21. CASE CloseLedger(p)
  BY <1>21 DEF CloseLedger, Runs, Holds, Stage, ChildGoes, ProcessTypes, Labels, Verdicts,
     AttemptTypes, Attempt, StagedOK, Late
<1>22. CASE StartSweep(p)
  BY <1>22 DEF StartSweep, Runs, Holds, Stage, ChildGoes, ProcessTypes, Labels, Verdicts,
     AttemptTypes, Attempt, StagedOK, Late
<1>23. CASE ComputePoint(p)
  BY <1>23 DEF ComputePoint, Runs, Holds, Step, Goto, diskVars, ProcessTypes, Labels,
     Verdicts, AttemptTypes, Attempt, StagedOK, Late
<1>24. CASE RenewPointRoot(p)
  BY <1>24 DEF RenewPointRoot, Write, Step, Holds, Goto, ProcessTypes, Labels, Verdicts,
     AttemptTypes, Attempt, StagedOK, Late
<1>25. CASE StagePoint(p)
  BY <1>25 DEF StagePoint, Write, Step, Holds, Goto, ProcessTypes, Labels, Verdicts,
     AttemptTypes, Attempt, StagedOK, Late
<1>26. CASE RenamePoint(p)
  BY <1>26 DEF RenamePoint, Write, Step, Holds, Goto, ProcessTypes, Labels, Verdicts,
     AttemptTypes, Attempt, StagedOK, Late
<1>27. CASE ListPoint(p)
  BY <1>27 DEF ListPoint, Write, Step, Holds, Goto, ProcessTypes, Labels, Verdicts,
     AttemptTypes, Attempt, StagedOK, Late
<1>28. CASE ChildSucceeds(p)
  BY <1>28 DEF ChildSucceeds, Step, Holds, Goto, Stage, ProcessTypes, Labels, Verdicts,
     AttemptTypes, Attempt, StagedOK, Late
<1>29. CASE ChildFails(p)
  BY <1>29 DEF ChildFails, Step, Holds, Goto, Stage, ProcessTypes, Labels, Verdicts,
     AttemptTypes, Attempt, StagedOK, Late
<1>30. CASE ChildBreaks(p)
  BY <1>30 DEF ChildBreaks, Step, Holds, Goto, diskVars, ProcessTypes, Labels, Verdicts,
     AttemptTypes, Attempt, StagedOK, Late
<1>31. CASE PublishRaises(p)
  BY <1>31 DEF PublishRaises, Step, Holds, Goto, diskVars, ProcessTypes, Labels, Verdicts,
     AttemptTypes, Attempt, StagedOK, Late
<1>32. CASE SealProtocolFailure(p)
  BY <1>32 DEF SealProtocolFailure, Receipt, Holds, Step, Goto, End, Release, Stage,
     ProcessTypes, Labels, Verdicts, AttemptTypes, Attempt, StagedOK, Late
<1>33. CASE Interrupt(p)
  BY <1>33 DEF Interrupt, Holds, Receipt, Step, Goto, End, Release, Stage, diskVars,
     ProcessTypes, Labels, Verdicts, AttemptTypes, Attempt, StagedOK, Late
<1>34. CASE Validate(p)
  BY <1>34 DEF Validate, Holds, Receipt, Step, Goto, End, Release, Stage, diskVars,
     ProcessTypes, Labels, Verdicts, AttemptTypes, Attempt, StagedOK, Late
<1>35. CASE Promote(p)
  BY <1>35 DEF Promote, Holds, End, Goto, Release, diskVars, ProcessTypes, Labels,
     Verdicts, AttemptTypes, Attempt, StagedOK, Late
<1>36. CASE Stop(p)
  BY <1>36 DEF Stop, Goto, Release, diskVars, ProcessTypes, Labels, Verdicts,
     AttemptTypes, Attempt, StagedOK, Late
<1>37. CASE CloseReplayed(p)
  BY <1>37 DEF CloseReplayed, ReplayedLedger, Runs, Holds, Stage, ChildGoes, diskVars, ProcessTypes, Labels,
     Verdicts, AttemptTypes, Attempt, StagedOK, Late
<1>38. CASE Evolve(p)
  BY <1>38 DEF Evolve, Runs, Holds, Stage, ChildGoes, diskVars, ProcessTypes, Labels,
     Verdicts, AttemptTypes, Attempt, StagedOK, Late
<1>39. CASE Authorize(p)
  BY <1>39 DEF Authorize, Step, Holds, Goto, diskVars, ProcessTypes, Labels, Verdicts,
     AttemptTypes, Attempt, StagedOK, Late
<1>40. CASE SealCut(p)
  BY <1>40 DEF SealCut, Holds, End, Goto, Release, diskVars, ProcessTypes, Labels, Verdicts,
     AttemptTypes, Attempt, StagedOK, Late
<1> QED BY <1>1, <1>2, <1>3, <1>4, <1>5, <1>6, <1>7, <1>8, <1>9, <1>10, <1>11, <1>12,
     <1>13, <1>14, <1>15, <1>16, <1>17, <1>18, <1>19, <1>20, <1>21, <1>22, <1>23, <1>24,
     <1>25, <1>26, <1>27, <1>28, <1>29, <1>30, <1>31, <1>32, <1>33, <1>34, <1>35, <1>36,
     <1>37, <1>38, <1>39, <1>40 DEF Acts, Prologue, Work, Epilogue

-----------------------------------------------------------------------------
(* What a step does to the attempts *)

(* Most steps leave every attempt alone. *)
Quiet(p) ==
    /\ UNCHANGED <<finals, staging, fresh>>
    /\ pc'[p] \in Late => pc[p] \in Late
    /\ pc'[p] \in Inside \ {"recheck"} => pc[p] \in Inside \ {"recheck"} \/ ~Succeeded
    /\ pc'[p] = "allocate" => pc[p] = "allocate" \/ Highest # {}
    /\ pc'[p] \in {"point", "stage", "list"} => pc[p] \in {"point", "stage", "list"} \/ kind = "sweep"
    /\ pc'[p] = "run" => pc[p] \in {"run", "list"} \/ child' # "evolve"
    /\ child' = "evolve" => child = "evolve" \/ kind # "optimize"

(* The child and the end of an attempt seal it, with its ledgers or without.  *)
Restage(p) ==
    /\ UNCHANGED <<finals, fresh>>
    /\ pc[p] \in Late
    /\ pc'[p] \in (Late \ {"point", "stage", "list"}) \cup {"idle"}
    /\ staging' \in Attempt /\ staging'.id = staging.id /\ staging'.resume = staging.resume
    /\ staging'.ledgers \in {staging.ledgers, <<>>}
    /\ pc'[p] = "run" => pc[p] = "run"
    /\ child' = "evolve" /\ kind = "optimize" => child = "evolve" /\ staging'.ledgers = staging.ledgers

LEMMA ReadableHighest ==
    ASSUME EvidenceReadable
    PROVE  Highest # {}
BY FS_EmptySet DEF EvidenceReadable

Calm(p) ==
    Call(p) \/ Look(p) \/ PrepareRuntime(p) \/ CleanupRaises(p) \/ Recheck(p) \/
    Ensure(p) \/ WriteRequest(p) \/ WriteAnchor(p) \/ MakePointRoot(p) \/
    WriteFirstIndex(p) \/ Select(p) \/ Launch(p) \/ LaunchFails(p) \/ Authorize(p) \/ SealCut(p) \/
    PublishBaseline(p) \/ LoadBaseline(p) \/ ComputePoint(p) \/ RenewPointRoot(p) \/
    StagePoint(p) \/ RenamePoint(p) \/ ListPoint(p) \/ ChildBreaks(p) \/
    PublishRaises(p) \/ Stop(p)

Seals(p) ==
    ReplayRefused(p) \/ OpenReplayed(p) \/ OpenLedger(p) \/ StartSweep(p) \/ ChildSucceeds(p) \/
    ChildFails(p) \/ SealProtocolFailure(p) \/ Interrupt(p) \/ Validate(p)

(* Quiet steps. *)
LEMMA QuietSteps ==
    ASSUME ProcessTypes, NEW p \in Procs, Calm(p)
    PROVE  Quiet(p)
<1>1. CASE Call(p)
  BY <1>1 DEF Call, Goto, diskVars, Quiet, Late, Inside, ProcessTypes, Labels,
     ReusedUnderLock
<1>2. CASE Look(p)
  BY <1>2 DEF Look, End, Goto, Release, diskVars, Quiet, Late, Inside, ProcessTypes,
     Labels, ReusedUnderLock
<1>3. CASE PrepareRuntime(p)
  BY <1>3 DEF PrepareRuntime, Goto, diskVars, Quiet, Late, Inside, ProcessTypes, Labels,
     ReusedUnderLock
<1>4. CASE CleanupRaises(p)
  BY <1>4 DEF CleanupRaises, End, Goto, Release, diskVars, Quiet, Late, Inside,
     ProcessTypes, Labels, ReusedUnderLock
<1>5. CASE Recheck(p)
  BY <1>5 DEF Recheck, Holds, End, Goto, Release, Step, diskVars, Quiet, Late, Inside,
     ProcessTypes, Labels, ReusedUnderLock
<1>6. CASE Ensure(p)
  BY <1>6 DEF Ensure, Step, Holds, Goto, diskVars, End, Release, Quiet, Late, Inside,
     ProcessTypes, Labels, ReusedUnderLock
<1>7. CASE WriteRequest(p)
  BY <1>7 DEF WriteRequest, Write, Step, Holds, Goto, Quiet, Late, Inside, ProcessTypes,
     Labels, ReusedUnderLock
<1>8. CASE WriteAnchor(p)
  BY <1>8 DEF WriteAnchor, Write, Step, Holds, Goto, Quiet, Late, Inside, ProcessTypes,
     Labels, ReusedUnderLock
<1>9. CASE MakePointRoot(p)
  BY <1>9 DEF MakePointRoot, Write, Step, Holds, Goto, Quiet, Late, Inside, ProcessTypes,
     Labels, ReusedUnderLock
<1>10. CASE WriteFirstIndex(p)
  BY <1>10 DEF WriteFirstIndex, Write, Step, Holds, Goto, Quiet, Late, Inside,
     ProcessTypes, Labels, ReusedUnderLock
<1>11. CASE Select(p)
  BY <1>11, ReadableHighest
  DEF Select, diskVars, Step, Holds, Goto, End, Release, Quiet, Late, Inside, ProcessTypes, Labels
<1>12. CASE Launch(p)
  BY <1>12 DEF Launch, Step, Holds, Goto, diskVars, Quiet, Late, Inside, ProcessTypes,
     Labels, ReusedUnderLock
<1>13. CASE LaunchFails(p)
  BY <1>13 DEF LaunchFails, Step, Holds, Goto, diskVars, Quiet, Late, Inside,
     ProcessTypes, Labels, ReusedUnderLock
<1>14. CASE PublishBaseline(p)
  BY <1>14 DEF PublishBaseline, Runs, Holds, ChildGoes, Quiet, Late, Inside, ProcessTypes,
     Labels, ReusedUnderLock
<1>15. CASE LoadBaseline(p)
  BY <1>15 DEF LoadBaseline, Runs, Holds, diskVars, ChildGoes, Quiet, Late, Inside,
     ProcessTypes, Labels, ReusedUnderLock
<1>16. CASE ComputePoint(p)
  BY <1>16 DEF ComputePoint, Runs, Holds, Step, Goto, diskVars, Quiet, Late, Inside,
     ProcessTypes, Labels, ReusedUnderLock
<1>17. CASE RenewPointRoot(p)
  BY <1>17 DEF RenewPointRoot, Write, Step, Holds, Goto, Quiet, Late, Inside,
     ProcessTypes, Labels, ReusedUnderLock
<1>18. CASE StagePoint(p)
  BY <1>18 DEF StagePoint, Write, Step, Holds, Goto, Quiet, Late, Inside, ProcessTypes,
     Labels, ReusedUnderLock
<1>19. CASE RenamePoint(p)
  BY <1>19 DEF RenamePoint, Write, Step, Holds, Goto, Quiet, Late, Inside, ProcessTypes,
     Labels, ReusedUnderLock
<1>20. CASE ListPoint(p)
  BY <1>20 DEF ListPoint, Write, Step, Holds, Goto, Quiet, Late, Inside, ProcessTypes,
     Labels, ReusedUnderLock
<1>21. CASE ChildBreaks(p)
  BY <1>21 DEF ChildBreaks, Step, Holds, Goto, diskVars, Quiet, Late, Inside,
     ProcessTypes, Labels, ReusedUnderLock
<1>22. CASE PublishRaises(p)
  BY <1>22 DEF PublishRaises, Step, Holds, Goto, diskVars, Quiet, Late, Inside,
     ProcessTypes, Labels, ReusedUnderLock
<1>23. CASE Stop(p)
  BY <1>23 DEF Stop, Goto, Release, diskVars, Quiet, Late, Inside, ProcessTypes, Labels,
     ReusedUnderLock
<1>24. CASE Authorize(p)
  BY <1>24 DEF Authorize, Step, Holds, Goto, diskVars, Quiet, Late, Inside, ProcessTypes,
     Labels, ReusedUnderLock
<1>25. CASE SealCut(p)
  BY <1>25 DEF SealCut, Holds, End, Goto, Release, diskVars, Quiet, Late, Inside,
     ProcessTypes, Labels, ReusedUnderLock
<1> QED BY <1>1, <1>2, <1>3, <1>4, <1>5, <1>6, <1>7, <1>8, <1>9, <1>10, <1>11, <1>12,
     <1>13, <1>14, <1>15, <1>16, <1>17, <1>18, <1>19, <1>20, <1>21, <1>22, <1>23, <1>24,
     <1>25 DEF Calm

(* A receipt is written over what is staged, and the attempt or the call ends. *)
LEMMA ReceiptStep ==
    ASSUME ProcessTypes, NEW p \in Procs, NEW from, NEW record, Receipt(p, from, record)
    PROVE  /\ pc[p] = from /\ pc'[p] \in {"promote", "idle"} /\ child' \in {"ended", "none"}
           /\ staging' = record /\ UNCHANGED <<kind, request, baseline, finals, stray, fresh>>
BY DEF Receipt, Step, Stage, Holds, Goto, End, ProcessTypes, Labels

(* Sealing steps. *)
LEMMA SealingSteps ==
    ASSUME ProcessTypes, FileTypes, AttemptTypes, StagedOK, NEW p \in Procs, Seals(p)
    PROVE  Restage(p)
<1>1. CASE ReplayRefused(p)
  BY <1>1 DEF ReplayRefused, Runs, Holds, Step, Goto, Stage, Restage, Late, ProcessTypes,
     Labels, AttemptTypes, StagedOK, Attempt, Verdicts
<1>2. CASE OpenLedger(p)
  BY <1>2 DEF OpenLedger, Runs, Holds, Stage, ChildGoes, Restage, Late, ProcessTypes,
     Labels, AttemptTypes, StagedOK, Attempt, Verdicts
<1>3. CASE StartSweep(p)
  BY <1>3 DEF StartSweep, Runs, Holds, Stage, ChildGoes, Restage, Late, ProcessTypes,
     Labels, AttemptTypes, StagedOK, Attempt, Verdicts
<1>4. CASE ChildSucceeds(p)
  BY <1>4 DEF ChildSucceeds, Step, Holds, Goto, Stage, Restage, Late, ProcessTypes,
     Labels, AttemptTypes, StagedOK, Attempt, Verdicts
<1>5. CASE ChildFails(p)
  <2>1. PICK verdict \in {"failure", "population"} :
           staging' = [staging EXCEPT !.verdict = verdict, !.cut = FALSE]
    BY <1>5 DEF ChildFails, Stage
  <2>2. pc[p] = "run" /\ pc'[p] = "validate" /\ child' = "ended" /\ UNCHANGED <<finals, fresh>>
    BY <1>5 DEF ChildFails, Step, Holds, Goto, Stage, ProcessTypes
  <2>3. staging \in Attempt
    BY <1>5 DEF ChildFails, Step, Holds, StagedOK, Late, AttemptTypes
  <2>4. /\ staging' \in Attempt /\ staging'.id = staging.id /\ staging'.resume = staging.resume
        /\ staging'.ledgers = staging.ledgers
    BY <2>1, <2>3 DEF Attempt, Verdicts
  <2> QED BY <2>2, <2>4 DEF Restage, Late
<1>6. CASE SealProtocolFailure(p)
  <2>1. staging \in Attempt /\ FALSE \in BOOLEAN /\ "protocol" \in Verdicts
    BY <1>6 DEF SealProtocolFailure, Receipt, Holds, StagedOK, Late, AttemptTypes, Verdicts
  <2> DEFINE sealed == [Discarded(staging, FALSE) EXCEPT !.verdict = "protocol"]
  <2>2. /\ sealed \in Attempt /\ sealed.id = staging.id /\ sealed.resume = staging.resume
        /\ sealed.ledgers \in {staging.ledgers, <<>>}
    BY <2>1, DiscardedType
  <2>3. Receipt(p, "fail", sealed)
    BY <1>6 DEF SealProtocolFailure
  <2> HIDE DEF sealed
  <2>4. /\ pc[p] = "fail" /\ pc'[p] \in {"promote", "idle"} /\ child' \in {"ended", "none"}
        /\ staging' = sealed /\ UNCHANGED <<finals, fresh>>
    BY <2>3, ReceiptStep
  <2> QED BY <2>2, <2>4 DEF Restage, Late
<1>7. CASE Interrupt(p)
  <2>1. PICK at \in {"launch", "run", "point", "list", "validate"} :
          /\ Holds(p, at)
          /\ \/ Receipt(p, at, [Discarded(staging, TRUE) EXCEPT !.verdict = "interrupted"])
             \/ End(p, "integrity") /\ UNCHANGED diskVars
    BY <1>7 DEF Interrupt
  <2>2. staging \in Attempt /\ TRUE \in BOOLEAN /\ "interrupted" \in Verdicts /\ pc[p] \in Late
    BY <2>1 DEF Holds, StagedOK, Late, AttemptTypes, Verdicts
  <2> DEFINE sealed == [Discarded(staging, TRUE) EXCEPT !.verdict = "interrupted"]
  <2>3. /\ sealed \in Attempt /\ sealed.id = staging.id /\ sealed.resume = staging.resume
        /\ sealed.ledgers \in {staging.ledgers, <<>>}
    BY <2>2, DiscardedType
  <2>4. CASE Receipt(p, at, sealed)
    <3> HIDE DEF sealed
    <3>1. /\ pc[p] = at /\ pc'[p] \in {"promote", "idle"} /\ child' \in {"ended", "none"}
          /\ staging' = sealed /\ UNCHANGED <<finals, fresh>>
      BY <2>4, ReceiptStep
    <3> QED BY <2>2, <2>3, <3>1 DEF Restage, Late
  <2>5. CASE End(p, "integrity") /\ UNCHANGED diskVars
    BY <2>2, <2>5 DEF Restage, Late, End, Goto, diskVars, ProcessTypes
  <2> QED BY <2>1, <2>4, <2>5
<1>8. CASE Validate(p)
  <2>1. staging \in Attempt /\ pc[p] = "validate" /\ request.entries \in Nat
    BY <1>8 DEF Validate, Holds, StagedOK, Late, AttemptTypes, FileTypes
  <2> DEFINE sealed == [staging EXCEPT !.points = request.entries]
  <2>2. /\ sealed \in Attempt /\ sealed.id = staging.id /\ sealed.resume = staging.resume
        /\ sealed.ledgers = staging.ledgers
    BY <2>1 DEF Attempt
  <2>3. CASE Receipt(p, "validate", sealed)
    <3> HIDE DEF sealed
    <3>1. /\ pc'[p] \in {"promote", "idle"} /\ child' \in {"ended", "none"}
          /\ staging' = sealed /\ UNCHANGED <<finals, fresh>>
      BY <2>3, ReceiptStep
    <3> QED BY <2>1, <2>2, <3>1 DEF Restage, Late
  <2>4. CASE Step(p, "validate", "fail") /\ UNCHANGED <<diskVars, child>>
    BY <2>1, <2>4 DEF Restage, Late, Step, Goto, diskVars, ProcessTypes
  <2> QED BY <1>8, <2>3, <2>4 DEF Validate
<1>9. CASE OpenReplayed(p)
  BY <1>9 DEF OpenReplayed, Runs, Holds, Stage, ChildGoes, Restage, Late, ProcessTypes,
     Labels, AttemptTypes, StagedOK, Attempt, Verdicts
<1> QED BY <1>1, <1>2, <1>3, <1>4, <1>5, <1>6, <1>7, <1>8, <1>9 DEF Seals

(* The request is what it is. *)
LEMMA KindKept ==
    ASSUME NEW p \in Procs, Acts(p)
    PROVE  kind' = kind
<1>1. CASE Call(p)
  BY <1>1 DEF Call, Goto, diskVars
<1>2. CASE Look(p)
  BY <1>2 DEF Look, End, Goto, Release, diskVars
<1>3. CASE PrepareRuntime(p)
  BY <1>3 DEF PrepareRuntime, Goto, diskVars
<1>4. CASE Lock(p)
  BY <1>4 DEF Lock, Goto, CleanStaging
<1>5. CASE CleanupRaises(p)
  BY <1>5 DEF CleanupRaises, End, Goto, Release, diskVars
<1>6. CASE Recheck(p)
  BY <1>6 DEF Recheck, Holds, End, Goto, Release, Step, diskVars
<1>7. CASE Ensure(p)
  BY <1>7 DEF Ensure, Step, Holds, Goto, diskVars, End, Release
<1>8. CASE WriteRequest(p)
  BY <1>8 DEF WriteRequest, Write, Step, Holds, Goto
<1>9. CASE WriteAnchor(p)
  BY <1>9 DEF WriteAnchor, Write, Step, Holds, Goto
<1>10. CASE MakePointRoot(p)
  BY <1>10 DEF MakePointRoot, Write, Step, Holds, Goto
<1>11. CASE WriteFirstIndex(p)
  BY <1>11 DEF WriteFirstIndex, Write, Step, Holds, Goto
<1>12. CASE Select(p)
  BY <1>12 DEF Select, diskVars, Step, Holds, Goto, End, Release
<1>13. CASE Allocate(p)
  BY <1>13 DEF Allocate, Holds, End, Goto, Release, diskVars
<1>14. CASE Launch(p)
  BY <1>14 DEF Launch, Step, Holds, Goto, diskVars
<1>15. CASE LaunchFails(p)
  BY <1>15 DEF LaunchFails, Step, Holds, Goto, diskVars
<1>16. CASE PublishBaseline(p)
  BY <1>16 DEF PublishBaseline, Runs, Holds, ChildGoes
<1>17. CASE LoadBaseline(p)
  BY <1>17 DEF LoadBaseline, Runs, Holds, diskVars, ChildGoes
<1>18. CASE ReplayRefused(p)
  BY <1>18 DEF ReplayRefused, Runs, Holds, Step, Goto, Stage
<1>19. CASE OpenReplayed(p)
  BY <1>19 DEF OpenReplayed, Runs, Holds, Stage, ChildGoes, diskVars
<1>20. CASE OpenLedger(p)
  BY <1>20 DEF OpenLedger, Runs, Holds, Stage, ChildGoes
<1>21. CASE CloseLedger(p)
  BY <1>21 DEF CloseLedger, Runs, Holds, Stage, ChildGoes
<1>22. CASE StartSweep(p)
  BY <1>22 DEF StartSweep, Runs, Holds, Stage, ChildGoes
<1>23. CASE ComputePoint(p)
  BY <1>23 DEF ComputePoint, Runs, Holds, Step, Goto, diskVars
<1>24. CASE RenewPointRoot(p)
  BY <1>24 DEF RenewPointRoot, Write, Step, Holds, Goto
<1>25. CASE StagePoint(p)
  BY <1>25 DEF StagePoint, Write, Step, Holds, Goto
<1>26. CASE RenamePoint(p)
  BY <1>26 DEF RenamePoint, Write, Step, Holds, Goto
<1>27. CASE ListPoint(p)
  BY <1>27 DEF ListPoint, Write, Step, Holds, Goto
<1>28. CASE ChildSucceeds(p)
  BY <1>28 DEF ChildSucceeds, Step, Holds, Goto, Stage
<1>29. CASE ChildFails(p)
  BY <1>29 DEF ChildFails, Step, Holds, Goto, Stage
<1>30. CASE ChildBreaks(p)
  BY <1>30 DEF ChildBreaks, Step, Holds, Goto, diskVars
<1>31. CASE PublishRaises(p)
  BY <1>31 DEF PublishRaises, Step, Holds, Goto, diskVars
<1>32. CASE SealProtocolFailure(p)
  BY <1>32 DEF SealProtocolFailure, Receipt, Holds, Step, Goto, End, Release, Stage
<1>33. CASE Interrupt(p)
  BY <1>33 DEF Interrupt, Holds, Receipt, Step, Goto, End, Release, Stage, diskVars
<1>34. CASE Validate(p)
  BY <1>34 DEF Validate, Holds, Receipt, Step, Goto, End, Release, Stage, diskVars
<1>35. CASE Promote(p)
  BY <1>35 DEF Promote, Holds, End, Goto, Release, diskVars
<1>36. CASE Stop(p)
  BY <1>36 DEF Stop, Goto, Release, diskVars
<1>37. CASE CloseReplayed(p)
  BY <1>37 DEF CloseReplayed, ReplayedLedger, Runs, Holds, Stage, ChildGoes, diskVars
<1>38. CASE Evolve(p)
  BY <1>38 DEF Evolve, Runs, Holds, Stage, ChildGoes, diskVars
<1>39. CASE Authorize(p)
  BY <1>39 DEF Authorize, Step, Holds, Goto, diskVars
<1>40. CASE SealCut(p)
  BY <1>40 DEF SealCut, Holds, End, Goto, Release, diskVars
<1> QED BY <1>1, <1>2, <1>3, <1>4, <1>5, <1>6, <1>7, <1>8, <1>9, <1>10, <1>11, <1>12,
     <1>13, <1>14, <1>15, <1>16, <1>17, <1>18, <1>19, <1>20, <1>21, <1>22, <1>23, <1>24,
     <1>25, <1>26, <1>27, <1>28, <1>29, <1>30, <1>31, <1>32, <1>33, <1>34, <1>35, <1>36,
     <1>37, <1>38, <1>39, <1>40 DEF Acts, Prologue, Work, Epilogue

(* Taking the lock removes what was staged. *)
Cleans(p) ==
    /\ UNCHANGED <<kind, finals, fresh, child>>
    /\ staging' = NoAttempt /\ pc'[p] = "recheck" /\ pc[p] = "wait"

(* A new attempt resumes the highest chain. *)
Allocates(p) ==
    /\ UNCHANGED <<kind, finals>>
    /\ pc[p] = "allocate"
    /\ \/ pc'[p] = "idle" /\ UNCHANGED <<staging, fresh>> /\ child' = "none"
       \/ /\ pc'[p] = "launch" /\ fresh' = fresh + 1 /\ child' = child
          /\ staging' = NewAttempt(fresh + 1, ResumeLedger)

(* A ledger is replayed, or a new one closed. *)
Extends(p) ==
    /\ UNCHANGED <<kind, finals, fresh>>
    /\ pc[p] = "run" /\ pc'[p] = "run" /\ kind = "optimize"
    /\ \/ /\ Len(staging.ledgers) < Len(staging.resume) /\ child' = "replay"
          /\ staging' = [staging EXCEPT !.ledgers = Append(@, staging.resume[Len(staging.ledgers) + 1]),
                                        !.cut = FALSE]
       \/ Len(staging.resume) <= Len(staging.ledgers) /\ staging' = staging
       \/ /\ child = "evolve"
          /\ staging' = [staging EXCEPT !.ledgers = Append(@, staging.id), !.cut = FALSE]

(* The attempt is promoted, or not. *)
Promotes(p) ==
    /\ UNCHANGED <<kind, fresh>>
    /\ pc[p] = "promote" /\ pc'[p] = "idle" /\ child' = "none"
    /\ \/ UNCHANGED <<finals, staging>>
       \/ finals' = Append(finals, staging) /\ staging' = NoAttempt

Moves(p) ==
    /\ LockMove(p) /\ kind' = kind
    /\ Quiet(p) \/ Restage(p) \/ Cleans(p) \/ Allocates(p) \/ Extends(p) \/ Promotes(p)

(* Every step of a process is one of these. *)
LEMMA StepMoves ==
    ASSUME ProcessTypes, FileTypes, AttemptTypes, StagedOK, NEW p \in Procs, Acts(p)
    PROVE  Moves(p)
<1>1. LockMove(p)
  BY LockMoves
<1>2. CASE Calm(p)
  BY <1>1, <1>2, QuietSteps, KindKept DEF Moves
<1>3. CASE Seals(p)
  BY <1>1, <1>3, SealingSteps, KindKept DEF Moves
<1>4. CASE Lock(p)
  <2>1. Cleans(p)
    BY <1>4 DEF Lock, CleanStaging, Goto, Cleans, ProcessTypes
  <2> QED BY <1>1, <2>1, KindKept DEF Moves
<1>5. CASE Allocate(p)
  <2>1. Allocates(p)
    BY <1>5 DEF Allocate, Holds, End, Goto, diskVars, Allocates, ProcessTypes
  <2> QED BY <1>1, <2>1, KindKept DEF Moves
<1>6. CASE CloseReplayed(p)
  <2>1. staging \in Attempt
    BY <1>6 DEF CloseReplayed, Runs, Holds, StagedOK, Late, AttemptTypes
  <2>2. Extends(p)
    BY <1>6, <2>1 DEF CloseReplayed, ToReplay, ReplayedLedger, Runs, Holds, Stage, ChildGoes, Extends,
       Attempt
  <2> QED BY <1>1, <2>2, KindKept DEF Moves
<1>7. CASE CloseLedger(p)
  <2>1. Extends(p)
    BY <1>7 DEF CloseLedger, Runs, Holds, Stage, ChildGoes, Extends
  <2> QED BY <1>1, <2>1, KindKept DEF Moves
<1>8. CASE Evolve(p)
  <2>1. staging \in Attempt
    BY <1>8 DEF Evolve, Runs, Holds, StagedOK, Late, AttemptTypes
  <2>2. Len(staging.ledgers) \in Nat /\ Len(staging.resume) \in Nat
    BY <2>1 DEF Attempt, Chains
  <2>3. Extends(p)
    BY <1>8, <2>2 DEF Evolve, ToReplay, Runs, Holds, ChildGoes, diskVars, Extends
  <2> QED BY <1>1, <2>3, KindKept DEF Moves
<1>9. CASE Promote(p)
  <2>1. Promotes(p)
    BY <1>9 DEF Promote, Holds, End, Goto, diskVars, Promotes, ProcessTypes
  <2> QED BY <1>1, <2>1, KindKept DEF Moves
<1> QED BY <1>2, <1>3, <1>4, <1>5, <1>6, <1>7, <1>8, <1>9
     DEF Acts, Prologue, Work, Epilogue, Calm, Seals

-----------------------------------------------------------------------------
(* The attempts *)

LEMMA ExtendedType ==
    ASSUME NEW record \in Attempt, NEW maker \in Ids
    PROVE  [record EXCEPT !.ledgers = Append(@, maker), !.cut = FALSE] \in Attempt
<1>1. Append(record.ledgers, maker) \in Chains
  BY DEF Attempt, Chains
<1> QED BY <1>1 DEF Attempt

LEMMA AllocatedType ==
    ASSUME FileTypes, AttemptTypes, ProcessTypes, SelectOK, NEW p \in Procs, pc[p] = "allocate"
    PROVE  /\ NewAttempt(fresh + 1, ResumeLedger) \in Attempt
           /\ NewAttempt(fresh + 1, ResumeLedger) # NoAttempt
           /\ NewAttempt(fresh + 1, ResumeLedger).id = fresh + 1
           /\ NewAttempt(fresh + 1, ResumeLedger).resume = ResumeLedger
           /\ NewAttempt(fresh + 1, ResumeLedger).ledgers = <<>>
<1>1. ResumeLedger \in Chains
  BY ResumeType DEF SelectOK
<1>2. fresh + 1 \in Ids
  BY DEF ProcessTypes, Ids
<1>3. NewAttempt(fresh + 1, ResumeLedger) \in Attempt /\ NewAttempt(fresh + 1, ResumeLedger) # NoAttempt
  BY <1>1, <1>2, NewAttemptType
<1> QED BY <1>3 DEF NewAttempt

(* Who is past the allocation has an attempt, and the number of it. *)
LEMMA Staged ==
    ASSUME AttemptTypes, StagedOK, NEW p \in Procs, pc[p] \in Late
    PROVE  staging \in Attempt /\ staging # NoAttempt /\ staging.id = fresh
BY DEF AttemptTypes, StagedOK

(* A replayed or a new ledger is one of an attempt. *)
LEMMA ExtendedOnly ==
    ASSUME Types, StagedOK, NEW p \in Procs, Extends(p)
    PROVE  staging' \in Attempt /\ staging'.id = staging.id /\ staging'.resume = staging.resume
<1>1. staging \in Attempt /\ staging.id \in Ids
  BY Staged DEF Extends, Late, Attempt, Types
<1>2. CASE Len(staging.ledgers) < Len(staging.resume)
  <2>1. staging.resume[Len(staging.ledgers) + 1] \in Ids
    BY <1>1, <1>2 DEF Attempt, Chains
  <2> QED BY <1>1, <2>1, ExtendedType DEF Extends, Attempt
<1>3. CASE ~(Len(staging.ledgers) < Len(staging.resume))
  BY <1>1, <1>3, ExtendedType DEF Extends, Attempt
<1> QED BY <1>2, <1>3

LEMMA AttemptTypesKept ==
    ASSUME Types, LockOK, StagedOK, SelectOK, LedgerOK, NEW p \in Procs, Moves(p)
    PROVE  AttemptTypes'
<1> USE DEF Types
<1>1. CASE Quiet(p)
  BY <1>1 DEF Quiet, AttemptTypes
<1>2. CASE Restage(p)
  BY <1>2 DEF Restage, AttemptTypes
<1>3. CASE Cleans(p)
  BY <1>3 DEF Cleans, AttemptTypes
<1>4. CASE Allocates(p)
  BY <1>4, AllocatedType DEF Allocates, AttemptTypes
<1>5. CASE Extends(p)
  BY <1>5, ExtendedOnly DEF Extends, AttemptTypes
<1>6. CASE Promotes(p)
  <2>1. staging \in Attempt
    BY <1>6, Staged DEF Promotes, Late
  <2> QED BY <1>6, <2>1 DEF Promotes, AttemptTypes
<1> QED BY <1>1, <1>2, <1>3, <1>4, <1>5, <1>6 DEF Moves

(* Who is inside is alone: a step that another process can take changes no    *)
(* attempt.                                                                   *)
LEMMA Elsewhere ==
    ASSUME Types, LockOK, NEW p \in Procs, NEW q \in Procs, q # p, Moves(p), pc'[q] \in Inside
    PROVE  /\ pc[p] \notin Inside /\ pc'[q] = pc[q] /\ pc'[p] \notin Inside
           /\ UNCHANGED <<kind, finals, staging, fresh>>
           /\ child' = "evolve" => child = "evolve" \/ kind # "optimize"
<1>1. pc'[q] = pc[q] /\ pc[q] \in Inside
  BY DEF Moves, LockMove
<1>2. pc[p] \notin Inside
  BY <1>1 DEF LockOK
<1>3. owner = q /\ owner # NoProc
  BY <1>1, LeafAssumption DEF LockOK
<1>4. pc'[p] \notin Inside
  BY <1>2, <1>3 DEF Moves, LockMove, Inside, Late
<1>5. Quiet(p)
  BY <1>2, <1>4 DEF Moves, Restage, Cleans, Allocates, Extends, Promotes, Inside, Late
<1> QED BY <1>1, <1>2, <1>4, <1>5 DEF Quiet, Moves

LEMMA StagedKept ==
    ASSUME Types, LockOK, StagedOK, SelectOK, NEW p \in Procs, Moves(p)
    PROVE  StagedOK'
<1> SUFFICES ASSUME NEW q \in Procs, pc'[q] \in Late
             PROVE  (staging # NoAttempt /\ staging.id = fresh)'
  BY DEF StagedOK
<1>1. CASE q # p
  BY <1>1, Elsewhere DEF Inside, StagedOK
<1>2. CASE q = p
  <2> USE <1>2
  <2>1. CASE Quiet(p)
    BY <2>1 DEF Quiet, StagedOK
  <2>2. CASE Restage(p)
    BY <2>2, LeafAssumption DEF Restage, StagedOK
  <2>3. CASE Cleans(p)
    BY <2>3 DEF Cleans, Late
  <2>4. CASE Allocates(p)
    BY <2>4, AllocatedType DEF Allocates, Late, Types
  <2>5. CASE Extends(p)
    <3>1. staging' \in Attempt /\ staging'.id = staging.id /\ fresh' = fresh /\ pc[p] \in Late
      BY <2>5, ExtendedOnly DEF Extends, Late
    <3> QED BY <3>1, LeafAssumption DEF StagedOK
  <2>6. CASE Promotes(p)
    BY <2>6 DEF Promotes, Late
  <2> QED BY <2>1, <2>2, <2>3, <2>4, <2>5, <2>6 DEF Moves
<1> QED BY <1>1, <1>2

LEMMA DoneKept ==
    ASSUME Types, LockOK, DoneOK, NEW p \in Procs, Moves(p)
    PROVE  DoneOK'
<1> SUFFICES ASSUME NEW q \in Procs, pc'[q] \in Inside \ {"recheck"}
             PROVE  ~Succeeded'
  BY DEF DoneOK
<1>1. CASE q # p
  BY <1>1, Elsewhere DEF DoneOK, Succeeded
<1>2. CASE q = p
  BY <1>2 DEF DoneOK, Succeeded, Moves, Quiet, Restage, Cleans, Allocates, Extends, Promotes, Inside, Late
<1> QED BY <1>1, <1>2

LEMMA SelectKept ==
    ASSUME Types, LockOK, SelectOK, NEW p \in Procs, Moves(p)
    PROVE  SelectOK'
<1> SUFFICES ASSUME NEW q \in Procs
             PROVE  /\ pc'[q] = "allocate" => Highest' # {}
                    /\ pc'[q] \in {"point", "stage", "list"} => kind' = "sweep"
  BY DEF SelectOK
<1>1. CASE q # p
  <2>1. ASSUME pc'[q] \in Inside
        PROVE  pc[q] = pc'[q] /\ kind' = kind /\ Highest' = Highest
    <3>1. pc'[q] = pc[q] /\ UNCHANGED <<kind, finals>>
      BY <1>1, <2>1, Elsewhere
    <3>2. Resumable' = Resumable
      BY <3>1 DEF Resumable
    <3> QED BY <3>1, <3>2 DEF Highest
  <2>2. {"allocate", "point", "stage", "list"} \subseteq Inside
    BY DEF Inside, Late
  <2> QED BY <2>1, <2>2 DEF SelectOK
<1>2. CASE q = p
  BY <1>2 DEF SelectOK, Highest, Resumable, Moves, Quiet, Restage, Cleans, Allocates, Extends, Promotes, Late
<1> QED BY <1>1, <1>2

(* Nothing follows a success: who promotes has seen that there is none. *)
LEMMA OneSuccessKept ==
    ASSUME Types, DoneOK, StagedOK, OneSuccess, NEW p \in Procs, Moves(p)
    PROVE  OneSuccess'
<1>1. CASE UNCHANGED finals
  BY <1>1 DEF OneSuccess
<1>2. CASE finals' = Append(finals, staging) /\ pc[p] = "promote"
  <2>1. ~Succeeded
    BY <1>2 DEF DoneOK, Inside, Late
  <2>2. finals \in Seq(Attempt) /\ staging \in Attempt
    BY <1>2, Staged DEF Late, Types, AttemptTypes
  <2>3. /\ Len(finals') = Len(finals) + 1 /\ DOMAIN finals' = 1 .. Len(finals) + 1
        /\ \A i \in 1 .. Len(finals) : finals'[i] = finals[i]
    BY <1>2, <2>2
  <2> QED BY <2>1, <2>2, <2>3 DEF OneSuccess, Succeeded
<1> QED BY <1>1, <1>2 DEF Moves, Quiet, Restage, Cleans, Allocates, Extends, Promotes

-----------------------------------------------------------------------------
(* The ledgers *)

LEMMA ChainTypes ==
    ASSUME AttemptTypes
    PROVE  /\ Len(finals) \in Nat
           /\ \A i \in 1 .. Len(finals) : finals[i] \in Attempt /\ finals[i].ledgers \in Chains
           /\ \A i \in 1 .. Len(finals) : Len(finals[i].ledgers) \in Nat
<1>1. \A i \in 1 .. Len(finals) : finals[i] \in Attempt
  BY DEF AttemptTypes
<1> QED BY <1>1 DEF AttemptTypes, Attempt, Chains

(* What is sealed bounds what is resumed, and each is a part of the other.    *)
LEMMA ResumeCovers ==
    ASSUME Types, FinalsOK, DoneOK, SelectOK, NEW p \in Procs, pc[p] = "allocate"
    PROVE  /\ \A i \in 1 .. Len(finals) :
                  Len(finals[i].ledgers) <= Len(ResumeLedger) /\ Agree(finals[i].ledgers, ResumeLedger)
           /\ Made(ResumeLedger, fresh)
<1> USE ChainTypes DEF Types
<1>1. CASE kind = "optimize"
  <2>1. ResumeLedger \in Highest
    BY <1>1 DEF ResumeLedger, SelectOK
  <2>2. ~Succeeded
    BY DEF DoneOK, Inside
  <2>3. \A i \in 1 .. Len(finals) : finals[i].ledgers \in Resumable
    BY <2>2 DEF Resumable, Succeeded, AttemptTypes
  <2>4. \A i \in 1 .. Len(finals) : Len(finals[i].ledgers) <= Len(ResumeLedger)
    BY <2>1, <2>3 DEF Highest
  <2>5. CASE ResumeLedger = <<>>
    <3>1. Len(ResumeLedger) = 0
      BY <2>5
    <3> QED BY <2>4, <3>1 DEF Agree, Made
  <2>6. CASE ResumeLedger \in Resumable
    <3>1. PICK j \in 1 .. Len(finals) : ResumeLedger = finals[j].ledgers
      BY <2>6 DEF Resumable, AttemptTypes
    <3> QED BY <2>4, <3>1 DEF FinalsOK
  <2> QED BY <2>1, <2>5, <2>6 DEF Highest
<1>2. CASE kind # "optimize"
  <2>1. ResumeLedger = <<>> /\ Len(ResumeLedger) = 0
    BY <1>2 DEF ResumeLedger
  <2>2. \A i \in 1 .. Len(finals) : finals[i].ledgers = <<>> /\ Len(finals[i].ledgers) = 0
    BY <1>2 DEF FinalsOK
  <2> QED BY <2>1, <2>2 DEF Agree, Made
<1> QED BY <1>1, <1>2

LEMMA MadeMonotone ==
    ASSUME NEW s \in Chains, NEW a \in Int, NEW b \in Int, a <= b, Made(s, a)
    PROVE  Made(s, b)
<1>1. \A g \in 1 .. Len(s) : s[g] \in Nat
  BY DEF Chains, Ids
<1> QED BY <1>1 DEF Made

(* A chain grows by a ledger: it agrees with what it is compared to if the    *)
(* new ledger does.                                                           *)
LEMMA Grows ==
    ASSUME NEW s \in Chains, NEW maker \in Ids, NEW bound \in Nat, NEW t \in Chains,
           Agree(s, t), Made(s, bound), maker <= bound,
           Len(s) + 1 <= Len(t) => maker = t[Len(s) + 1]
    PROVE  /\ Agree(Append(s, maker), t) /\ Made(Append(s, maker), bound)
           /\ Len(Append(s, maker)) = Len(s) + 1 /\ Append(s, maker)[Len(s) + 1] = maker
<1>1. /\ Len(s) \in Nat /\ Len(t) \in Nat /\ Len(Append(s, maker)) = Len(s) + 1
      /\ Append(s, maker)[Len(s) + 1] = maker
      /\ \A g \in 1 .. Len(s) : Append(s, maker)[g] = s[g]
  BY DEF Chains
<1>2. Agree(Append(s, maker), t)
  <2> SUFFICES ASSUME NEW g \in 1 .. Len(s) + 1, g <= Len(t)
               PROVE  Append(s, maker)[g] = t[g]
    BY <1>1 DEF Agree
  <2>1. CASE g = Len(s) + 1
    BY <1>1, <2>1
  <2>2. CASE g \in 1 .. Len(s)
    BY <1>1, <2>2 DEF Agree
  <2> QED BY <1>1, <2>1, <2>2
<1>3. Made(Append(s, maker), bound)
  <2> SUFFICES ASSUME NEW g \in 1 .. Len(s) + 1
               PROVE  Append(s, maker)[g] <= bound
    BY <1>1 DEF Made
  <2>1. CASE g = Len(s) + 1
    BY <1>1, <2>1
  <2>2. CASE g \in 1 .. Len(s)
    BY <1>1, <2>2 DEF Made
  <2> QED BY <1>1, <2>1, <2>2
<1> QED BY <1>1, <1>2, <1>3

(* A ledger that a step adds to the attempt is the one resumed, or, above      *)
(* every chain that is resumed, the attempt's own.                             *)
Added(p) ==
    /\ staging.ledgers \in Chains /\ staging.resume \in Chains
    /\ \E maker \in Ids :
          /\ staging'.ledgers = Append(staging.ledgers, maker) /\ maker <= fresh
          /\ \/ /\ Len(staging.ledgers) + 1 <= Len(staging.resume) /\ maker < fresh
                /\ maker = staging.resume[Len(staging.ledgers) + 1] /\ child' = "replay"
             \/ Len(staging.ledgers) >= Len(staging.resume) /\ maker = fresh

LEMMA LedgerAdded ==
    ASSUME Types, StagedOK, LedgerOK, NEW p \in Procs, Extends(p)
    PROVE  Added(p) \/ (Len(staging.resume) <= Len(staging.ledgers) /\ staging' = staging)
<1>1. staging \in Attempt /\ staging.id = fresh /\ fresh \in Nat
  BY Staged DEF Extends, Late, Types, ProcessTypes
<1>2. staging.ledgers \in Chains /\ staging.resume \in Chains /\ fresh \in Ids
      /\ Len(staging.ledgers) \in Nat /\ Len(staging.resume) \in Nat
  BY <1>1 DEF Attempt, Chains
<1>3. WorkOK /\ EvolveOK /\ kind = "optimize"
  BY DEF Extends, LedgerOK, Late
<1>4. CASE /\ Len(staging.ledgers) < Len(staging.resume) /\ child' = "replay"
           /\ staging' = [staging EXCEPT !.ledgers = Append(@, staging.resume[Len(staging.ledgers) + 1]),
                                         !.cut = FALSE]
  <2> DEFINE maker == staging.resume[Len(staging.ledgers) + 1]
  <2>1. maker \in Ids
    BY <1>2, <1>4 DEF Chains
  <2>2. maker <= fresh - 1
    BY <1>2, <1>3, <1>4 DEF WorkOK, Made
  <2>3. staging'.ledgers = Append(staging.ledgers, maker)
    BY <1>1, <1>4 DEF Attempt
  <2>4. maker < fresh
    BY <1>1, <2>1, <2>2 DEF Ids
  <2>5. Len(staging.ledgers) + 1 <= Len(staging.resume)
    BY <1>2, <1>4
  <2> HIDE DEF maker
  <2>6. maker <= fresh
    BY <1>1, <2>1, <2>4 DEF Ids
  <2> QED BY <1>2, <1>4, <2>1, <2>3, <2>4, <2>5, <2>6 DEF Added, maker
<1>5. CASE /\ child = "evolve"
           /\ staging' = [staging EXCEPT !.ledgers = Append(@, staging.id), !.cut = FALSE]
  <2>1. Len(staging.ledgers) >= Len(staging.resume)
    BY <1>2, <1>3, <1>5 DEF EvolveOK
  <2>2. staging'.ledgers = Append(staging.ledgers, fresh)
    BY <1>1, <1>5 DEF Attempt
  <2> QED BY <1>1, <1>2, <2>1, <2>2 DEF Added
<1> QED BY <1>4, <1>5 DEF Extends

LEMMA FinalsKept ==
    ASSUME Types, StagedOK, LedgerOK, NEW p \in Procs, Moves(p)
    PROVE  FinalsOK'
<1>1. fresh' \in Nat /\ fresh <= fresh' /\ kind' = kind
  BY DEF Types, ProcessTypes, Moves, Quiet, Restage, Cleans, Allocates, Extends, Promotes
<1>2. CASE finals' = finals
  <2>1. \A i \in 1 .. Len(finals) : Made(finals[i].ledgers, fresh')
    BY <1>1, ChainTypes, MadeMonotone DEF LedgerOK, FinalsOK, Types, ProcessTypes
  <2> QED BY <1>1, <1>2, <2>1 DEF LedgerOK, FinalsOK
<1>3. CASE finals' = Append(finals, staging) /\ fresh' = fresh /\ pc[p] = "promote"
  <2>1. staging \in Attempt /\ WorkOK /\ FinalsOK
    BY <1>3, Staged DEF Late, Types, LedgerOK
  <2>2. finals \in Seq(Attempt) /\ staging.ledgers \in Chains /\ staging.resume \in Chains
    BY <2>1 DEF Attempt, Types, AttemptTypes
  <2>3. /\ Len(finals) \in Nat /\ Len(finals') = Len(finals) + 1 /\ finals'[Len(finals) + 1] = staging
        /\ \A i \in 1 .. Len(finals) : finals'[i] = finals[i]
    BY <1>3, <2>1, <2>2
  <2>4. \A i \in 1 .. Len(finals) :
            Agree(finals[i].ledgers, staging.ledgers) /\ Agree(staging.ledgers, finals[i].ledgers)
    <3> TAKE i \in 1 .. Len(finals)
    <3> DEFINE chain == finals[i].ledgers
    <3>1. /\ Len(chain) <= Len(staging.resume) /\ Agree(chain, staging.resume)
          /\ Agree(staging.ledgers, staging.resume)
      BY <2>1 DEF WorkOK
    <3>2. Len(chain) \in Nat /\ Len(staging.ledgers) \in Nat /\ Len(staging.resume) \in Nat
      BY <2>2, ChainTypes DEF Chains, Types
    <3> HIDE DEF chain
    <3>3. \A g \in Nat \ {0} :
              g <= Len(chain) /\ g <= Len(staging.ledgers) => chain[g] = staging.ledgers[g]
      <4> TAKE g \in Nat \ {0}
      <4> HAVE g <= Len(chain) /\ g <= Len(staging.ledgers)
      <4>1. g \in 1 .. Len(chain) /\ g \in 1 .. Len(staging.ledgers) /\ g <= Len(staging.resume)
        BY <3>1, <3>2
      <4>2. chain[g] = staging.resume[g] /\ staging.ledgers[g] = staging.resume[g]
        BY <3>1, <4>1 DEF Agree
      <4> QED BY <4>2
    <3>4. Agree(chain, staging.ledgers) /\ Agree(staging.ledgers, chain)
      BY <3>2, <3>3 DEF Agree
    <3> QED BY <3>4 DEF chain
  <2>5. \A i \in 1 .. Len(finals') : i \in 1 .. Len(finals) \/ i = Len(finals) + 1
    BY <2>3
  <2>6. \A i \in 1 .. Len(finals') : Made(finals'[i].ledgers, fresh')
    BY <1>3, <2>1, <2>3, <2>5 DEF FinalsOK, WorkOK
  <2>7. Agree(staging.ledgers, staging.ledgers)
    BY DEF Agree
  <2>8. \A i, j \in 1 .. Len(finals') : Agree(finals'[i].ledgers, finals'[j].ledgers)
    <3> TAKE i, j \in 1 .. Len(finals')
    <3>1. CASE i \in 1 .. Len(finals) /\ j \in 1 .. Len(finals)
      BY <2>1, <2>3, <3>1 DEF FinalsOK
    <3>2. CASE i = Len(finals) + 1 /\ j \in 1 .. Len(finals)
      BY <2>3, <2>4, <3>2
    <3>3. CASE i \in 1 .. Len(finals) /\ j = Len(finals) + 1
      BY <2>3, <2>4, <3>3
    <3>4. CASE i = Len(finals) + 1 /\ j = Len(finals) + 1
      BY <2>3, <2>7, <3>4
    <3> QED BY <2>5, <3>1, <3>2, <3>3, <3>4
  <2>9. kind # "optimize" => \A i \in 1 .. Len(finals') : finals'[i].ledgers = <<>>
    BY <2>1, <2>3, <2>5 DEF FinalsOK, WorkOK
  <2> QED BY <1>1, <2>6, <2>8, <2>9 DEF FinalsOK
<1> QED BY <1>2, <1>3 DEF Moves, Quiet, Restage, Cleans, Allocates, Extends, Promotes

(* WorkOK, but for the process that steps. *)
LEMMA WorkKept ==
    ASSUME Types, LockOK, StagedOK, DoneOK, SelectOK, LedgerOK, NEW p \in Procs, Moves(p), pc'[p] \in Late
    PROVE  WorkOK'
<1> USE DEF Types
<1>1. CASE Quiet(p)
  <2>1. WorkOK /\ UNCHANGED <<kind, finals, staging, fresh>>
    BY <1>1 DEF Quiet, LedgerOK, Moves
  <2> QED BY <2>1 DEF WorkOK
<1>2. CASE Restage(p)
  <2>1. WorkOK /\ UNCHANGED <<kind, finals, fresh>> /\ staging'.resume = staging.resume
    BY <1>2 DEF Restage, LedgerOK, Moves
  <2>2. CASE staging'.ledgers = staging.ledgers
    BY <2>1, <2>2 DEF WorkOK
  <2>3. CASE staging'.ledgers = <<>>
    <3>1. Agree(<<>>, staging.resume) /\ Made(<<>>, fresh)
      BY DEF Agree, Made
    <3> QED BY <2>1, <2>3, <3>1 DEF WorkOK
  <2> QED BY <1>2, <2>2, <2>3 DEF Restage
<1>3. CASE Cleans(p)
  BY <1>3 DEF Cleans, Late
<1>4. CASE Allocates(p)
  <2>1. /\ staging' = NewAttempt(fresh + 1, ResumeLedger) /\ fresh' = fresh + 1
        /\ UNCHANGED <<kind, finals>> /\ pc[p] = "allocate"
    BY <1>4 DEF Allocates, Late
  <2>2. staging'.resume = ResumeLedger /\ staging'.ledgers = <<>>
    BY <2>1 DEF NewAttempt
  <2>3. /\ \A i \in 1 .. Len(finals) :
               Len(finals[i].ledgers) <= Len(ResumeLedger) /\ Agree(finals[i].ledgers, ResumeLedger)
        /\ Made(ResumeLedger, fresh)
    BY <2>1, ResumeCovers DEF LedgerOK
  <2>4. Agree(<<>>, ResumeLedger) /\ Made(<<>>, fresh') /\ fresh' - 1 = fresh
    BY <2>1 DEF Agree, Made, ProcessTypes
  <2> QED BY <2>1, <2>2, <2>3, <2>4 DEF WorkOK
<1>5. CASE Extends(p)
  <2>1. /\ WorkOK /\ UNCHANGED <<kind, finals, fresh>> /\ staging'.resume = staging.resume
        /\ kind = "optimize" /\ fresh \in Nat
    BY <1>5, ExtendedOnly DEF Extends, LedgerOK, Late, ProcessTypes
  <2>2. CASE staging' = staging
    BY <2>1, <2>2 DEF WorkOK
  <2>3. CASE Added(p)
    <3>1. PICK maker \in Ids :
              /\ staging'.ledgers = Append(staging.ledgers, maker) /\ maker <= fresh
              /\ Len(staging.ledgers) + 1 <= Len(staging.resume) => maker = staging.resume[Len(staging.ledgers) + 1]
      BY <2>3 DEF Added, Chains
    <3>2. staging.ledgers \in Chains /\ staging.resume \in Chains
      BY <2>3 DEF Added
    <3>3. Agree(staging'.ledgers, staging.resume) /\ Made(staging'.ledgers, fresh)
      BY <2>1, <3>1, <3>2, Grows DEF WorkOK
    <3> QED BY <2>1, <3>3 DEF WorkOK
  <2> QED BY <1>5, <2>2, <2>3, LedgerAdded
<1>6. CASE Promotes(p)
  BY <1>6 DEF Promotes, Late
<1> QED BY <1>1, <1>2, <1>3, <1>4, <1>5, <1>6 DEF Moves

(* The child evolves only when every ledger it resumes is replayed. *)
LEMMA EvolveKept ==
    ASSUME Types, LockOK, StagedOK, SelectOK, LedgerOK, NEW p \in Procs, Moves(p), pc'[p] = "run"
    PROVE  EvolveOK'
<1> SUFFICES ASSUME child' = "evolve", kind' = "optimize"
             PROVE  Len(staging'.resume) <= Len(staging'.ledgers)
  BY DEF EvolveOK
<1> USE DEF Types
<1>0. kind = "optimize"
  BY DEF Moves
<1>1. CASE Quiet(p)
  BY <1>0, <1>1 DEF Quiet, LedgerOK, EvolveOK, SelectOK
<1>2. CASE Restage(p)
  BY <1>0, <1>2 DEF Restage, LedgerOK, EvolveOK
<1>3. CASE Cleans(p) \/ Allocates(p) \/ Promotes(p)
  BY <1>3 DEF Cleans, Allocates, Promotes
<1>4. CASE Extends(p)
  <2>1. CASE staging' = staging /\ Len(staging.resume) <= Len(staging.ledgers)
    BY <2>1
  <2>2. CASE Added(p)
    <3>1. PICK maker \in Ids :
              /\ staging'.ledgers = Append(staging.ledgers, maker)
              /\ Len(staging.ledgers) >= Len(staging.resume)
      BY <2>2 DEF Added
    <3>2. staging'.resume = staging.resume
      BY <1>4, ExtendedOnly
    <3>3. Len(Append(staging.ledgers, maker)) = Len(staging.ledgers) + 1
          /\ Len(staging.ledgers) \in Nat /\ Len(staging.resume) \in Nat
      BY <2>2 DEF Added, Chains
    <3> QED BY <3>1, <3>2, <3>3
  <2> QED BY <1>4, <2>1, <2>2, LedgerAdded
<1> QED BY <1>1, <1>2, <1>3, <1>4 DEF Moves

LEMMA LedgerKept ==
    ASSUME Types, LockOK, StagedOK, DoneOK, SelectOK, LedgerOK, NEW p \in Procs, Moves(p)
    PROVE  LedgerOK'
<1>1. FinalsOK'
  BY FinalsKept
<1>2. ASSUME NEW q \in Procs, pc'[q] \in Late
      PROVE  WorkOK'
  <2>1. CASE q = p
    BY <1>2, <2>1, WorkKept
  <2>2. CASE q # p
    <3>1. UNCHANGED <<kind, finals, staging, fresh>> /\ pc[q] \in Late
      BY <1>2, <2>2, Elsewhere DEF Inside
    <3> QED BY <3>1 DEF LedgerOK, WorkOK
  <2> QED BY <2>1, <2>2
<1>3. ASSUME NEW q \in Procs, pc'[q] = "run"
      PROVE  EvolveOK'
  <2>1. CASE q = p
    BY <1>3, <2>1, EvolveKept
  <2>2. CASE q # p
    <3>1. /\ UNCHANGED <<kind, finals, staging, fresh>> /\ pc[q] = "run"
          /\ child' = "evolve" => child = "evolve" \/ kind # "optimize"
      BY <1>3, <2>2, Elsewhere DEF Inside, Late
    <3> QED BY <3>1 DEF LedgerOK, EvolveOK
  <2> QED BY <2>1, <2>2
<1> QED BY <1>1, <1>2, <1>3 DEF LedgerOK

-----------------------------------------------------------------------------
(* The invariant *)

LEMMA InvInit ==
    ASSUME Init
    PROVE  Inv
<1> USE DEF Init
<1>1. Types
  <2>1. request \in [dir : BOOLEAN, json : BOOLEAN, anchor : BOOLEAN,
                     root : {"none", "bare", "indexed"}, entries : Nat, points : Nat, stage : BOOLEAN]
    BY SMT DEF EmptyRequest
  <2>2. FileTypes
    BY <2>1 DEF FileTypes
  <2>3. AttemptTypes
    BY DEF AttemptTypes
  <2>4. outcome \in [Procs -> Verdicts \cup {"reused", "integrity", "raised", "exists", "stopped"}]
    BY DEF Verdicts
  <2>5. calls \in 0 .. MaxCalls
    BY LeafAssumption
  <2>6. ProcessTypes
    BY <2>4, <2>5 DEF ProcessTypes
  <2> QED BY <2>2, <2>3, <2>6 DEF Types
<1>2. LockOK /\ StagedOK /\ DoneOK /\ SelectOK
  BY DEF LockOK, StagedOK, DoneOK, SelectOK, Inside, Late
<1>3. OneSuccess
  BY DEF OneSuccess
<1>4. LedgerOK
  BY DEF LedgerOK, FinalsOK, Late
<1> QED BY <1>1, <1>2, <1>3, <1>4 DEF Inv

LEMMA InvActs ==
    ASSUME Inv, NEW p \in Procs, Acts(p)
    PROVE  Inv'
<1> USE DEF Inv
<1>1. Moves(p)
  BY StepMoves DEF Types
<1>2. Types'
  BY <1>1, FileTypesKept, ProcessTypesKept, AttemptTypesKept DEF Types
<1>3. LockOK'
  BY <1>1, LockKept DEF Moves, Types
<1>4. StagedOK' /\ DoneOK' /\ SelectOK' /\ OneSuccess' /\ LedgerOK'
  BY <1>1, StagedKept, DoneKept, SelectKept, OneSuccessKept, LedgerKept
<1> QED BY <1>2, <1>3, <1>4

(* Orphans touch no attempt, and stuttering nothing. *)
LEMMA InvKept ==
    ASSUME Inv, UNCHANGED <<kind, request, baseline, finals, staging, owner, pc, child, outcome, fresh, calls>>,
           stray' \in BOOLEAN, orphan' \in BOOLEAN
    PROVE  Inv'
<1> USE DEF Inv
<1>1. Types'
  BY DEF Types, FileTypes, AttemptTypes, ProcessTypes
<1>2. Highest' = Highest /\ Succeeded' = Succeeded
  BY DEF Highest, Resumable, Succeeded
<1>3. LockOK' /\ StagedOK'
  BY DEF LockOK, StagedOK
<1>4. DoneOK' /\ SelectOK'
  BY <1>2 DEF DoneOK, SelectOK
<1>5. OneSuccess' /\ LedgerOK'
  BY DEF OneSuccess, LedgerOK, FinalsOK, WorkOK, EvolveOK
<1> QED BY <1>1, <1>3, <1>4, <1>5

LEMMA InvNext ==
    ASSUME Inv, [Next]_vars
    PROVE  Inv'
<1>1. ASSUME NEW p \in Procs, Prologue(p) \/ Work(p) \/ Epilogue(p)
      PROVE  Inv'
  BY <1>1, InvActs DEF Acts
<1>2. CASE OrphanWrites
  BY <1>2, InvKept DEF OrphanWrites, Inv, Types, ProcessTypes
<1>3. CASE OrphanEnds
  BY <1>3, InvKept DEF OrphanEnds, diskVars, Inv, Types, FileTypes
<1>4. CASE UNCHANGED vars
  BY <1>4, InvKept DEF vars, diskVars, Inv, Types, FileTypes, ProcessTypes
<1> QED BY <1>1, <1>2, <1>3, <1>4 DEF Next

(* The invariant holds in every behaviour. *)
THEOREM InvAlways == Spec => []Inv
<1>1. Init => Inv
  BY InvInit
<1>2. Inv /\ [Next]_vars => Inv'
  BY InvNext
<1> QED BY <1>1, <1>2, PTL DEF Spec

-----------------------------------------------------------------------------
(* What follows *)

(* Files, attempts and processes have their types; whoever is past the lock   *)
(* owns it, and past the allocation works on the newest attempt.              *)
THEOREM LeafTypeCorrect == Spec => []TypeOK
<1>1. Inv => TypeOK
  <2> SUFFICES ASSUME Inv
               PROVE  OwnerTypes
    BY DEF Inv, Types, TypeOK
  <2>1. \A p \in Procs : pc[p] \in Labels \cup {"idle"}
    BY DEF Inv, Types, ProcessTypes
  <2>2. \A p \in Procs : pc[p] \notin {"idle", "look", "prepare", "wait"} => pc[p] \in Inside
    BY <2>1 DEF Labels, Inside, Late
  <2> QED BY <2>2 DEF Inv, LockOK, StagedOK, OwnerTypes, Late
<1> QED BY <1>1, InvAlways, PTL

(* A request has at most one success, and no attempt comes after it: the look  *)
(* that counts is the one under the exclusive lock (execute_prepared).         *)
THEOREM SuccessOnce == Spec => []OneSuccess
<1>1. Inv => OneSuccess
  BY DEF Inv
<1> QED BY <1>1, InvAlways, PTL

(* Of two attempts, the one that retains fewer ledgers retains the first ones  *)
(* of the other: no generation ever has two identities.                        *)
THEOREM LedgersNeverDisagree == Spec => []LedgersAgree
<1>1. Inv => LedgersAgree
  <2> SUFFICES ASSUME Inv, NEW i \in DOMAIN finals, NEW j \in DOMAIN finals,
                      Len(finals[i].ledgers) <= Len(finals[j].ledgers)
               PROVE  IsPrefix(finals[i].ledgers, finals[j].ledgers)
    BY DEF LedgersAgree
  <2> DEFINE s == finals[i].ledgers
             t == finals[j].ledgers
  <2>1. i \in 1 .. Len(finals) /\ j \in 1 .. Len(finals)
    BY DEF Inv, Types, AttemptTypes
  <2>2. s \in Chains /\ t \in Chains /\ Agree(s, t) /\ Len(s) <= Len(t)
    BY <2>1, ChainTypes DEF Inv, Types, LedgerOK, FinalsOK
  <2> HIDE DEF s, t
  <2>3. \A g \in 1 .. Len(s) : s[g] = t[g]
    BY <2>2 DEF Agree, Chains
  <2>4. /\ SubSeq(s, 1, Len(s)) = s /\ SubSeq(t, 1, Len(s)) \in Seq(Ids)
        /\ Len(SubSeq(t, 1, Len(s))) = Len(s) /\ s \in Seq(Ids)
        /\ \A g \in 1 .. Len(s) : SubSeq(t, 1, Len(s))[g] = t[g]
    BY <2>2 DEF Chains
  <2>5. SubSeq(t, 1, Len(s)) = s
    BY <2>3, <2>4, SeqEqual
  <2>6. IsPrefix(s, t)
    BY <2>2, <2>4, <2>5 DEF IsPrefix
  <2> QED BY <2>6 DEF s, t
<1> QED BY <1>1, InvAlways, PTL

(* No child adds a ledger of its own to a generation that any attempt sealed. *)
THEOREM NothingTwice == Spec => NoGenerationTwice
<1> DEFINE Fresh ==
        \A i \in DOMAIN finals :
           /\ staging # NoAttempt /\ staging' # NoAttempt
           /\ Len(staging'.ledgers) > Len(staging.ledgers)
           /\ staging'.ledgers[Len(staging'.ledgers)] = staging.id
           => Len(finals[i].ledgers) < Len(staging'.ledgers)
<1>1. ASSUME Inv, [Next]_vars
      PROVE  Fresh
  <2> USE <1>1 DEF Inv
  <2> SUFFICES ASSUME NEW i \in DOMAIN finals, staging # NoAttempt, staging' # NoAttempt,
                      Len(staging'.ledgers) > Len(staging.ledgers),
                      staging'.ledgers[Len(staging'.ledgers)] = staging.id
               PROVE  Len(finals[i].ledgers) < Len(staging'.ledgers)
    OBVIOUS
  <2>0. staging \in Attempt /\ Len(staging.ledgers) \in Nat /\ Len(<<>>) = 0
    BY DEF Types, AttemptTypes, Attempt, Chains
  <2>1. staging' # staging
    BY <2>0
  <2>2. PICK p \in Procs : Acts(p)
    BY <2>1 DEF Next, Acts, OrphanWrites, OrphanEnds, vars, diskVars
  <2>3. Moves(p)
    BY <2>2, StepMoves DEF Types
  <2>4. CASE Extends(p)
    <3>1. Added(p) /\ WorkOK /\ staging.id = fresh /\ fresh \in Nat
      BY <2>1, <2>4, LedgerAdded, Staged DEF Extends, LedgerOK, Late, Types, ProcessTypes
    <3>2. PICK maker \in Ids :
              /\ staging'.ledgers = Append(staging.ledgers, maker)
              /\ maker < fresh \/ Len(staging.ledgers) >= Len(staging.resume)
      BY <3>1 DEF Added
    <3>3. /\ Len(staging'.ledgers) = Len(staging.ledgers) + 1
          /\ staging'.ledgers[Len(staging.ledgers) + 1] = maker
          /\ Len(staging.resume) \in Nat
      BY <3>1, <3>2 DEF Added, Chains
    <3>4. maker = fresh
      BY <3>1, <3>3
    <3>5. i \in 1 .. Len(finals) /\ Len(finals[i].ledgers) \in Nat
      BY ChainTypes DEF Types, AttemptTypes
    <3>6. Len(finals[i].ledgers) <= Len(staging.resume)
      BY <3>1, <3>5 DEF WorkOK
    <3> QED BY <2>0, <3>1, <3>2, <3>3, <3>4, <3>5, <3>6
  <2>5. CASE Quiet(p) \/ Cleans(p) \/ Promotes(p)
    BY <2>1, <2>5 DEF Quiet, Cleans, Promotes
  <2>6. CASE Restage(p)
    BY <2>0, <2>6 DEF Restage
  <2>7. CASE Allocates(p)
    BY <2>0, <2>1, <2>7 DEF Allocates, NewAttempt
  <2> QED BY <2>3, <2>4, <2>5, <2>6, <2>7 DEF Moves
<1>2. Inv /\ [Next]_vars => [Fresh]_vars
  BY <1>1
<1> QED BY <1>2, InvAlways, PTL DEF Spec, NoGenerationTwice

-----------------------------------------------------------------------------
(* The history that can be read *)

(* Verified, but for the points that a reader finds; who evaluated a candidate *)
(* of the population has a baseline.                                           *)
Sound(attempt, prior) ==
    /\ VerifiedApart(attempt, prior)
    /\ attempt.verdict = "population" => baseline # 0

Before(i) == SubSeq(finals, 1, i - 1)

SoundOK == \A i \in 1 .. Len(finals) : Sound(finals[i], Before(i))

(* Some chain is the longest. *)
Tops(i) == i \in 1 .. Len(finals) /\ \A j \in 1 .. Len(finals) : Len(finals[j].ledgers) <= Len(finals[i].ledgers)

LongestOK ==
    /\ Highest # {} /\ (finals # <<>> => \E i \in 1 .. Len(finals) : Tops(i))
    /\ \A i \in 1 .. Len(finals) : Len(finals[i].ledgers) <= Size

(* A point is in place before it is listed, and only for that long. *)
PointAt(p) ==
    /\ pc[p] \in {"allocate", "launch", "seal", "run", "point", "stage"} /\ kind = "sweep" =>
           request.points = request.entries
    /\ pc[p] \in {"point", "stage", "list"} => request.entries < Size
    /\ pc[p] \in {"stage", "list"} => request.root = "indexed"
    /\ pc[p] = "list" => request.points = request.entries + 1
    /\ pc[p] \notin {"idle", "look", "prepare", "wait", "recheck", "ensure", "json"} => request.json

(* The files of the request; nothing is sealed before request.json is there.  *)
PointsOK ==
    /\ request.points \in {request.entries, request.entries + 1}
    /\ request.root = "none" => request.points = request.entries
    /\ request.entries <= Size
    /\ request.json \/ NothingSealed
    /\ \A p \in Procs : PointAt(p)

(* The attempt knows the baseline, or has published it. *)
Bound == IF baseline = 0 THEN ~staging.pair ELSE staging.pair \/ baseline = staging.id

Resumes ==
    /\ staging.resume = <<>> \/ \E i \in 1 .. Len(finals) : staging.resume = finals[i].ledgers
    /\ Len(staging.resume) <= Size

OwnBeyond == \A g \in 1 .. Len(staging.ledgers) : g > Len(staging.resume) => staging.ledgers[g] = staging.id

Room ==
    /\ staging.ledgers # <<>> => baseline # 0
    /\ Len(staging.ledgers) <= Size
    /\ staging.cut => kind = "optimize" /\ Len(staging.ledgers) < Size

(* What a receipt is written for. *)
Sealable ==
    /\ ~staging.cut
    /\ staging.points <= request.entries
    /\ staging.verdict # "success" => ~staging.parts
    /\ staging.verdict = "success" => Complete(staging)
    /\ staging.verdict = "population" => baseline # 0

ChildAt(p) ==
    /\ staging.verdict = "population" => baseline # 0
    /\ staging.cut => pc[p] \in {"run", "fail"}
    /\ pc[p] = "run" /\ staging.cut => child \in {"replay", "evolve"}
    /\ pc[p] = "run" /\ kind = "optimize" /\ child \in {"replay", "evolve"} => baseline # 0
    /\ pc[p] = "promote" => Sealable

AttemptAt(p) == Bound /\ Resumes /\ OwnBeyond /\ Room /\ ChildAt(p)

AttemptOK == \A p \in Procs : pc[p] \in Late => AttemptAt(p)

ReadInv == Inv /\ SoundOK /\ LongestOK /\ PointsOK /\ AttemptOK

-----------------------------------------------------------------------------
(* What a step publishes *)

Publication(p) ==
    \/ UNCHANGED <<baseline, finals>> /\ request'.entries = request.entries
    \/ /\ pc[p] = "run" /\ kind = "optimize" /\ baseline' = (IF baseline = 0 THEN staging.id ELSE baseline)
       /\ UNCHANGED <<request, finals, staging>>
    \/ pc[p] = "list" /\ UNCHANGED <<baseline, finals>> /\ request'.entries = request.entries + 1
    \/ /\ pc[p] = "promote" /\ Verified(staging, finals)
       /\ finals' = Append(finals, staging) /\ UNCHANGED <<request, baseline>>

(* The baseline, a point, an attempt, or nothing. *)
LEMMA StepPublishes ==
    ASSUME FileTypes, NEW p \in Procs, Acts(p)
    PROVE  Publication(p)
<1>1. CASE Call(p)
  BY <1>1 DEF Call, Goto, diskVars, Publication, FileTypes
<1>2. CASE Look(p)
  BY <1>2 DEF Look, End, Goto, Release, diskVars, Publication, FileTypes
<1>3. CASE PrepareRuntime(p)
  BY <1>3 DEF PrepareRuntime, Goto, diskVars, Publication, FileTypes
<1>4. CASE Lock(p)
  BY <1>4 DEF Lock, Goto, CleanStaging, Publication, FileTypes
<1>5. CASE CleanupRaises(p)
  BY <1>5 DEF CleanupRaises, End, Goto, Release, diskVars, Publication, FileTypes
<1>6. CASE Recheck(p)
  BY <1>6 DEF Recheck, Holds, End, Goto, Release, Step, diskVars, Publication, FileTypes
<1>7. CASE Ensure(p)
  BY <1>7 DEF Ensure, Step, Holds, Goto, diskVars, End, Release, Publication, FileTypes
<1>8. CASE WriteRequest(p)
  BY <1>8 DEF WriteRequest, Write, Step, Holds, Goto, Publication, FileTypes
<1>9. CASE WriteAnchor(p)
  BY <1>9 DEF WriteAnchor, Write, Step, Holds, Goto, Publication, FileTypes
<1>10. CASE MakePointRoot(p)
  BY <1>10 DEF MakePointRoot, Write, Step, Holds, Goto, Publication, FileTypes
<1>11. CASE WriteFirstIndex(p)
  BY <1>11 DEF WriteFirstIndex, Write, Step, Holds, Goto, Publication, FileTypes
<1>12. CASE Select(p)
  BY <1>12 DEF Select, diskVars, Step, Holds, Goto, End, Release, Publication, FileTypes
<1>13. CASE Allocate(p)
  BY <1>13 DEF Allocate, Holds, End, Goto, Release, diskVars, Publication, FileTypes
<1>14. CASE Launch(p)
  BY <1>14 DEF Launch, Step, Holds, Goto, diskVars, Publication, FileTypes
<1>15. CASE LaunchFails(p)
  BY <1>15 DEF LaunchFails, Step, Holds, Goto, diskVars, Publication, FileTypes
<1>16. CASE PublishBaseline(p)
  BY <1>16 DEF PublishBaseline, Runs, Holds, ChildGoes, Publication, FileTypes
<1>17. CASE LoadBaseline(p)
  BY <1>17 DEF LoadBaseline, Runs, Holds, diskVars, ChildGoes, Publication, FileTypes
<1>18. CASE ReplayRefused(p)
  BY <1>18 DEF ReplayRefused, Runs, Holds, Step, Goto, Stage, Publication, FileTypes
<1>19. CASE OpenReplayed(p)
  BY <1>19 DEF OpenReplayed, Runs, Holds, Stage, ChildGoes, diskVars, Publication, FileTypes
<1>20. CASE OpenLedger(p)
  BY <1>20 DEF OpenLedger, Runs, Holds, Stage, ChildGoes, Publication, FileTypes
<1>21. CASE CloseLedger(p)
  BY <1>21 DEF CloseLedger, Runs, Holds, Stage, ChildGoes, Publication, FileTypes
<1>22. CASE StartSweep(p)
  BY <1>22 DEF StartSweep, Runs, Holds, Stage, ChildGoes, Publication, FileTypes
<1>23. CASE ComputePoint(p)
  BY <1>23 DEF ComputePoint, Runs, Holds, Step, Goto, diskVars, Publication, FileTypes
<1>24. CASE RenewPointRoot(p)
  BY <1>24 DEF RenewPointRoot, Write, Step, Holds, Goto, Publication, FileTypes
<1>25. CASE StagePoint(p)
  BY <1>25 DEF StagePoint, Write, Step, Holds, Goto, Publication, FileTypes
<1>26. CASE RenamePoint(p)
  BY <1>26 DEF RenamePoint, Write, Step, Holds, Goto, Publication, FileTypes
<1>27. CASE ListPoint(p)
  BY <1>27 DEF ListPoint, Write, Step, Holds, Goto, Publication, FileTypes
<1>28. CASE ChildSucceeds(p)
  BY <1>28 DEF ChildSucceeds, Step, Holds, Goto, Stage, Publication, FileTypes
<1>29. CASE ChildFails(p)
  BY <1>29 DEF ChildFails, Step, Holds, Goto, Stage, Publication, FileTypes
<1>30. CASE ChildBreaks(p)
  BY <1>30 DEF ChildBreaks, Step, Holds, Goto, diskVars, Publication, FileTypes
<1>31. CASE PublishRaises(p)
  BY <1>31 DEF PublishRaises, Step, Holds, Goto, diskVars, Publication, FileTypes
<1>32. CASE SealProtocolFailure(p)
  BY <1>32 DEF SealProtocolFailure, Receipt, Holds, Step, Goto, End, Release, Stage,
     Publication, FileTypes
<1>33. CASE Interrupt(p)
  BY <1>33 DEF Interrupt, Holds, Receipt, Step, Goto, End, Release, Stage, diskVars,
     Publication, FileTypes
<1>34. CASE Validate(p)
  BY <1>34 DEF Validate, Holds, Receipt, Step, Goto, End, Release, Stage, diskVars,
     Publication, FileTypes
<1>35. CASE Promote(p)
  BY <1>35 DEF Promote, Holds, End, Goto, Release, diskVars, Publication, FileTypes
<1>36. CASE Stop(p)
  BY <1>36 DEF Stop, Goto, Release, diskVars, Publication, FileTypes
<1>37. CASE CloseReplayed(p)
  BY <1>37 DEF CloseReplayed, ReplayedLedger, Runs, Holds, Stage, ChildGoes, diskVars, Publication, FileTypes
<1>38. CASE Evolve(p)
  BY <1>38 DEF Evolve, Runs, Holds, Stage, ChildGoes, diskVars, Publication, FileTypes
<1>39. CASE Authorize(p)
  BY <1>39 DEF Authorize, Step, Holds, Goto, diskVars, Publication, FileTypes
<1>40. CASE SealCut(p)
  BY <1>40 DEF SealCut, Holds, End, Goto, Release, diskVars, Publication, FileTypes
<1> QED BY <1>1, <1>2, <1>3, <1>4, <1>5, <1>6, <1>7, <1>8, <1>9, <1>10, <1>11, <1>12,
     <1>13, <1>14, <1>15, <1>16, <1>17, <1>18, <1>19, <1>20, <1>21, <1>22, <1>23, <1>24,
     <1>25, <1>26, <1>27, <1>28, <1>29, <1>30, <1>31, <1>32, <1>33, <1>34, <1>35, <1>36,
     <1>37, <1>38, <1>39, <1>40 DEF Acts, Prologue, Work, Epilogue

(* Who does not hold the lock touches nothing while another does. *)
LEMMA Alone ==
    ASSUME ProcessTypes, NEW p \in Procs, Acts(p), pc[p] \notin Inside, owner # NoProc, owner # p
    PROVE  UNCHANGED <<kind, request, baseline, finals, staging, child, fresh>>
<1>1. CASE Call(p)
  BY <1>1 DEF Call, Goto, diskVars, Late, Inside
<1>2. CASE Look(p)
  BY <1>2 DEF Look, End, Goto, Release, diskVars, Late, Inside
<1>3. CASE PrepareRuntime(p)
  BY <1>3 DEF PrepareRuntime, Goto, diskVars, Late, Inside
<1>4. CASE Lock(p)
  BY <1>4 DEF Lock, Goto, CleanStaging, Late, Inside
<1>5. CASE CleanupRaises(p)
  BY <1>5 DEF CleanupRaises, End, Goto, Release, diskVars, Late, Inside
<1>6. CASE Recheck(p)
  BY <1>6 DEF Recheck, Holds, End, Goto, Release, Step, diskVars, Late, Inside
<1>7. CASE Ensure(p)
  BY <1>7 DEF Ensure, Step, Holds, Goto, diskVars, End, Release, Late, Inside
<1>8. CASE WriteRequest(p)
  BY <1>8 DEF WriteRequest, Write, Step, Holds, Goto, Late, Inside
<1>9. CASE WriteAnchor(p)
  BY <1>9 DEF WriteAnchor, Write, Step, Holds, Goto, Late, Inside
<1>10. CASE MakePointRoot(p)
  BY <1>10 DEF MakePointRoot, Write, Step, Holds, Goto, Late, Inside
<1>11. CASE WriteFirstIndex(p)
  BY <1>11 DEF WriteFirstIndex, Write, Step, Holds, Goto, Late, Inside
<1>12. CASE Select(p)
  BY <1>12 DEF Select, diskVars, Step, Holds, Goto, End, Release, Late, Inside
<1>13. CASE Allocate(p)
  BY <1>13 DEF Allocate, Holds, End, Goto, Release, diskVars, Late, Inside
<1>14. CASE Launch(p)
  BY <1>14 DEF Launch, Step, Holds, Goto, diskVars, Late, Inside
<1>15. CASE LaunchFails(p)
  BY <1>15 DEF LaunchFails, Step, Holds, Goto, diskVars, Late, Inside
<1>16. CASE PublishBaseline(p)
  BY <1>16 DEF PublishBaseline, Runs, Holds, ChildGoes, Late, Inside
<1>17. CASE LoadBaseline(p)
  BY <1>17 DEF LoadBaseline, Runs, Holds, diskVars, ChildGoes, Late, Inside
<1>18. CASE ReplayRefused(p)
  BY <1>18 DEF ReplayRefused, Runs, Holds, Step, Goto, Stage, Late, Inside
<1>19. CASE OpenReplayed(p)
  BY <1>19 DEF OpenReplayed, Runs, Holds, Stage, ChildGoes, diskVars, Late, Inside
<1>20. CASE OpenLedger(p)
  BY <1>20 DEF OpenLedger, Runs, Holds, Stage, ChildGoes, Late, Inside
<1>21. CASE CloseLedger(p)
  BY <1>21 DEF CloseLedger, Runs, Holds, Stage, ChildGoes, Late, Inside
<1>22. CASE StartSweep(p)
  BY <1>22 DEF StartSweep, Runs, Holds, Stage, ChildGoes, Late, Inside
<1>23. CASE ComputePoint(p)
  BY <1>23 DEF ComputePoint, Runs, Holds, Step, Goto, diskVars, Late, Inside
<1>24. CASE RenewPointRoot(p)
  BY <1>24 DEF RenewPointRoot, Write, Step, Holds, Goto, Late, Inside
<1>25. CASE StagePoint(p)
  BY <1>25 DEF StagePoint, Write, Step, Holds, Goto, Late, Inside
<1>26. CASE RenamePoint(p)
  BY <1>26 DEF RenamePoint, Write, Step, Holds, Goto, Late, Inside
<1>27. CASE ListPoint(p)
  BY <1>27 DEF ListPoint, Write, Step, Holds, Goto, Late, Inside
<1>28. CASE ChildSucceeds(p)
  BY <1>28 DEF ChildSucceeds, Step, Holds, Goto, Stage, Late, Inside
<1>29. CASE ChildFails(p)
  BY <1>29 DEF ChildFails, Step, Holds, Goto, Stage, Late, Inside
<1>30. CASE ChildBreaks(p)
  BY <1>30 DEF ChildBreaks, Step, Holds, Goto, diskVars, Late, Inside
<1>31. CASE PublishRaises(p)
  BY <1>31 DEF PublishRaises, Step, Holds, Goto, diskVars, Late, Inside
<1>32. CASE SealProtocolFailure(p)
  BY <1>32 DEF SealProtocolFailure, Receipt, Holds, Step, Goto, End, Release, Stage, Late,
     Inside
<1>33. CASE Interrupt(p)
  BY <1>33 DEF Interrupt, Holds, Receipt, Step, Goto, End, Release, Stage, diskVars, Late,
     Inside
<1>34. CASE Validate(p)
  BY <1>34 DEF Validate, Holds, Receipt, Step, Goto, End, Release, Stage, diskVars, Late,
     Inside
<1>35. CASE Promote(p)
  BY <1>35 DEF Promote, Holds, End, Goto, Release, diskVars, Late, Inside
<1>36. CASE Stop(p)
  BY <1>36 DEF Stop, Goto, Release, diskVars, Late, Inside
<1>37. CASE CloseReplayed(p)
  BY <1>37 DEF CloseReplayed, ReplayedLedger, Runs, Holds, Stage, ChildGoes, diskVars, Late, Inside
<1>38. CASE Evolve(p)
  BY <1>38 DEF Evolve, Runs, Holds, Stage, ChildGoes, diskVars, Late, Inside
<1>39. CASE Authorize(p)
  BY <1>39 DEF Authorize, Step, Holds, Goto, diskVars, Late, Inside
<1>40. CASE SealCut(p)
  BY <1>40 DEF SealCut, Holds, End, Goto, Release, diskVars, Late, Inside
<1> QED BY <1>1, <1>2, <1>3, <1>4, <1>5, <1>6, <1>7, <1>8, <1>9, <1>10, <1>11, <1>12,
     <1>13, <1>14, <1>15, <1>16, <1>17, <1>18, <1>19, <1>20, <1>21, <1>22, <1>23, <1>24,
     <1>25, <1>26, <1>27, <1>28, <1>29, <1>30, <1>31, <1>32, <1>33, <1>34, <1>35, <1>36,
     <1>37, <1>38, <1>39, <1>40 DEF Acts, Prologue, Work, Epilogue

(* Points are in place just before they are listed. *)
LEMMA PointStep ==
    ASSUME FileTypes, ProcessTypes, SelectOK, PointsOK, NEW p \in Procs, Acts(p)
    PROVE  /\ PointAt(p)' /\ request'.points \in {request'.entries, request'.entries + 1}
           /\ request'.root = "none" => request'.points = request'.entries
           /\ request'.entries <= Size /\ (request.json => request'.json)
<1>1. CASE Call(p)
  BY <1>1 DEF Call, Goto, diskVars, FileTypes, ProcessTypes, Labels, PointsOK, PointAt,
     SelectOK
<1>2. CASE Look(p)
  BY <1>2 DEF Look, End, Goto, Release, diskVars, FileTypes, ProcessTypes, Labels,
     PointsOK, PointAt, SelectOK
<1>3. CASE PrepareRuntime(p)
  BY <1>3 DEF PrepareRuntime, Goto, diskVars, FileTypes, ProcessTypes, Labels, PointsOK,
     PointAt, SelectOK
<1>4. CASE Lock(p)
  BY <1>4 DEF Lock, Goto, CleanStaging, FileTypes, ProcessTypes, Labels, PointsOK,
     PointAt, SelectOK
<1>5. CASE CleanupRaises(p)
  BY <1>5 DEF CleanupRaises, End, Goto, Release, diskVars, FileTypes, ProcessTypes,
     Labels, PointsOK, PointAt, SelectOK
<1>6. CASE Recheck(p)
  BY <1>6 DEF Recheck, Holds, End, Goto, Release, Step, diskVars, FileTypes, ProcessTypes,
     Labels, PointsOK, PointAt, SelectOK
<1>7. CASE Ensure(p)
  BY <1>7 DEF Ensure, Step, Holds, Goto, diskVars, End, Release, FileTypes, ProcessTypes,
     Labels, PointsOK, PointAt, SelectOK
<1>8. CASE WriteRequest(p)
  BY <1>8 DEF WriteRequest, Write, Step, Holds, Goto, FileTypes, ProcessTypes, Labels,
     PointsOK, PointAt, SelectOK
<1>9. CASE WriteAnchor(p)
  BY <1>9 DEF WriteAnchor, Write, Step, Holds, Goto, FileTypes, ProcessTypes, Labels,
     PointsOK, PointAt, SelectOK
<1>10. CASE MakePointRoot(p)
  BY <1>10 DEF MakePointRoot, Write, Step, Holds, Goto, FileTypes, ProcessTypes, Labels,
     PointsOK, PointAt, SelectOK
<1>11. CASE WriteFirstIndex(p)
  BY <1>11 DEF WriteFirstIndex, Write, Step, Holds, Goto, FileTypes, ProcessTypes, Labels,
     PointsOK, PointAt, SelectOK
<1>12. CASE Select(p)
  <2>1. CASE EvidenceReadable /\ Step(p, "select", "allocate") /\ UNCHANGED diskVars
    <3>1. kind = "sweep" => request.points = request.entries
      BY <2>1 DEF EvidenceReadable, PointsReadable, PointsOK
    <3> QED BY <2>1, <3>1 DEF Step, Holds, Goto, diskVars, ProcessTypes, PointsOK, PointAt
  <2>2. CASE End(p, "integrity") /\ UNCHANGED diskVars
    BY <2>2 DEF End, Goto, diskVars, ProcessTypes, PointsOK, PointAt
  <2> QED BY <1>12, <2>1, <2>2 DEF Select
<1>13. CASE Allocate(p)
  BY <1>13 DEF Allocate, Holds, End, Goto, Release, diskVars, FileTypes, ProcessTypes,
     Labels, PointsOK, PointAt, SelectOK
<1>14. CASE Launch(p)
  BY <1>14 DEF Launch, Step, Holds, Goto, diskVars, FileTypes, ProcessTypes, Labels,
     PointsOK, PointAt, SelectOK
<1>15. CASE LaunchFails(p)
  BY <1>15 DEF LaunchFails, Step, Holds, Goto, diskVars, FileTypes, ProcessTypes, Labels,
     PointsOK, PointAt, SelectOK
<1>16. CASE PublishBaseline(p)
  BY <1>16 DEF PublishBaseline, Runs, Holds, ChildGoes, FileTypes, ProcessTypes, Labels,
     PointsOK, PointAt, SelectOK
<1>17. CASE LoadBaseline(p)
  BY <1>17 DEF LoadBaseline, Runs, Holds, diskVars, ChildGoes, FileTypes, ProcessTypes,
     Labels, PointsOK, PointAt, SelectOK
<1>18. CASE ReplayRefused(p)
  BY <1>18 DEF ReplayRefused, Runs, Holds, Step, Goto, Stage, FileTypes, ProcessTypes,
     Labels, PointsOK, PointAt, SelectOK
<1>19. CASE OpenReplayed(p)
  BY <1>19 DEF OpenReplayed, Runs, Holds, Stage, ChildGoes, diskVars, FileTypes, ProcessTypes,
     Labels, PointsOK, PointAt, SelectOK
<1>20. CASE OpenLedger(p)
  BY <1>20 DEF OpenLedger, Runs, Holds, Stage, ChildGoes, FileTypes, ProcessTypes, Labels,
     PointsOK, PointAt, SelectOK
<1>21. CASE CloseLedger(p)
  BY <1>21 DEF CloseLedger, Runs, Holds, Stage, ChildGoes, FileTypes, ProcessTypes,
     Labels, PointsOK, PointAt, SelectOK
<1>22. CASE StartSweep(p)
  BY <1>22 DEF StartSweep, Runs, Holds, Stage, ChildGoes, FileTypes, ProcessTypes, Labels,
     PointsOK, PointAt, SelectOK
<1>23. CASE ComputePoint(p)
  BY <1>23 DEF ComputePoint, Runs, Holds, Step, Goto, diskVars, FileTypes, ProcessTypes,
     Labels, PointsOK, PointAt, SelectOK
<1>24. CASE RenewPointRoot(p)
  BY <1>24 DEF RenewPointRoot, Write, Step, Holds, Goto, FileTypes, ProcessTypes, Labels,
     PointsOK, PointAt, SelectOK
<1>25. CASE StagePoint(p)
  BY <1>25 DEF StagePoint, Write, Step, Holds, Goto, FileTypes, ProcessTypes, Labels,
     PointsOK, PointAt, SelectOK
<1>26. CASE RenamePoint(p)
  BY <1>26 DEF RenamePoint, Write, Step, Holds, Goto, FileTypes, ProcessTypes, Labels,
     PointsOK, PointAt, SelectOK
<1>27. CASE ListPoint(p)
  <2>1. /\ pc[p] = "list" /\ pc' = [pc EXCEPT ![p] = "run"]
        /\ request' = [request EXCEPT !.entries = request.entries + 1]
    BY <1>27 DEF ListPoint, Write, Step, Holds, Goto
  <2>2. /\ request.entries \in Nat /\ request.points = request.entries + 1 /\ request.entries < Size
        /\ request.root = "indexed"
    BY <2>1 DEF FileTypes, PointsOK, PointAt
  <2>3. /\ request'.entries = request.entries + 1 /\ request'.points = request.points
        /\ request'.root = request.root /\ request'.json = request.json /\ request.json
    BY <2>1 DEF FileTypes, PointsOK, PointAt
  <2>4. request'.entries <= Size /\ pc'[p] = "run"
    BY <2>1, <2>2, <2>3, LeafAssumption DEF ProcessTypes
  <2> QED BY <2>2, <2>3, <2>4 DEF PointAt
<1>28. CASE ChildSucceeds(p)
  BY <1>28 DEF ChildSucceeds, Step, Holds, Goto, Stage, FileTypes, ProcessTypes, Labels,
     PointsOK, PointAt, SelectOK
<1>29. CASE ChildFails(p)
  BY <1>29 DEF ChildFails, Step, Holds, Goto, Stage, FileTypes, ProcessTypes, Labels,
     PointsOK, PointAt, SelectOK
<1>30. CASE ChildBreaks(p)
  BY <1>30 DEF ChildBreaks, Step, Holds, Goto, diskVars, FileTypes, ProcessTypes, Labels,
     PointsOK, PointAt, SelectOK
<1>31. CASE PublishRaises(p)
  BY <1>31 DEF PublishRaises, Step, Holds, Goto, diskVars, FileTypes, ProcessTypes,
     Labels, PointsOK, PointAt, SelectOK
<1>32. CASE SealProtocolFailure(p)
  BY <1>32 DEF SealProtocolFailure, Receipt, Holds, Step, Goto, End, Release, Stage,
     FileTypes, ProcessTypes, Labels, PointsOK, PointAt, SelectOK
<1>33. CASE Interrupt(p)
  BY <1>33 DEF Interrupt, Holds, Receipt, Step, Goto, End, Release, Stage, diskVars,
     FileTypes, ProcessTypes, Labels, PointsOK, PointAt, SelectOK
<1>34. CASE Validate(p)
  BY <1>34 DEF Validate, Holds, Receipt, Step, Goto, End, Release, Stage, diskVars,
     FileTypes, ProcessTypes, Labels, PointsOK, PointAt, SelectOK
<1>35. CASE Promote(p)
  BY <1>35 DEF Promote, Holds, End, Goto, Release, diskVars, FileTypes, ProcessTypes,
     Labels, PointsOK, PointAt, SelectOK
<1>36. CASE Stop(p)
  BY <1>36 DEF Stop, Goto, Release, diskVars, FileTypes, ProcessTypes, Labels, PointsOK,
     PointAt, SelectOK
<1>37. CASE CloseReplayed(p)
  BY <1>37 DEF CloseReplayed, ReplayedLedger, Runs, Holds, Stage, ChildGoes, diskVars, FileTypes, ProcessTypes,
     Labels, PointsOK, PointAt, SelectOK
<1>38. CASE Evolve(p)
  BY <1>38 DEF Evolve, Runs, Holds, Stage, ChildGoes, diskVars, FileTypes, ProcessTypes,
     Labels, PointsOK, PointAt, SelectOK
<1>39. CASE Authorize(p)
  BY <1>39 DEF Authorize, Step, Holds, Goto, diskVars, FileTypes, ProcessTypes, Labels,
     PointsOK, PointAt, SelectOK
<1>40. CASE SealCut(p)
  BY <1>40 DEF SealCut, Holds, End, Goto, Release, diskVars, FileTypes, ProcessTypes,
     Labels, PointsOK, PointAt, SelectOK
<1> QED BY <1>1, <1>2, <1>3, <1>4, <1>5, <1>6, <1>7, <1>8, <1>9, <1>10, <1>11, <1>12,
     <1>13, <1>14, <1>15, <1>16, <1>17, <1>18, <1>19, <1>20, <1>21, <1>22, <1>23, <1>24,
     <1>25, <1>26, <1>27, <1>28, <1>29, <1>30, <1>31, <1>32, <1>33, <1>34, <1>35, <1>36,
     <1>37, <1>38, <1>39, <1>40 DEF Acts, Prologue, Work, Epilogue

-----------------------------------------------------------------------------
(* The attempt of the owner *)

AttemptFacts == Bound /\ Resumes /\ OwnBeyond /\ Room

(* What the attempt is known by stays. *)
LEMMA FactsKept ==
    ASSUME AttemptFacts, UNCHANGED <<kind, baseline, finals>>, staging'.id = staging.id,
           staging'.resume = staging.resume, staging'.pair = staging.pair,
           staging'.ledgers = staging.ledgers,
           staging'.cut => staging.cut
    PROVE  AttemptFacts'
BY DEF AttemptFacts, Bound, Resumes, OwnBeyond, Room

LEMMA FactsWithoutLedgers ==
    ASSUME AttemptFacts, UNCHANGED <<kind, baseline, finals>>, staging'.id = staging.id,
           staging'.resume = staging.resume, staging'.pair = staging.pair,
           staging'.ledgers = <<>>, ~staging'.cut
    PROVE  AttemptFacts'
<1>1. Len(<<>>) = 0 /\ 0 <= Size
  BY LeafAssumption
<1> QED BY <1>1 DEF AttemptFacts, Bound, Resumes, OwnBeyond, Room

(* Ledgers are added within the size, on a baseline. *)
LEMMA FactsWithLedger ==
    ASSUME AttemptFacts, UNCHANGED <<kind, baseline, finals>>, staging'.id = staging.id,
           staging'.resume = staging.resume, staging'.pair = staging.pair,
           staging.ledgers \in Chains, Len(staging.ledgers) < Size, baseline # 0, NEW maker \in Ids,
           staging'.ledgers = Append(staging.ledgers, maker), ~staging'.cut,
           Len(staging.resume) < Len(staging.ledgers) + 1 => maker = staging.id
    PROVE  AttemptFacts'
<1>1. /\ Len(staging.ledgers) \in Nat /\ Len(staging'.ledgers) = Len(staging.ledgers) + 1
      /\ staging'.ledgers[Len(staging.ledgers) + 1] = maker
      /\ \A g \in 1 .. Len(staging.ledgers) : staging'.ledgers[g] = staging.ledgers[g]
  BY DEF Chains
<1>2. \A g \in 1 .. Len(staging.ledgers) + 1 : g \in 1 .. Len(staging.ledgers) \/ g = Len(staging.ledgers) + 1
  BY <1>1
<1>3. OwnBeyond'
  BY <1>1, <1>2 DEF AttemptFacts, OwnBeyond
<1>4. Room'
  BY <1>1, LeafAssumption DEF Room
<1> QED BY <1>3, <1>4 DEF AttemptFacts, Bound, Resumes

(* A new attempt knows the baseline that there is, and resumes a sealed chain. *)
LEMMA FactsAllocated ==
    ASSUME Types, SelectOK, LongestOK, NEW p \in Procs, pc[p] = "allocate", UNCHANGED <<kind, baseline, finals>>,
           staging' = NewAttempt(fresh + 1, ResumeLedger)
    PROVE  AttemptFacts' /\ ~staging'.cut /\ staging'.verdict = "none"
<1>0. staging'.pair = (baseline # 0)
  BY Zenon DEF NewAttempt
<1>1. /\ staging'.ledgers = <<>> /\ ~staging'.cut /\ staging'.verdict = "none"
      /\ staging'.resume = ResumeLedger /\ Len(<<>>) = 0 /\ 0 <= Size
  BY LeafAssumption DEF NewAttempt
<1>2. /\ ResumeLedger = <<>> \/ \E i \in 1 .. Len(finals) : ResumeLedger = finals[i].ledgers
      /\ Len(ResumeLedger) <= Size
  <2>1. CASE kind = "optimize"
    <3>1. ResumeLedger \in Highest
      BY <2>1 DEF ResumeLedger, LongestOK
    <3>2. ResumeLedger = <<>> \/ \E i \in DOMAIN finals : ResumeLedger = finals[i].ledgers
      BY <3>1 DEF Highest, Resumable
    <3>3. DOMAIN finals = 1 .. Len(finals)
      BY DEF Types, AttemptTypes
    <3> QED BY <1>1, <3>2, <3>3 DEF LongestOK
  <2>2. CASE kind # "optimize"
    BY <1>1, <2>2 DEF ResumeLedger
  <2> QED BY <2>1, <2>2
<1>a. Bound'
  BY <1>0, Zenon DEF Bound
<1>3. Bound' /\ Room' /\ OwnBeyond'
  BY <1>1, <1>a DEF Room, OwnBeyond
<1>4. Resumes'
  BY <1>1, <1>2 DEF Resumes
<1> QED BY <1>1, <1>3, <1>4 DEF AttemptFacts

(* A receipt seals what it is written for. *)
LEMMA ReceiptSeals ==
    ASSUME Types, AttemptFacts', Sealable', NEW p \in Procs, NEW from, NEW record, Receipt(p, from, record),
           pc'[p] \in Late
    PROVE  AttemptAt(p)'
<1>1. pc'[p] = "promote"
  BY ReceiptStep DEF Types, Late
<1> QED BY <1>1 DEF AttemptAt, AttemptFacts, ChildAt, Sealable

(* What the owner knows of its attempt it still knows after its step. *)
LEMMA AttemptStep ==
    ASSUME Types, StagedOK, SelectOK, LongestOK, AttemptOK, NEW p \in Procs, Acts(p), pc'[p] \in Late
    PROVE  AttemptAt(p)'
<1>1. CASE Call(p)
  BY <1>1 DEF Call, Goto, diskVars, Late, Types, ProcessTypes, Labels
<1>2. CASE Look(p)
  BY <1>2 DEF Look, End, Goto, Release, diskVars, Late, Types, ProcessTypes, Labels
<1>3. CASE PrepareRuntime(p)
  BY <1>3 DEF PrepareRuntime, Goto, diskVars, Late, Types, ProcessTypes, Labels
<1>4. CASE Lock(p)
  BY <1>4 DEF Lock, Goto, CleanStaging, Late, Types, ProcessTypes, Labels
<1>5. CASE CleanupRaises(p)
  BY <1>5 DEF CleanupRaises, End, Goto, Release, diskVars, Late, Types, ProcessTypes,
     Labels
<1>6. CASE Recheck(p)
  BY <1>6 DEF Recheck, Holds, End, Goto, Release, Step, diskVars, Late, Types,
     ProcessTypes, Labels
<1>7. CASE Ensure(p)
  BY <1>7 DEF Ensure, Step, Holds, Goto, diskVars, End, Release, Late, Types,
     ProcessTypes, Labels
<1>8. CASE WriteRequest(p)
  BY <1>8 DEF WriteRequest, Write, Step, Holds, Goto, Late, Types, ProcessTypes, Labels
<1>9. CASE WriteAnchor(p)
  BY <1>9 DEF WriteAnchor, Write, Step, Holds, Goto, Late, Types, ProcessTypes, Labels
<1>10. CASE MakePointRoot(p)
  BY <1>10 DEF MakePointRoot, Write, Step, Holds, Goto, Late, Types, ProcessTypes, Labels
<1>11. CASE WriteFirstIndex(p)
  BY <1>11 DEF WriteFirstIndex, Write, Step, Holds, Goto, Late, Types, ProcessTypes,
     Labels
<1>12. CASE Select(p)
  BY <1>12 DEF Select, diskVars, Step, Holds, Goto, End, Release, Late, Types,
     ProcessTypes, Labels
<1>13. CASE Allocate(p)
  <2>1. staging' = NewAttempt(fresh + 1, ResumeLedger) /\ UNCHANGED <<kind, baseline, finals>>
        /\ pc[p] = "allocate" /\ pc'[p] = "launch"
    BY <1>13 DEF Allocate, Holds, End, Goto, Late, Types, ProcessTypes
  <2> QED BY <2>1, FactsAllocated DEF AttemptAt, AttemptFacts, ChildAt
<1>14. CASE Launch(p)
  <2>1. pc[p] \in Late /\ AttemptAt(p) /\ staging \in Attempt
    BY <1>14, Staged DEF Launch, Step, Holds, Goto, diskVars, Late, AttemptOK, Types
  <2>2. /\ UNCHANGED <<kind, baseline, finals>> /\ staging'.id = staging.id
        /\ staging'.resume = staging.resume /\ staging'.pair = staging.pair
        /\ staging'.ledgers = staging.ledgers /\ (staging'.cut => staging.cut)
    BY <1>14, <2>1 DEF Launch, Step, Holds, Goto, diskVars, Attempt
  <2>3. AttemptFacts'
    BY <2>1, <2>2, FactsKept DEF AttemptAt, AttemptFacts
  <2>4. ChildAt(p)'
    BY <1>14, <2>1 DEF Launch, Step, Holds, Goto, diskVars, AttemptAt, ChildAt, Room, Attempt, Late, Types, ProcessTypes
  <2> QED BY <2>3, <2>4 DEF AttemptAt, AttemptFacts
<1>15. CASE LaunchFails(p)
  <2>1. pc[p] \in Late /\ AttemptAt(p) /\ staging \in Attempt
    BY <1>15, Staged DEF LaunchFails, Step, Holds, Goto, diskVars, Late, AttemptOK, Types
  <2>2. /\ UNCHANGED <<kind, baseline, finals>> /\ staging'.id = staging.id
        /\ staging'.resume = staging.resume /\ staging'.pair = staging.pair
        /\ staging'.ledgers = staging.ledgers /\ (staging'.cut => staging.cut)
    BY <1>15, <2>1 DEF LaunchFails, Step, Holds, Goto, diskVars, Attempt
  <2>3. AttemptFacts'
    BY <2>1, <2>2, FactsKept DEF AttemptAt, AttemptFacts
  <2>4. ChildAt(p)'
    BY <1>15, <2>1 DEF LaunchFails, Step, Holds, Goto, diskVars, AttemptAt, ChildAt, Room, Attempt, Late, Types, ProcessTypes
  <2> QED BY <2>3, <2>4 DEF AttemptAt, AttemptFacts
<1>16. CASE PublishBaseline(p)
  <2>1. /\ pc[p] = "run" /\ kind = "optimize" /\ child = "baseline" /\ ~staging.pair
        /\ baseline' = (IF baseline = 0 THEN staging.id ELSE baseline) /\ UNCHANGED <<kind, finals, staging, pc>>
    BY <1>16 DEF PublishBaseline, Runs, Holds, ChildGoes
  <2>2. AttemptAt(p) /\ staging.id # 0
    BY <2>1, Staged DEF AttemptOK, Late, Types, Attempt, Ids
  <2>3. baseline' # 0 /\ Bound'
    BY <2>1, <2>2 DEF AttemptAt, Bound
  <2> QED BY <2>1, <2>2, <2>3 DEF AttemptAt, Resumes, OwnBeyond, Room, ChildAt
<1>17. CASE LoadBaseline(p)
  <2>1. /\ pc[p] = "run" /\ child = "baseline" /\ staging.pair
        /\ UNCHANGED <<kind, baseline, finals, staging, pc>>
    BY <1>17 DEF LoadBaseline, Runs, Holds, ChildGoes, diskVars
  <2>2. AttemptAt(p)
    BY <2>1 DEF AttemptOK, Late
  <2>3. baseline # 0
    BY <2>1, <2>2 DEF AttemptAt, Bound
  <2> QED BY <2>1, <2>2, <2>3 DEF AttemptAt, Bound, Resumes, OwnBeyond, Room, ChildAt
<1>18. CASE ReplayRefused(p)
  <2>1. pc[p] \in Late /\ AttemptAt(p) /\ staging \in Attempt
    BY <1>18, Staged DEF ReplayRefused, Runs, Holds, Step, Goto, Stage, Late, AttemptOK, Types
  <2>2. /\ UNCHANGED <<kind, baseline, finals>> /\ staging'.id = staging.id
        /\ staging'.resume = staging.resume /\ staging'.pair = staging.pair
        /\ staging'.ledgers = staging.ledgers /\ (staging'.cut => staging.cut)
    BY <1>18, <2>1 DEF ReplayRefused, Runs, Holds, Step, Goto, Stage, Attempt
  <2>3. AttemptFacts'
    BY <2>1, <2>2, FactsKept DEF AttemptAt, AttemptFacts
  <2>4. ChildAt(p)'
    BY <1>18, <2>1 DEF ReplayRefused, Runs, Holds, Step, Goto, Stage, AttemptAt, ChildAt, Room, Attempt, Late, Types, ProcessTypes
  <2> QED BY <2>3, <2>4 DEF AttemptAt, AttemptFacts
<1>19. CASE OpenReplayed(p)
  <2>1. /\ pc[p] = "run" /\ pc'[p] = "run" /\ kind = "optimize" /\ child = "replay" /\ child' = "replay"
        /\ Len(staging.ledgers) < Len(staging.resume)
        /\ UNCHANGED <<kind, baseline, finals>> /\ staging' = [staging EXCEPT !.cut = TRUE]
    BY <1>19 DEF OpenReplayed, ToReplay, Runs, Holds, Stage, ChildGoes
  <2>2. AttemptAt(p) /\ staging \in Attempt
    BY <2>1, Staged DEF AttemptOK, Late, Types
  <2>3. /\ staging'.ledgers = staging.ledgers /\ staging'.id = staging.id
        /\ staging'.resume = staging.resume /\ staging'.pair = staging.pair
    BY <2>1, <2>2 DEF Attempt
  <2>4. Len(staging.ledgers) < Size
    <3>1. Len(staging.ledgers) \in Nat /\ Len(staging.resume) \in Nat /\ Len(staging.resume) <= Size
      BY <2>2 DEF Attempt, Chains, AttemptAt, Resumes
    <3> QED BY <2>1, <3>1, LeafAssumption
  <2> QED BY <2>1, <2>2, <2>3, <2>4 DEF AttemptAt, Bound, Resumes, OwnBeyond, Room, ChildAt
<1>20. CASE OpenLedger(p)
  <2>1. /\ pc[p] = "run" /\ pc'[p] = "run" /\ kind = "optimize" /\ child = "evolve" /\ child' = "evolve"
        /\ Len(staging.ledgers) < Size
        /\ UNCHANGED <<kind, baseline, finals>> /\ staging' = [staging EXCEPT !.cut = TRUE]
    BY <1>20 DEF OpenLedger, Runs, Holds, Stage, ChildGoes
  <2>2. AttemptAt(p) /\ staging \in Attempt
    BY <2>1, Staged DEF AttemptOK, Late, Types
  <2>3. /\ staging'.ledgers = staging.ledgers /\ staging'.id = staging.id
        /\ staging'.resume = staging.resume /\ staging'.pair = staging.pair
    BY <2>1, <2>2 DEF Attempt
  <2> QED BY <2>1, <2>2, <2>3 DEF AttemptAt, Bound, Resumes, OwnBeyond, Room, ChildAt
<1>21. CASE CloseLedger(p)
  <2>1. /\ pc[p] = "run" /\ pc'[p] = "run" /\ kind = "optimize" /\ staging.cut /\ child = "evolve"
        /\ UNCHANGED <<kind, request, baseline, finals>>
        /\ staging' = [staging EXCEPT !.cut = FALSE, !.ledgers = Append(@, staging.id)]
    BY <1>21 DEF CloseLedger, Runs, Holds, Stage, ChildGoes
  <2>2. AttemptAt(p) /\ staging \in Attempt /\ baseline # 0 /\ Len(staging.ledgers) < Size
    BY <2>1, Staged DEF AttemptOK, AttemptAt, ChildAt, Room, Late, Types
  <2>3. /\ staging'.ledgers = Append(staging.ledgers, staging.id)
        /\ staging'.id = staging.id /\ staging'.resume = staging.resume
        /\ staging'.pair = staging.pair /\ ~staging'.cut
        /\ staging.ledgers \in Chains /\ staging.id \in Ids
    BY <2>1, <2>2 DEF Attempt
  <2>4. AttemptFacts'
    BY <2>1, <2>2, <2>3, FactsWithLedger DEF AttemptAt, AttemptFacts
  <2> QED BY <2>1, <2>2, <2>3, <2>4 DEF AttemptAt, AttemptFacts, ChildAt
<1>22. CASE StartSweep(p)
  <2>1. pc[p] \in Late /\ AttemptAt(p) /\ staging \in Attempt
    BY <1>22, Staged DEF StartSweep, Runs, Holds, Stage, ChildGoes, Late, AttemptOK, Types
  <2>2. /\ UNCHANGED <<kind, baseline, finals>> /\ staging'.id = staging.id
        /\ staging'.resume = staging.resume /\ staging'.pair = staging.pair
        /\ staging'.ledgers = staging.ledgers /\ (staging'.cut => staging.cut)
    BY <1>22, <2>1 DEF StartSweep, Runs, Holds, Stage, ChildGoes, Attempt
  <2>3. AttemptFacts'
    BY <2>1, <2>2, FactsKept DEF AttemptAt, AttemptFacts
  <2>4. ChildAt(p)'
    BY <1>22, <2>1 DEF StartSweep, Runs, Holds, Stage, ChildGoes, AttemptAt, ChildAt, Room, Attempt, Late, Types, ProcessTypes
  <2> QED BY <2>3, <2>4 DEF AttemptAt, AttemptFacts
<1>23. CASE ComputePoint(p)
  <2>1. pc[p] \in Late /\ AttemptAt(p) /\ staging \in Attempt
    BY <1>23, Staged DEF ComputePoint, Runs, Holds, Step, Goto, diskVars, Late, AttemptOK, Types
  <2>2. /\ UNCHANGED <<kind, baseline, finals>> /\ staging'.id = staging.id
        /\ staging'.resume = staging.resume /\ staging'.pair = staging.pair
        /\ staging'.ledgers = staging.ledgers /\ (staging'.cut => staging.cut)
    BY <1>23, <2>1 DEF ComputePoint, Runs, Holds, Step, Goto, diskVars, Attempt
  <2>3. AttemptFacts'
    BY <2>1, <2>2, FactsKept DEF AttemptAt, AttemptFacts
  <2>4. ChildAt(p)'
    BY <1>23, <2>1 DEF ComputePoint, Runs, Holds, Step, Goto, diskVars, AttemptAt, ChildAt, Room, Attempt, Late, Types, ProcessTypes
  <2> QED BY <2>3, <2>4 DEF AttemptAt, AttemptFacts
<1>24. CASE RenewPointRoot(p)
  <2>1. pc[p] \in Late /\ AttemptAt(p) /\ staging \in Attempt
    BY <1>24, Staged DEF RenewPointRoot, Write, Step, Holds, Goto, Late, AttemptOK, Types
  <2>2. /\ UNCHANGED <<kind, baseline, finals>> /\ staging'.id = staging.id
        /\ staging'.resume = staging.resume /\ staging'.pair = staging.pair
        /\ staging'.ledgers = staging.ledgers /\ (staging'.cut => staging.cut)
    BY <1>24, <2>1 DEF RenewPointRoot, Write, Step, Holds, Goto, Attempt
  <2>3. AttemptFacts'
    BY <2>1, <2>2, FactsKept DEF AttemptAt, AttemptFacts
  <2>4. ChildAt(p)'
    BY <1>24, <2>1 DEF RenewPointRoot, Write, Step, Holds, Goto, AttemptAt, ChildAt, Room, Attempt, Late, Types, ProcessTypes, SelectOK
  <2> QED BY <2>3, <2>4 DEF AttemptAt, AttemptFacts
<1>25. CASE StagePoint(p)
  <2>1. pc[p] \in Late /\ AttemptAt(p) /\ staging \in Attempt
    BY <1>25, Staged DEF StagePoint, Write, Step, Holds, Goto, Late, AttemptOK, Types
  <2>2. /\ UNCHANGED <<kind, baseline, finals>> /\ staging'.id = staging.id
        /\ staging'.resume = staging.resume /\ staging'.pair = staging.pair
        /\ staging'.ledgers = staging.ledgers /\ (staging'.cut => staging.cut)
    BY <1>25, <2>1 DEF StagePoint, Write, Step, Holds, Goto, Attempt
  <2>3. AttemptFacts'
    BY <2>1, <2>2, FactsKept DEF AttemptAt, AttemptFacts
  <2>4. ChildAt(p)'
    BY <1>25, <2>1 DEF StagePoint, Write, Step, Holds, Goto, AttemptAt, ChildAt, Room, Attempt, Late, Types, ProcessTypes, SelectOK
  <2> QED BY <2>3, <2>4 DEF AttemptAt, AttemptFacts
<1>26. CASE RenamePoint(p)
  <2>1. pc[p] \in Late /\ AttemptAt(p) /\ staging \in Attempt
    BY <1>26, Staged DEF RenamePoint, Write, Step, Holds, Goto, Late, AttemptOK, Types
  <2>2. /\ UNCHANGED <<kind, baseline, finals>> /\ staging'.id = staging.id
        /\ staging'.resume = staging.resume /\ staging'.pair = staging.pair
        /\ staging'.ledgers = staging.ledgers /\ (staging'.cut => staging.cut)
    BY <1>26, <2>1 DEF RenamePoint, Write, Step, Holds, Goto, Attempt
  <2>3. AttemptFacts'
    BY <2>1, <2>2, FactsKept DEF AttemptAt, AttemptFacts
  <2>4. ChildAt(p)'
    BY <1>26, <2>1 DEF RenamePoint, Write, Step, Holds, Goto, AttemptAt, ChildAt, Room, Attempt, Late, Types, ProcessTypes, SelectOK
  <2> QED BY <2>3, <2>4 DEF AttemptAt, AttemptFacts
<1>27. CASE ListPoint(p)
  <2>1. pc[p] \in Late /\ AttemptAt(p) /\ staging \in Attempt
    BY <1>27, Staged DEF ListPoint, Write, Step, Holds, Goto, Late, AttemptOK, Types
  <2>2. /\ UNCHANGED <<kind, baseline, finals>> /\ staging'.id = staging.id
        /\ staging'.resume = staging.resume /\ staging'.pair = staging.pair
        /\ staging'.ledgers = staging.ledgers /\ (staging'.cut => staging.cut)
    BY <1>27, <2>1 DEF ListPoint, Write, Step, Holds, Goto, Attempt
  <2>3. AttemptFacts'
    BY <2>1, <2>2, FactsKept DEF AttemptAt, AttemptFacts
  <2>4. ChildAt(p)'
    BY <1>27, <2>1 DEF ListPoint, Write, Step, Holds, Goto, AttemptAt, ChildAt, Room, Attempt, Late, Types, ProcessTypes, SelectOK
  <2> QED BY <2>3, <2>4 DEF AttemptAt, AttemptFacts
<1>28. CASE ChildSucceeds(p)
  <2>1. pc[p] \in Late /\ AttemptAt(p) /\ staging \in Attempt
    BY <1>28, Staged DEF ChildSucceeds, Step, Holds, Goto, Stage, Late, AttemptOK, Types
  <2>2. /\ UNCHANGED <<kind, baseline, finals>> /\ staging'.id = staging.id
        /\ staging'.resume = staging.resume /\ staging'.pair = staging.pair
        /\ staging'.ledgers = staging.ledgers /\ (staging'.cut => staging.cut)
    BY <1>28, <2>1 DEF ChildSucceeds, Step, Holds, Goto, Stage, Attempt
  <2>3. AttemptFacts'
    BY <2>1, <2>2, FactsKept DEF AttemptAt, AttemptFacts
  <2>4. ChildAt(p)'
    BY <1>28, <2>1 DEF ChildSucceeds, Step, Holds, Goto, Stage, AttemptAt, ChildAt, Room, Attempt, Late, Types, ProcessTypes, Worked
  <2> QED BY <2>3, <2>4 DEF AttemptAt, AttemptFacts
<1>29. CASE ChildFails(p)
  <2>1. pc[p] \in Late /\ AttemptAt(p) /\ staging \in Attempt
    BY <1>29, Staged DEF ChildFails, Step, Holds, Goto, Stage, Late, AttemptOK, Types
  <2>2. /\ UNCHANGED <<kind, baseline, finals>> /\ staging'.id = staging.id
        /\ staging'.resume = staging.resume /\ staging'.pair = staging.pair
        /\ staging'.ledgers = staging.ledgers /\ (staging'.cut => staging.cut)
    BY <1>29, <2>1 DEF ChildFails, Step, Holds, Goto, Stage, Attempt
  <2>3. AttemptFacts'
    BY <2>1, <2>2, FactsKept DEF AttemptAt, AttemptFacts
  <2>4. ChildAt(p)'
    BY <1>29, <2>1 DEF ChildFails, Step, Holds, Goto, Stage, AttemptAt, ChildAt, Room, Attempt, Late, Types, ProcessTypes
  <2> QED BY <2>3, <2>4 DEF AttemptAt, AttemptFacts
<1>30. CASE ChildBreaks(p)
  <2>1. pc[p] \in Late /\ AttemptAt(p) /\ staging \in Attempt
    BY <1>30, Staged DEF ChildBreaks, Step, Holds, Goto, diskVars, Late, AttemptOK, Types
  <2>2. /\ UNCHANGED <<kind, baseline, finals>> /\ staging'.id = staging.id
        /\ staging'.resume = staging.resume /\ staging'.pair = staging.pair
        /\ staging'.ledgers = staging.ledgers /\ (staging'.cut => staging.cut)
    BY <1>30, <2>1 DEF ChildBreaks, Step, Holds, Goto, diskVars, Attempt
  <2>3. AttemptFacts'
    BY <2>1, <2>2, FactsKept DEF AttemptAt, AttemptFacts
  <2>4. ChildAt(p)'
    BY <1>30, <2>1 DEF ChildBreaks, Step, Holds, Goto, diskVars, AttemptAt, ChildAt, Room, Attempt, Late, Types, ProcessTypes
  <2> QED BY <2>3, <2>4 DEF AttemptAt, AttemptFacts
<1>31. CASE PublishRaises(p)
  <2>1. pc[p] \in Late /\ AttemptAt(p) /\ staging \in Attempt
    BY <1>31, Staged DEF PublishRaises, Step, Holds, Goto, diskVars, Late, AttemptOK, Types
  <2>2. /\ UNCHANGED <<kind, baseline, finals>> /\ staging'.id = staging.id
        /\ staging'.resume = staging.resume /\ staging'.pair = staging.pair
        /\ staging'.ledgers = staging.ledgers /\ (staging'.cut => staging.cut)
    BY <1>31, <2>1 DEF PublishRaises, Step, Holds, Goto, diskVars, Attempt
  <2>3. AttemptFacts'
    BY <2>1, <2>2, FactsKept DEF AttemptAt, AttemptFacts
  <2>4. ChildAt(p)'
    BY <1>31, <2>1 DEF PublishRaises, Step, Holds, Goto, diskVars, AttemptAt, ChildAt, Room, Attempt, Late, Types, ProcessTypes
  <2> QED BY <2>3, <2>4 DEF AttemptAt, AttemptFacts
<1>32. CASE SealProtocolFailure(p)
  <2>1. staging \in Attempt /\ AttemptAt(p) /\ FALSE \in BOOLEAN /\ "protocol" \in Verdicts /\ request.entries \in Nat
    BY <1>32, Staged DEF SealProtocolFailure, Receipt, Holds, AttemptOK, Late, Types, FileTypes, Verdicts
  <2> DEFINE sealed == [Discarded(staging, FALSE) EXCEPT !.verdict = "protocol"]
  <2>2. /\ sealed.id = staging.id /\ sealed.resume = staging.resume /\ sealed.pair = staging.pair
        /\ sealed.ledgers = <<>> /\ ~sealed.cut /\ ~sealed.parts /\ sealed.points = request.entries
        /\ sealed.verdict = "protocol"
    BY <2>1 DEF Discarded, Attempt
  <2>3. Receipt(p, "fail", sealed)
    BY <1>32 DEF SealProtocolFailure
  <2> HIDE DEF sealed
  <2>4. staging' = sealed /\ UNCHANGED <<kind, request, baseline, finals>>
    BY <2>3, ReceiptStep DEF Types
  <2>5. AttemptFacts'
    BY <2>1, <2>2, <2>4, FactsWithoutLedgers DEF AttemptAt, AttemptFacts
  <2>6. Sealable'
    BY <2>1, <2>2, <2>4 DEF Sealable
  <2> QED BY <2>3, <2>5, <2>6, ReceiptSeals
<1>33. CASE Interrupt(p)
  <2> DEFINE sealed == [Discarded(staging, TRUE) EXCEPT !.verdict = "interrupted"]
  <2>1. PICK at \in {"launch", "run", "point", "list", "validate"} :
          Holds(p, at) /\ LinksVerified /\ Receipt(p, at, sealed)
    BY <1>33 DEF Interrupt, End, Goto, Late, Types, ProcessTypes
  <2>2. staging \in Attempt /\ AttemptAt(p) /\ request.entries \in Nat /\ ~staging.cut
    BY <2>1, Staged DEF Holds, AttemptOK, Late, Types, FileTypes, LinksVerified
  <2>3. /\ sealed.id = staging.id /\ sealed.resume = staging.resume /\ sealed.pair = staging.pair
        /\ sealed.ledgers = staging.ledgers /\ ~sealed.cut /\ ~sealed.parts /\ sealed.points = request.entries
        /\ sealed.verdict = "interrupted"
    BY <2>2 DEF Discarded, Attempt
  <2> HIDE DEF sealed
  <2>4. staging' = sealed /\ UNCHANGED <<kind, request, baseline, finals>>
    BY <2>1, ReceiptStep DEF Types
  <2>5. AttemptFacts'
    BY <2>2, <2>3, <2>4, FactsKept DEF AttemptAt, AttemptFacts
  <2>6. Sealable'
    BY <2>2, <2>3, <2>4 DEF Sealable
  <2> QED BY <2>1, <2>5, <2>6, ReceiptSeals
<1>34. CASE Validate(p)
  <2> DEFINE sealed == [staging EXCEPT !.points = request.entries]
  <2>1. staging \in Attempt /\ AttemptAt(p) /\ request.entries \in Nat
    BY <1>34, Staged DEF Validate, Holds, AttemptOK, Late, Types, FileTypes
  <2>2. CASE Acceptable /\ Receipt(p, "validate", sealed)
    <3>1. /\ sealed.id = staging.id /\ sealed.resume = staging.resume /\ sealed.pair = staging.pair
          /\ sealed.ledgers = staging.ledgers /\ sealed.cut = staging.cut /\ sealed.parts = staging.parts
          /\ sealed.points = request.entries /\ sealed.verdict = staging.verdict
      BY <2>1 DEF Attempt
    <3> HIDE DEF sealed
    <3>2. staging' = sealed /\ UNCHANGED <<kind, request, baseline, finals>>
      BY <2>2, ReceiptStep DEF Types
    <3>3. AttemptFacts'
      BY <2>1, <3>1, <3>2, FactsKept DEF AttemptAt, AttemptFacts
    <3>4. Sealable'
      BY <2>1, <2>2, <3>1, <3>2
      DEF AttemptAt, ChildAt, Sealable, Acceptable, LinksVerified, SuccessStaged, Complete, SweepComplete, OptimizationComplete
    <3> QED BY <2>2, <3>3, <3>4, ReceiptSeals
  <2>3. CASE Step(p, "validate", "fail") /\ UNCHANGED <<diskVars, child>>
    <3>1. AttemptFacts'
      BY <2>1, <2>3, FactsKept DEF AttemptAt, AttemptFacts, Step, diskVars
    <3> QED BY <2>1, <2>3, <3>1 DEF AttemptAt, AttemptFacts, ChildAt, Step, Goto, diskVars, Types, ProcessTypes
  <2> QED BY <1>34, <2>2, <2>3 DEF Validate
<1>35. CASE Promote(p)
  BY <1>35 DEF Promote, Holds, End, Goto, Release, diskVars, Late, Types, ProcessTypes,
     Labels
<1>36. CASE Stop(p)
  BY <1>36 DEF Stop, Goto, Release, diskVars, Late, Types, ProcessTypes, Labels
<1>37. CASE CloseReplayed(p)
  <2>1. /\ pc[p] = "run" /\ pc'[p] = "run" /\ kind = "optimize" /\ staging.cut /\ child = "replay"
        /\ Len(staging.ledgers) < Len(staging.resume)
        /\ UNCHANGED <<kind, request, baseline, finals>>
        /\ staging' = [staging EXCEPT !.cut = FALSE,
                                      !.ledgers = Append(@, staging.resume[Len(staging.ledgers) + 1])]
    BY <1>37 DEF CloseReplayed, ToReplay, ReplayedLedger, Runs, Holds, Stage, ChildGoes
  <2>2. AttemptAt(p) /\ staging \in Attempt /\ baseline # 0 /\ Len(staging.ledgers) < Size
    BY <2>1, Staged DEF AttemptOK, AttemptAt, ChildAt, Room, Late, Types
  <2>3. /\ staging.ledgers \in Chains /\ staging.resume \in Chains /\ Len(staging.ledgers) \in Nat
        /\ Len(staging.resume) \in Nat
    BY <2>2 DEF Attempt, Chains
  <2>4. staging.resume[Len(staging.ledgers) + 1] \in Ids /\ ~(Len(staging.resume) < Len(staging.ledgers) + 1)
    BY <2>1, <2>3 DEF Chains
  <2>5. /\ staging'.ledgers = Append(staging.ledgers, staging.resume[Len(staging.ledgers) + 1])
        /\ staging'.id = staging.id /\ staging'.resume = staging.resume
        /\ staging'.pair = staging.pair /\ ~staging'.cut
    BY <2>1, <2>2 DEF Attempt
  <2>6. AttemptFacts'
    BY <2>1, <2>2, <2>3, <2>4, <2>5, FactsWithLedger DEF AttemptAt, AttemptFacts
  <2> QED BY <2>1, <2>2, <2>5, <2>6 DEF AttemptAt, AttemptFacts, ChildAt
<1>38. CASE Evolve(p)
  <2>1. /\ pc[p] = "run" /\ pc'[p] = "run" /\ child = "replay" /\ kind = "optimize"
        /\ UNCHANGED <<kind, request, baseline, finals, staging>> /\ ~staging.cut
    BY <1>38 DEF Evolve, Runs, Holds, ChildGoes, diskVars
  <2>2. AttemptAt(p) /\ baseline # 0
    BY <2>1 DEF AttemptOK, AttemptAt, ChildAt, Late
  <2> QED BY <2>1, <2>2, FactsKept DEF AttemptAt, AttemptFacts, ChildAt
<1>39. CASE Authorize(p)
  <2>1. pc[p] \in Late /\ AttemptAt(p) /\ staging \in Attempt
    BY <1>39, Staged DEF Authorize, Step, Holds, Goto, diskVars, Late, AttemptOK, Types
  <2>2. /\ UNCHANGED <<kind, baseline, finals>> /\ staging'.id = staging.id
        /\ staging'.resume = staging.resume /\ staging'.pair = staging.pair
        /\ staging'.ledgers = staging.ledgers /\ (staging'.cut => staging.cut)
    BY <1>39, <2>1 DEF Authorize, Step, Holds, Goto, diskVars, Attempt
  <2>3. AttemptFacts'
    BY <2>1, <2>2, FactsKept DEF AttemptAt, AttemptFacts
  <2>4. ChildAt(p)'
    BY <1>39, <2>1 DEF Authorize, Step, Holds, Goto, diskVars, AttemptAt, ChildAt, Room, Attempt, Late, Types, ProcessTypes
  <2> QED BY <2>3, <2>4 DEF AttemptAt, AttemptFacts
<1>40. CASE SealCut(p)
  BY <1>40 DEF SealCut, End, Goto, Late, Types, ProcessTypes
<1> QED BY <1>1, <1>2, <1>3, <1>4, <1>5, <1>6, <1>7, <1>8, <1>9, <1>10, <1>11, <1>12,
     <1>13, <1>14, <1>15, <1>16, <1>17, <1>18, <1>19, <1>20, <1>21, <1>22, <1>23, <1>24,
     <1>25, <1>26, <1>27, <1>28, <1>29, <1>30, <1>31, <1>32, <1>33, <1>34, <1>35, <1>36,
     <1>37, <1>38, <1>39, <1>40 DEF Acts, Prologue, Work, Epilogue

-----------------------------------------------------------------------------
(* The history *)

(* A sealed attempt stays sound when points are added, and when the baseline  *)
(* is first published: nobody before had anything that a baseline explains.   *)
LEMMA SoundStays ==
    ASSUME NEW a \in Attempt, NEW prior, Sound(a, prior), kind' = kind,
           request.entries \in Nat, request'.entries \in Nat, request.entries <= request'.entries,
           a.verdict = "success" => request'.entries = request.entries,
           \/ baseline' = baseline
           \/ /\ baseline = 0 /\ baseline' # 0 /\ a.verdict # "success"
              /\ \A i \in DOMAIN prior : prior[i].ledgers = <<>>
    PROVE  Sound(a, prior)'
<1>1. a.points \in Nat /\ a.resume \in Seq(Ids)
  BY DEF Attempt, Chains
<1>2. CASE baseline' = baseline
  <2>1. kind' = "sweep" => a.points <= request'.entries
    BY <1>1 DEF Sound, VerifiedApart
  <2>2. (Complete(a))' \/ a.verdict # "success"
    BY <1>2 DEF Sound, VerifiedApart, Complete, OptimizationComplete, SweepComplete
  <2>3. BaselineBound(a)' = BaselineBound(a) /\ LedgersVerified(a, prior)' = LedgersVerified(a, prior)
    BY <1>2 DEF BaselineBound, LedgersVerified, Consumes, Backed
  <2> QED BY <2>1, <2>2, <2>3 DEF Sound, VerifiedApart, ResumeFound
<1>3. CASE baseline' # baseline
  <2>1. a.ledgers = <<>>
    BY <1>3 DEF Sound, VerifiedApart, LedgersVerified
  <2>2. a.resume = <<>>
    <3> SUFFICES ASSUME NEW i \in DOMAIN prior, IsPrefix(a.resume, prior[i].ledgers)
                 PROVE  a.resume = <<>>
      BY DEF Sound, VerifiedApart, ResumeFound
    <3>1. prior[i].ledgers = <<>> /\ Len(<<>>) = 0
      BY <1>3
    <3>2. Len(a.resume) <= Len(<<>>) /\ Len(a.resume) \in Nat
      BY <1>1, <3>1 DEF IsPrefix
    <3> QED BY <1>1, <3>1, <3>2, EmptySeq
  <2>3. ~Consumes(a)
    BY <1>3, <2>1, <2>2 DEF Consumes, Sound
  <2>4. BaselineBound(a)'
    BY <1>3, <2>3 DEF BaselineBound, Consumes
  <2>5. LedgersVerified(a, prior)'
    BY <2>1 DEF Sound, VerifiedApart, LedgersVerified, Backed
  <2>6. kind' = "sweep" => a.points <= request'.entries
    BY <1>1 DEF Sound, VerifiedApart
  <2> QED BY <1>3, <2>4, <2>5, <2>6 DEF Sound, VerifiedApart, ResumeFound
<1> QED BY <1>2, <1>3

(* Earlier attempts do not change. *)
LEMMA BeforeKept ==
    ASSUME finals \in Seq(Attempt), NEW a \in Attempt, finals' = Append(finals, a), NEW n, n = Len(finals)
    PROVE  /\ n \in Nat /\ Len(finals') = n + 1 /\ finals'[n + 1] = a
           /\ \A i \in 1 .. n : finals'[i] = finals[i] /\ Before(i)' = Before(i)
           /\ Before(n + 1)' = finals
<1>1. /\ Len(finals) \in Nat /\ Len(finals') = Len(finals) + 1 /\ finals'[Len(finals) + 1] = a
      /\ \A i \in 1 .. Len(finals) : finals'[i] = finals[i]
  OBVIOUS
<1>2. ASSUME NEW i \in 1 .. Len(finals) + 1
      PROVE  SubSeq(finals', 1, i - 1) = SubSeq(finals, 1, i - 1)
  <2>1. finals' \in Seq(Attempt) /\ i - 1 \in 0 .. Len(finals)
    BY <1>1
  <2> DEFINE s == SubSeq(finals', 1, i - 1)
             t == SubSeq(finals, 1, i - 1)
  <2>2. s \in Seq(Attempt) /\ Len(s) = i - 1 /\ \A j \in 1 .. i - 1 : s[j] = finals'[j]
    BY <1>1, <2>1
  <2>3. t \in Seq(Attempt) /\ Len(t) = i - 1 /\ \A j \in 1 .. i - 1 : t[j] = finals[j]
    BY <1>1, <2>1
  <2>4. \A j \in 1 .. i - 1 : s[j] = t[j]
    BY <1>1, <2>1, <2>2, <2>3
  <2> HIDE DEF s, t
  <2>5. s = t
    BY <2>2, <2>3, <2>4, SeqEqual
  <2> QED BY <2>5 DEF s, t
<1>3. \A i \in 1 .. Len(finals) : Before(i)' = Before(i)
  BY <1>1, <1>2 DEF Before
<1>4. Before(n + 1)' = finals
  <2>1. SubSeq(finals', 1, Len(finals)) = SubSeq(finals, 1, Len(finals))
    BY <1>1, <1>2
  <2>2. SubSeq(finals, 1, Len(finals)) = finals
    OBVIOUS
  <2> QED BY <1>1, <2>1, <2>2 DEF Before
<1> QED BY <1>1, <1>3, <1>4

LEMMA SoundKept ==
    ASSUME Types, StagedOK, DoneOK, SoundOK, AttemptOK, NEW p \in Procs, Acts(p), FileTypes'
    PROVE  SoundOK'
<1> USE DEF Types
<1>1. kind' = kind /\ Publication(p) /\ request.entries \in Nat /\ request'.entries \in Nat
  BY KindKept, StepPublishes DEF FileTypes
<1>2. \A i \in 1 .. Len(finals) : finals[i] \in Attempt
  BY DEF AttemptTypes
<1>3. CASE UNCHANGED finals /\ pc[p] \notin {"run", "list"}
  <2>1. UNCHANGED baseline /\ request'.entries = request.entries
    BY <1>1, <1>3 DEF Publication
  <2> SUFFICES ASSUME NEW i \in 1 .. Len(finals)
               PROVE  Sound(finals[i], Before(i))'
    BY <1>3 DEF SoundOK
  <2>2. PICK a, b : a = finals[i] /\ b = Before(i)
    OBVIOUS
  <2>3. Sound(a, b)'
    BY <1>1, <1>2, <2>1, <2>2, SoundStays DEF SoundOK
  <2> QED BY <1>3, <2>2, <2>3 DEF Before
<1>4. CASE UNCHANGED finals /\ pc[p] \in {"run", "list"}
  <2>1. ~Succeeded /\ staging.id # 0 /\ DOMAIN finals = 1 .. Len(finals)
    BY <1>4, Staged DEF DoneOK, Inside, Late, Attempt, Ids, AttemptTypes
  <2> SUFFICES ASSUME NEW i \in 1 .. Len(finals)
               PROVE  Sound(finals[i], Before(i))'
    BY <1>4 DEF SoundOK
  <2>2. PICK a, b : a = finals[i] /\ b = Before(i)
    OBVIOUS
  <2>3. a \in Attempt /\ Sound(a, b) /\ a.verdict # "success"
    BY <1>2, <2>1, <2>2 DEF SoundOK, Succeeded
  <2>4. request.entries <= request'.entries
    BY <1>1, <1>4 DEF Publication
  <2>5. CASE baseline' = baseline
    BY <1>1, <2>3, <2>4, <2>5, <2>2, <1>4, SoundStays DEF Before
  <2>6. CASE baseline' # baseline
    <3>1. baseline = 0 /\ baseline' # 0
      BY <1>1, <2>1, <2>6 DEF Publication
    <3>2. \A j \in 1 .. Len(finals) : finals[j].ledgers = <<>>
      BY <3>1 DEF SoundOK, Sound, VerifiedApart, LedgersVerified
    <3>3. DOMAIN b = 1 .. i - 1 /\ \A j \in 1 .. i - 1 : b[j] = finals[j]
      BY <2>2 DEF Before, AttemptTypes
    <3>4. \A j \in DOMAIN b : b[j].ledgers = <<>>
      BY <3>2, <3>3
    <3>5. Sound(a, b)'
      BY <1>1, <2>3, <2>4, <3>1, <3>4, SoundStays
    <3> QED BY <1>4, <2>2, <3>5 DEF Before
  <2> QED BY <2>5, <2>6
<1>5. CASE finals' # finals
  <2>1. /\ pc[p] = "promote" /\ Verified(staging, finals) /\ finals' = Append(finals, staging)
        /\ UNCHANGED <<request, baseline>>
    BY <1>1, <1>5 DEF Publication
  <2>2. staging \in Attempt /\ finals \in Seq(Attempt)
    BY <2>1, Staged DEF Late, AttemptTypes
  <2>a. PICK n : n = Len(finals)
    OBVIOUS
  <2>3. /\ n \in Nat /\ Len(finals') = n + 1 /\ finals'[n + 1] = staging
        /\ \A i \in 1 .. n : finals'[i] = finals[i] /\ Before(i)' = Before(i)
        /\ Before(n + 1)' = finals
    BY <2>1, <2>2, <2>a, BeforeKept
  <2>4. \A i \in 1 .. Len(finals') : i \in 1 .. n \/ i = n + 1
    BY <2>3
  <2> SUFFICES ASSUME NEW i \in 1 .. Len(finals')
               PROVE  Sound(finals[i], Before(i))'
    BY DEF SoundOK
  <2>5. PICK a, b : a = finals'[i] /\ b = Before(i)'
    OBVIOUS
  <2>6. a \in Attempt /\ Sound(a, b)
    <3>1. CASE i \in 1 .. n
      BY <1>2, <2>a, <2>3, <2>5, <3>1 DEF SoundOK
    <3>2. CASE i = n + 1
      <4>1. VerifiedApart(staging, finals)
        BY <2>1 DEF Verified, VerifiedApart
      <4>2. staging.verdict = "population" => baseline # 0
        BY <2>1 DEF AttemptOK, AttemptAt, ChildAt, Late
      <4> QED BY <2>2, <2>3, <2>5, <3>2, <4>1, <4>2 DEF Sound
    <3> QED BY <2>4, <3>1, <3>2
  <2>7. Sound(a, b)'
    BY <1>1, <2>1, <2>6, SoundStays
  <2> QED BY <2>5, <2>7
<1> QED BY <1>3, <1>4, <1>5

LEMMA LongestStays ==
    ASSUME LongestOK, UNCHANGED finals
    PROVE  LongestOK'
<1>1. Resumable' = Resumable
  BY DEF Resumable
<1>2. Highest' = Highest
  BY <1>1 DEF Highest
<1>3. \A i : Tops(i)' <=> Tops(i)
  BY DEF Tops
<1> QED BY <1>2, <1>3 DEF LongestOK

(* A longest chain remains one, or the new attempt has it. *)
LEMMA LongestKept ==
    ASSUME Types, StagedOK, LongestOK, AttemptOK, NEW p \in Procs, Acts(p), FileTypes'
    PROVE  LongestOK'
<1> USE DEF Types
<1>1. CASE UNCHANGED finals
  BY <1>1, LongestStays
<1>2. CASE finals' # finals
  <2>1. /\ pc[p] = "promote" /\ finals' = Append(finals, staging)
    BY <1>2, StepPublishes DEF Publication
  <2>2. staging \in Attempt /\ finals \in Seq(Attempt) /\ Len(staging.ledgers) <= Size
    BY <2>1, Staged DEF Late, AttemptTypes, AttemptOK, AttemptAt, Room
  <2>a. PICK n : n = Len(finals)
    OBVIOUS
  <2>3. /\ n \in Nat /\ Len(finals') = n + 1 /\ finals'[n + 1] = staging
        /\ \A i \in 1 .. n : finals'[i] = finals[i]
        /\ DOMAIN finals = 1 .. n /\ DOMAIN finals' = 1 .. n + 1
    BY <2>1, <2>2, <2>a
  <2>4. /\ \A i \in 1 .. n + 1 : i \in 1 .. n \/ i = n + 1
        /\ \A i \in 1 .. n : i \in 1 .. n + 1
        /\ n + 1 \in 1 .. n + 1
    BY <2>3
  <2>5. /\ Len(staging.ledgers) \in Nat /\ \A i \in 1 .. n : Len(finals[i].ledgers) \in Nat
        /\ Len(<<>>) = 0
    BY <2>2, <2>a, ChainTypes DEF Attempt, Chains
  <2>6. \A i \in 1 .. n + 1 : Len(finals'[i].ledgers) <= Size
    BY <2>a, <2>2, <2>3, <2>4 DEF LongestOK
  <2>7. \E i \in 1 .. n + 1 : \A j \in 1 .. n + 1 : Len(finals'[j].ledgers) <= Len(finals'[i].ledgers)
    <3>1. CASE \A j \in 1 .. n : Len(finals[j].ledgers) <= Len(staging.ledgers)
      <4>1. \A j \in 1 .. n + 1 : Len(finals'[j].ledgers) <= Len(finals'[n + 1].ledgers)
        BY <2>3, <2>4, <2>5, <3>1
      <4> QED BY <2>4, <4>1
    <3>2. CASE \E j \in 1 .. n : ~(Len(finals[j].ledgers) <= Len(staging.ledgers))
      <4>1. finals # <<>>
        BY <2>a, <2>3, <2>5, <3>2
      <4>2. PICK i \in 1 .. n : \A j \in 1 .. n : Len(finals[j].ledgers) <= Len(finals[i].ledgers)
        BY <2>a, <4>1 DEF LongestOK, Tops
      <4>3. Len(staging.ledgers) <= Len(finals[i].ledgers)
        <5>1. PICK j \in 1 .. n : ~(Len(finals[j].ledgers) <= Len(staging.ledgers))
          BY <3>2
        <5>2. Len(finals[j].ledgers) <= Len(finals[i].ledgers)
          BY <4>2
        <5>3. /\ Len(finals[j].ledgers) \in Nat /\ Len(finals[i].ledgers) \in Nat
              /\ Len(staging.ledgers) \in Nat
          BY <2>5
        <5> QED BY <5>1, <5>2, <5>3
      <4>4. \A j \in 1 .. n + 1 : Len(finals'[j].ledgers) <= Len(finals'[i].ledgers)
        BY <2>3, <2>4, <4>2, <4>3
      <4> QED BY <2>4, <4>4
    <3> QED BY <3>1, <3>2
  <2>8. Highest' # {}
    <3>1. PICK c \in Resumable \cup {<<>>} : \A d \in Resumable : Len(d) <= Len(c)
      BY DEF LongestOK, Highest
    <3>2. Len(c) \in Nat
      BY <2>3, <2>5, <3>1 DEF Resumable
    <3>3. Resumable' = IF staging.verdict # "success" THEN Resumable \cup {staging.ledgers} ELSE Resumable
      <4>1. \A j \in DOMAIN finals' : j \in DOMAIN finals \/ j = n + 1
        BY <2>3, <2>4
      <4>2. \A j \in DOMAIN finals : j \in DOMAIN finals' /\ finals'[j] = finals[j]
        BY <2>3, <2>4
      <4>3. n + 1 \in DOMAIN finals' /\ finals'[n + 1] = staging
        BY <2>3, <2>4
      <4> QED BY <4>1, <4>2, <4>3 DEF Resumable
    <3>4. \E e \in (Resumable \cup {<<>>})' : \A d \in Resumable' : Len(d) <= Len(e)
      <4>1. CASE Len(staging.ledgers) <= Len(c) \/ staging.verdict = "success"
        BY <3>1, <3>3, <4>1
      <4>2. CASE ~(Len(staging.ledgers) <= Len(c)) /\ staging.verdict # "success"
        <5>1. \A d \in Resumable : Len(d) \in Nat
          BY <2>3, <2>5 DEF Resumable
        <5>2. \A d \in Resumable : Len(d) <= Len(staging.ledgers)
          BY <2>5, <3>1, <3>2, <4>2, <5>1
        <5> QED BY <2>5, <3>3, <4>2, <5>2
      <4> QED BY <4>1, <4>2
    <3> QED BY <3>4 DEF Highest
  <2> QED BY <2>3, <2>6, <2>7, <2>8 DEF LongestOK, Tops
<1> QED BY <1>1, <1>2

-----------------------------------------------------------------------------
(* The invariant *)

(* While one process is past the lock, the steps of the others touch nothing. *)
LEMMA Untouched ==
    ASSUME Inv, NEW p \in Procs, NEW q \in Procs, q # p, Acts(p), pc'[q] \in Inside
    PROVE  pc'[q] = pc[q] /\ UNCHANGED <<kind, request, baseline, finals, staging, child, fresh>>
<1>1. Moves(p)
  BY StepMoves DEF Inv, Types
<1>2. pc'[q] = pc[q] /\ pc[p] \notin Inside
  BY <1>1, Elsewhere DEF Inv
<1>3. owner = q
  BY <1>2 DEF Inv, LockOK
<1> QED BY <1>2, <1>3, Alone, LeafAssumption DEF Inv, Types

LEMMA ReadActs ==
    ASSUME ReadInv, NEW p \in Procs, Acts(p)
    PROVE  ReadInv'
<1> USE DEF ReadInv
<1>1. Inv'
  BY InvActs
<1>2. SoundOK' /\ LongestOK'
  BY <1>1, SoundKept, LongestKept DEF Inv, Types
<1>3. PointsOK'
  <2>1. PointAt(p)' /\ request'.points \in {request'.entries, request'.entries + 1}
        /\ (request'.root = "none" => request'.points = request'.entries) /\ request'.entries <= Size
    BY PointStep DEF Inv, Types
  <2>2. ASSUME NEW q \in Procs, q # p
        PROVE  PointAt(q)'
    <3>1. CASE pc'[q] \in Inside
      BY <2>2, <3>1, Untouched DEF PointsOK, PointAt
    <3>2. CASE pc'[q] \notin Inside
      <4>1. pc'[q] \in Labels \cup {"idle"}
        BY <1>1 DEF Inv, Types, ProcessTypes
      <4> QED BY <3>2, <4>1 DEF PointAt, Inside, Late, Labels
    <3> QED BY <3>1, <3>2
  <2>3. request'.json \/ NothingSealed'
    <3>1. CASE request.json
      BY <3>1, PointStep DEF Inv, Types
    <3>2. CASE ~request.json
      <4>1. NothingSealed /\ pc[p] \notin {"run", "list", "promote"}
        BY <3>2 DEF PointsOK, PointAt
      <4>2. UNCHANGED <<baseline, finals>> /\ request'.entries = request.entries
        BY <4>1, StepPublishes DEF Publication, Inv, Types
      <4> QED BY <4>1, <4>2 DEF NothingSealed
    <3> QED BY <3>1, <3>2
  <2> QED BY <2>1, <2>2, <2>3 DEF PointsOK
<1>4. AttemptOK'
  <2> SUFFICES ASSUME NEW q \in Procs, pc'[q] \in Late
               PROVE  AttemptAt(q)'
    BY DEF AttemptOK
  <2>1. CASE q = p
    BY <2>1, AttemptStep DEF Inv
  <2>2. CASE q # p
    <3>1. pc'[q] = pc[q] /\ UNCHANGED <<kind, request, baseline, finals, staging, child, fresh>>
      BY <2>2, Untouched DEF Inside
    <3> QED BY <3>1 DEF AttemptOK, AttemptAt, Bound, Resumes, OwnBeyond, Room, ChildAt, Sealable,
            Complete, OptimizationComplete, SweepComplete
  <2> QED BY <2>1, <2>2
<1> QED BY <1>1, <1>2, <1>3, <1>4

LEMMA ReadInit ==
    ASSUME Init
    PROVE  ReadInv
<1> USE DEF Init
<1>1. Inv
  BY InvInit
<1>2. SoundOK /\ AttemptOK
  BY DEF SoundOK, AttemptOK, Late
<1>3. LongestOK
  BY DEF LongestOK, Highest, Resumable
<1>4. PointsOK
  BY LeafAssumption DEF PointsOK, PointAt, EmptyRequest, NothingSealed
<1> QED BY <1>1, <1>2, <1>3, <1>4 DEF ReadInv

LEMMA ReadNext ==
    ASSUME ReadInv, [Next]_vars
    PROVE  ReadInv'
<1>1. ASSUME NEW p \in Procs, Prologue(p) \/ Work(p) \/ Epilogue(p)
      PROVE  ReadInv'
  BY <1>1, ReadActs DEF Acts
<1>2. ASSUME UNCHANGED <<kind, request, baseline, finals, staging, owner, pc, child, outcome, fresh, calls>>
      PROVE  SoundOK' /\ LongestOK' /\ PointsOK' /\ AttemptOK'
  <2>1. SoundOK'
    BY <1>2 DEF ReadInv, SoundOK, Sound, VerifiedApart, Before, ResumeFound, BaselineBound, Consumes, LedgersVerified, Backed,
       Complete, OptimizationComplete, SweepComplete
  <2>2. LongestOK' /\ PointsOK'
    BY <1>2, LongestStays DEF ReadInv, PointsOK, PointAt, NothingSealed
  <2>3. AttemptOK'
    BY <1>2 DEF ReadInv, AttemptOK, AttemptAt, Bound, Resumes, OwnBeyond, Room, ChildAt, Sealable,
       Complete, OptimizationComplete, SweepComplete
  <2> QED BY <2>1, <2>2, <2>3
<1>3. Inv'
  BY InvNext DEF ReadInv
<1>4. CASE OrphanWrites \/ OrphanEnds \/ UNCHANGED vars
  BY <1>2, <1>3, <1>4 DEF ReadInv, OrphanWrites, OrphanEnds, vars, diskVars
<1> QED BY <1>1, <1>4 DEF Next

(* The invariant of the evidence holds in every behaviour. *)
THEOREM ReadAlways == Spec => []ReadInv
<1>1. Init => ReadInv
  BY ReadInit
<1>2. ReadInv /\ [Next]_vars => ReadInv'
  BY ReadNext
<1> QED BY <1>1, <1>2, PTL DEF Spec

(* What makes the points unreadable is a publication cut in half. *)
LEMMA HalfKnown ==
    ASSUME ReadInv, ~(kind = "sweep" => PointsReadable)
    PROVE  HalfPublished
<1>1. request.root \in {"none", "bare", "indexed"} /\ request.points \in {request.entries, request.entries + 1}
  BY DEF ReadInv, Inv, Types, FileTypes, PointsOK
<1> QED BY <1>1 DEF PointsReadable, HalfPublished

LEMMA HistoryRead ==
    ASSUME ReadInv, ~AllVerified
    PROVE  HalfPublished
<1>1. PICK i \in DOMAIN finals : ~Verified(finals[i], SubSeq(finals, 1, i - 1))
  BY DEF AllVerified
<1>2. i \in 1 .. Len(finals)
  BY DEF ReadInv, Inv, Types, AttemptTypes
<1>3. VerifiedApart(finals[i], SubSeq(finals, 1, i - 1))
  BY <1>2 DEF ReadInv, SoundOK, Sound, Before
<1>4. ~(kind = "sweep" => PointsReadable)
  BY <1>1, <1>3 DEF VerifiedApart, Verified
<1> QED BY <1>4, HalfKnown

(* Every sealed attempt is found sound for ever, also after a later attempt    *)
(* has published the baseline or more points and whatever was cut short; and   *)
(* the inventory refuses the request only while its points are half published, *)
(* or when nothing is sealed in it.                                            *)
THEOREM HistoryStaysReadable == Spec => []HistoryReadable
<1>1. ReadInv => HistoryReadable
  <2> SUFFICES ASSUME ReadInv
               PROVE  HistoryReadable
    OBVIOUS
  <2>1. ASSUME NEW i \in DOMAIN finals
        PROVE  VerifiedApart(finals[i], SubSeq(finals, 1, i - 1))
    <3>1. i \in 1 .. Len(finals)
      BY DEF ReadInv, Inv, Types, AttemptTypes
    <3> QED BY <3>1 DEF ReadInv, SoundOK, Sound, Before
  <2>2. ASSUME ~Inventoried, ~HalfPublished
        PROVE  NothingSealed
    <3>1. kind = "sweep" => PointsReadable
      BY <2>2, HalfKnown
    <3>2. AllVerified
      BY <2>2, HistoryRead
    <3>3. ~request.json \/ (finals = <<>> /\ baseline = 0 /\ ~(request.entries > 0))
      BY <2>2, <3>1, <3>2 DEF Inventoried
    <3>4. request.entries \in Nat
      BY DEF ReadInv, Inv, Types, FileTypes
    <3> QED BY <3>3, <3>4 DEF NothingSealed, ReadInv, PointsOK
  <2> QED BY <2>1, <2>2 DEF HistoryReadable
<1> QED BY <1>1, ReadAlways, PTL

-----------------------------------------------------------------------------
(* Why an integrity error is raised *)

(* There is one highest chain: two of them agree wherever both have a ledger. *)
LEMMA HighestOnce ==
    ASSUME ReadInv
    PROVE  Cardinality(Highest) = 1
<1> USE DEF ReadInv, Inv, Types
<1>1. PICK c : c \in Highest
  BY DEF LongestOK
<1>2. ASSUME NEW d \in Highest
      PROVE  d = c
  <2>1. \A e \in Highest : e = <<>> \/ \E i \in 1 .. Len(finals) : e = finals[i].ledgers
    BY DEF Highest, Resumable, AttemptTypes
  <2>2. \A e \in Highest : e \in Chains /\ Len(e) \in Nat /\ (e = <<>> \/ e \in Resumable)
    <3>1. <<>> \in Chains /\ Len(<<>>) = 0
      BY DEF Chains
    <3>2. \A i \in 1 .. Len(finals) : finals[i].ledgers \in Chains /\ Len(finals[i].ledgers) \in Nat
      BY ChainTypes
    <3>3. \A e \in Highest : e \in Chains /\ Len(e) \in Nat
      BY <2>1, <3>1, <3>2
    <3>4. \A e \in Highest : e = <<>> \/ e \in Resumable
      BY DEF Highest
    <3> QED BY <3>3, <3>4
  <2>3. c \in Chains /\ d \in Chains /\ Len(c) \in Nat /\ Len(d) \in Nat /\ Len(<<>>) = 0
    BY <1>1, <2>2
  <2>4. CASE c = <<>> \/ d = <<>>
    <3>1. Len(c) = 0 /\ Len(d) = 0
      BY <1>1, <2>2, <2>3, <2>4 DEF Highest
    <3> QED BY <2>3, <3>1, EmptySeq DEF Chains
  <2>5. CASE c # <<>> /\ d # <<>>
    <3>1. Len(c) = Len(d)
      BY <1>1, <2>2, <2>3, <2>5 DEF Highest
    <3>2. Agree(c, d)
      BY <1>1, <2>1, <2>5 DEF LedgerOK, FinalsOK
    <3>3. \A g \in 1 .. Len(c) : c[g] = d[g]
      BY <2>3, <3>1, <3>2 DEF Agree
    <3> QED BY <2>3, <3>1, <3>3, SeqEqual DEF Chains
  <2> QED BY <2>4, <2>5
<1>3. Highest = {c}
  BY <1>1, <1>2
<1> QED BY <1>3, FS_Singleton

LEMMA PrefixOfSelf ==
    ASSUME NEW c \in Chains, NEW g \in 1 .. Len(c)
    PROVE  IsPrefix(SubSeq(c, 1, g), c) /\ IsPrefix(c, c)
<1>1. c \in Seq(Ids) /\ Len(c) \in Nat /\ g \in Nat /\ 1 <= g /\ g <= Len(c)
  BY DEF Chains
<1>2. SubSeq(c, 1, g) \in Seq(Ids) /\ Len(SubSeq(c, 1, g)) = g
  BY <1>1
<1>3. SubSeq(SubSeq(c, 1, g), 1, g) = SubSeq(c, 1, g)
  BY <1>2
<1> QED BY <1>1, <1>2, <1>3 DEF IsPrefix

(* The ledgers of the attempt are its own, or in the receipts of others. *)
LEMMA BackedNow ==
    ASSUME ReadInv, NEW p \in Procs, pc[p] \in Late
    PROVE  Backed(staging, finals)
<1> USE DEF ReadInv, Inv, Types
<1>1. staging \in Attempt /\ AttemptAt(p) /\ WorkOK
  BY Staged DEF AttemptOK, LedgerOK
<1>2. staging.ledgers \in Chains /\ staging.resume \in Chains
  BY <1>1 DEF Attempt
<1>3. /\ Len(staging.ledgers) \in Nat /\ Len(staging.resume) \in Nat
      /\ DOMAIN staging.ledgers = 1 .. Len(staging.ledgers)
      /\ staging.ledgers \in Seq(Ids)
  BY <1>2 DEF Chains
<1>4. SUFFICES ASSUME NEW g \in 1 .. Len(staging.ledgers), staging.ledgers[g] # staging.id
               PROVE  \E i \in DOMAIN finals :
                         /\ finals[i].id = staging.ledgers[g]
                         /\ IsPrefix(SubSeq(staging.ledgers, 1, g), finals[i].ledgers)
  BY <1>3 DEF Backed
<1>5. g <= Len(staging.resume)
  BY <1>1, <1>3, <1>4 DEF AttemptAt, OwnBeyond
<1>6. PICK i \in 1 .. Len(finals) : staging.resume = finals[i].ledgers
  BY <1>1, <1>3, <1>4, <1>5 DEF AttemptAt, Resumes
<1>7. PICK c : c = staging.resume
  OBVIOUS
<1>8. c \in Chains /\ c = finals[i].ledgers /\ g \in 1 .. Len(c) /\ c \in Seq(Ids) /\ Len(c) \in Nat
  BY <1>2, <1>3, <1>4, <1>5, <1>6, <1>7 DEF Chains
<1>9. \A h \in 1 .. g : staging.ledgers[h] = c[h]
  BY <1>1, <1>3, <1>4, <1>5, <1>7 DEF WorkOK, Agree
<1>10. SubSeq(staging.ledgers, 1, g) = SubSeq(c, 1, g)
  <2> DEFINE s == SubSeq(staging.ledgers, 1, g)
             t == SubSeq(c, 1, g)
  <2>1. s \in Seq(Ids) /\ Len(s) = g /\ \A h \in 1 .. g : s[h] = staging.ledgers[h]
    BY <1>3, <1>4
  <2>2. t \in Seq(Ids) /\ Len(t) = g /\ \A h \in 1 .. g : t[h] = c[h]
    BY <1>8
  <2> HIDE DEF s, t
  <2>3. \A h \in 1 .. g : s[h] = t[h]
    BY <1>9, <2>1, <2>2
  <2>4. s = t
    BY <2>1, <2>2, <2>3, SeqEqual
  <2> QED BY <2>4 DEF s, t
<1>11. Sound(finals[i], Before(i)) /\ g \in DOMAIN finals[i].ledgers /\ DOMAIN finals = 1 .. Len(finals)
  BY <1>8 DEF SoundOK, AttemptTypes
<1>12. \/ c[g] = finals[i].id
       \/ \E j \in DOMAIN Before(i) :
             Before(i)[j].id = c[g] /\ IsPrefix(SubSeq(c, 1, g), Before(i)[j].ledgers)
  BY <1>8, <1>11 DEF Sound, VerifiedApart, LedgersVerified, Backed
<1>13. \A j \in DOMAIN Before(i) : j \in DOMAIN finals /\ Before(i)[j] = finals[j]
  BY <1>11 DEF Before, AttemptTypes
<1>14. staging.ledgers[g] = c[g] /\ IsPrefix(SubSeq(c, 1, g), c)
  BY <1>4, <1>8, <1>9, PrefixOfSelf
<1> QED BY <1>8, <1>10, <1>11, <1>12, <1>13, <1>14

(* What is promoted can be verified, unless its points cannot be read. *)
LEMMA PromotionSound ==
    ASSUME ReadInv, NEW p \in Procs, pc[p] = "promote"
    PROVE  Sound(staging, finals)
<1> USE DEF ReadInv, Inv, Types
<1>1. staging \in Attempt /\ AttemptAt(p) /\ Sealable /\ Backed(staging, finals)
  BY Staged, BackedNow DEF AttemptOK, AttemptAt, ChildAt, Late
<1>2. ResumeFound(staging, finals)
  <2>1. CASE staging.resume = <<>>
    BY <2>1 DEF ResumeFound
  <2>2. CASE staging.resume # <<>>
    <3>1. PICK i \in 1 .. Len(finals) : staging.resume = finals[i].ledgers
      BY <1>1, <2>2 DEF AttemptAt, Resumes
    <3>2. staging.resume \in Chains /\ 1 \in 1 .. Len(staging.resume) /\ i \in DOMAIN finals
      BY <1>1, <2>2, EmptySeq DEF Attempt, Chains, AttemptTypes
    <3>3. IsPrefix(staging.resume, finals[i].ledgers)
      BY <3>1, <3>2, PrefixOfSelf
    <3> QED BY <3>2, <3>3 DEF ResumeFound
  <2> QED BY <2>1, <2>2
<1>3. BaselineBound(staging)
  BY <1>1 DEF AttemptAt, Bound, BaselineBound
<1>4. LedgersVerified(staging, finals)
  BY <1>1 DEF AttemptAt, Room, Sealable, LedgersVerified
<1> QED BY <1>1, <1>2, <1>3, <1>4 DEF Sound, VerifiedApart, Sealable

(* An integrity error has one of four causes. *)
LEMMA IntegrityCause ==
    ASSUME ReadInv, Inv, NEW p \in Procs, Acts(p), outcome[p] # "integrity", outcome'[p] = "integrity"
    PROVE  \/ HalfPublished
           \/ pc[p] = "run" /\ staging.cut
           \/ pc[p] = "allocate" /\ stray
           \/ pc[p] = "seal"
<1>1. CASE Call(p)
  BY <1>1 DEF Call, Goto, diskVars, Inv, Types, ProcessTypes
<1>2. CASE Look(p)
  BY <1>2, HistoryRead DEF Look, End, Goto, Release, Inv, Types, ProcessTypes
<1>3. CASE PrepareRuntime(p)
  BY <1>3 DEF PrepareRuntime, Goto, diskVars, Inv, Types, ProcessTypes
<1>4. CASE Lock(p)
  BY <1>4 DEF Lock, Goto, CleanStaging, Inv, Types, ProcessTypes
<1>5. CASE CleanupRaises(p)
  BY <1>5 DEF CleanupRaises, End, Goto, Release, diskVars, Inv, Types, ProcessTypes
<1>6. CASE Recheck(p)
  BY <1>6, HistoryRead DEF Recheck, End, Step, Holds, Inv, Types, ProcessTypes
<1>7. CASE Ensure(p)
  BY <1>7 DEF Ensure, Step, Holds, Goto, diskVars, End, Release, Inv, Types, ProcessTypes
<1>8. CASE WriteRequest(p)
  BY <1>8 DEF WriteRequest, Write, Step, Holds, Goto, Inv, Types, ProcessTypes
<1>9. CASE WriteAnchor(p)
  BY <1>9 DEF WriteAnchor, Write, Step, Holds, Goto, Inv, Types, ProcessTypes
<1>10. CASE MakePointRoot(p)
  BY <1>10 DEF MakePointRoot, Write, Step, Holds, Goto, Inv, Types, ProcessTypes
<1>11. CASE WriteFirstIndex(p)
  BY <1>11 DEF WriteFirstIndex, Write, Step, Holds, Goto, Inv, Types, ProcessTypes
<1>12. CASE Select(p)
  <2>1. ~EvidenceReadable
    BY <1>12 DEF Select, Step
  <2> QED BY <2>1, HalfKnown, HighestOnce DEF EvidenceReadable
<1>13. CASE Allocate(p)
  BY <1>13 DEF Allocate, Holds, End, Goto, Release, diskVars, Inv, Types, ProcessTypes
<1>14. CASE Launch(p)
  BY <1>14 DEF Launch, Step, Holds, Goto, diskVars, Inv, Types, ProcessTypes
<1>15. CASE LaunchFails(p)
  BY <1>15 DEF LaunchFails, Step, Holds, Goto, diskVars, Inv, Types, ProcessTypes
<1>16. CASE PublishBaseline(p)
  BY <1>16 DEF PublishBaseline, Runs, Holds, ChildGoes, Inv, Types, ProcessTypes
<1>17. CASE LoadBaseline(p)
  BY <1>17 DEF LoadBaseline, Runs, Holds, diskVars, ChildGoes, Inv, Types, ProcessTypes
<1>18. CASE ReplayRefused(p)
  BY <1>18 DEF ReplayRefused, Runs, Holds, Step, Goto, Stage, Inv, Types, ProcessTypes
<1>19. CASE OpenReplayed(p)
  BY <1>19 DEF OpenReplayed, Runs, Holds, Stage, ChildGoes, diskVars, Inv, Types, ProcessTypes
<1>20. CASE OpenLedger(p)
  BY <1>20 DEF OpenLedger, Runs, Holds, Stage, ChildGoes, Inv, Types, ProcessTypes
<1>21. CASE CloseLedger(p)
  BY <1>21 DEF CloseLedger, Runs, Holds, Stage, ChildGoes, Inv, Types, ProcessTypes
<1>22. CASE StartSweep(p)
  BY <1>22 DEF StartSweep, Runs, Holds, Stage, ChildGoes, Inv, Types, ProcessTypes
<1>23. CASE ComputePoint(p)
  BY <1>23 DEF ComputePoint, Runs, Holds, Step, Goto, diskVars, Inv, Types, ProcessTypes
<1>24. CASE RenewPointRoot(p)
  BY <1>24 DEF RenewPointRoot, Write, Step, Holds, Goto, Inv, Types, ProcessTypes
<1>25. CASE StagePoint(p)
  BY <1>25 DEF StagePoint, Write, Step, Holds, Goto, Inv, Types, ProcessTypes
<1>26. CASE RenamePoint(p)
  BY <1>26 DEF RenamePoint, Write, Step, Holds, Goto, Inv, Types, ProcessTypes
<1>27. CASE ListPoint(p)
  BY <1>27 DEF ListPoint, Write, Step, Holds, Goto, Inv, Types, ProcessTypes
<1>28. CASE ChildSucceeds(p)
  BY <1>28 DEF ChildSucceeds, Step, Holds, Goto, Stage, Inv, Types, ProcessTypes
<1>29. CASE ChildFails(p)
  BY <1>29 DEF ChildFails, Step, Holds, Goto, Stage, Inv, Types, ProcessTypes
<1>30. CASE ChildBreaks(p)
  BY <1>30 DEF ChildBreaks, Step, Holds, Goto, diskVars, Inv, Types, ProcessTypes
<1>31. CASE PublishRaises(p)
  BY <1>31 DEF PublishRaises, Step, Holds, Goto, diskVars, Inv, Types, ProcessTypes
<1>32. CASE SealProtocolFailure(p)
  <2>1. ~Countable
    BY <1>32 DEF SealProtocolFailure, Receipt, Step
  <2> QED BY <2>1, HalfKnown DEF Countable
<1>33. CASE Interrupt(p)
  <2>1. PICK at \in {"launch", "run", "point", "list", "validate"} :
          Holds(p, at) /\ (~LinksVerified \/ ~Countable)
    BY <1>33 DEF Interrupt, Receipt, Step
  <2>2. CASE ~Countable
    BY <2>2, HalfKnown DEF Countable
  <2>3. CASE ~LinksVerified
    <3>1. pc[p] \in Late /\ pc[p] # "fail"
      BY <2>1 DEF Holds, Late
    <3>2. staging.cut
      BY <2>3, <3>1, BackedNow DEF LinksVerified, ReadInv
    <3>3. pc[p] = "run"
      BY <3>1, <3>2 DEF ReadInv, AttemptOK, AttemptAt, ChildAt
    <3> QED BY <3>2, <3>3
  <2> QED BY <2>1, <2>2, <2>3
<1>34. CASE Validate(p)
  <2>1. ~Countable
    BY <1>34 DEF Validate, Receipt, Step
  <2> QED BY <2>1, HalfKnown DEF Countable
<1>35. CASE Promote(p)
  <2>1. pc[p] = "promote" /\ staging \in Attempt
    BY <1>35, Staged DEF Promote, Holds, Late, Inv, Types
  <2>2. staging.verdict # "integrity"
    BY <2>1 DEF Attempt, Verdicts
  <2>3. ~Verified(staging, finals)
    BY <1>35, <2>2 DEF Promote, End, Inv, Types, ProcessTypes
  <2>4. Sound(staging, finals)
    BY <2>1, PromotionSound
  <2>5. ~(kind = "sweep" => PointsReadable)
    BY <2>3, <2>4 DEF Verified, Sound, VerifiedApart
  <2> QED BY <2>5, HalfKnown
<1>36. CASE Stop(p)
  BY <1>36 DEF Stop, Goto, Release, diskVars, Inv, Types, ProcessTypes
<1>37. CASE CloseReplayed(p)
  BY <1>37 DEF CloseReplayed, ReplayedLedger, Runs, Holds, Stage, ChildGoes, diskVars, Inv, Types, ProcessTypes
<1>38. CASE Evolve(p)
  BY <1>38 DEF Evolve, Runs, Holds, Stage, ChildGoes, diskVars, Inv, Types, ProcessTypes
<1>39. CASE Authorize(p)
  BY <1>39 DEF Authorize, Step, Holds, Goto, diskVars, Inv, Types, ProcessTypes
<1>40. CASE SealCut(p)
  BY <1>40 DEF SealCut, Holds, End, Goto, Release, diskVars, Inv, Types, ProcessTypes
<1> QED BY <1>1, <1>2, <1>3, <1>4, <1>5, <1>6, <1>7, <1>8, <1>9, <1>10, <1>11, <1>12,
     <1>13, <1>14, <1>15, <1>16, <1>17, <1>18, <1>19, <1>20, <1>21, <1>22, <1>23, <1>24,
     <1>25, <1>26, <1>27, <1>28, <1>29, <1>30, <1>31, <1>32, <1>33, <1>34, <1>35, <1>36,
     <1>37, <1>38, <1>39, <1>40 DEF Acts, Prologue, Work, Epilogue

LEMMA OutcomeOwn ==
    ASSUME ProcessTypes, NEW p \in Procs, NEW q \in Procs, q # p, Acts(p)
    PROVE  outcome'[q] = outcome[q]
<1>1. CASE Call(p)
  BY <1>1 DEF Call, Goto, diskVars, ProcessTypes
<1>2. CASE Look(p)
  BY <1>2 DEF Look, End, Goto, Release, diskVars, ProcessTypes
<1>3. CASE PrepareRuntime(p)
  BY <1>3 DEF PrepareRuntime, Goto, diskVars, ProcessTypes
<1>4. CASE Lock(p)
  BY <1>4 DEF Lock, Goto, CleanStaging, ProcessTypes
<1>5. CASE CleanupRaises(p)
  BY <1>5 DEF CleanupRaises, End, Goto, Release, diskVars, ProcessTypes
<1>6. CASE Recheck(p)
  BY <1>6 DEF Recheck, Holds, End, Goto, Release, Step, diskVars, ProcessTypes
<1>7. CASE Ensure(p)
  BY <1>7 DEF Ensure, Step, Holds, Goto, diskVars, End, Release, ProcessTypes
<1>8. CASE WriteRequest(p)
  BY <1>8 DEF WriteRequest, Write, Step, Holds, Goto, ProcessTypes
<1>9. CASE WriteAnchor(p)
  BY <1>9 DEF WriteAnchor, Write, Step, Holds, Goto, ProcessTypes
<1>10. CASE MakePointRoot(p)
  BY <1>10 DEF MakePointRoot, Write, Step, Holds, Goto, ProcessTypes
<1>11. CASE WriteFirstIndex(p)
  BY <1>11 DEF WriteFirstIndex, Write, Step, Holds, Goto, ProcessTypes
<1>12. CASE Select(p)
  BY <1>12 DEF Select, diskVars, Step, Holds, Goto, End, Release, ProcessTypes
<1>13. CASE Allocate(p)
  BY <1>13 DEF Allocate, Holds, End, Goto, Release, diskVars, ProcessTypes
<1>14. CASE Launch(p)
  BY <1>14 DEF Launch, Step, Holds, Goto, diskVars, ProcessTypes
<1>15. CASE LaunchFails(p)
  BY <1>15 DEF LaunchFails, Step, Holds, Goto, diskVars, ProcessTypes
<1>16. CASE PublishBaseline(p)
  BY <1>16 DEF PublishBaseline, Runs, Holds, ChildGoes, ProcessTypes
<1>17. CASE LoadBaseline(p)
  BY <1>17 DEF LoadBaseline, Runs, Holds, diskVars, ChildGoes, ProcessTypes
<1>18. CASE ReplayRefused(p)
  BY <1>18 DEF ReplayRefused, Runs, Holds, Step, Goto, Stage, ProcessTypes
<1>19. CASE OpenReplayed(p)
  BY <1>19 DEF OpenReplayed, Runs, Holds, Stage, ChildGoes, diskVars, ProcessTypes
<1>20. CASE OpenLedger(p)
  BY <1>20 DEF OpenLedger, Runs, Holds, Stage, ChildGoes, ProcessTypes
<1>21. CASE CloseLedger(p)
  BY <1>21 DEF CloseLedger, Runs, Holds, Stage, ChildGoes, ProcessTypes
<1>22. CASE StartSweep(p)
  BY <1>22 DEF StartSweep, Runs, Holds, Stage, ChildGoes, ProcessTypes
<1>23. CASE ComputePoint(p)
  BY <1>23 DEF ComputePoint, Runs, Holds, Step, Goto, diskVars, ProcessTypes
<1>24. CASE RenewPointRoot(p)
  BY <1>24 DEF RenewPointRoot, Write, Step, Holds, Goto, ProcessTypes
<1>25. CASE StagePoint(p)
  BY <1>25 DEF StagePoint, Write, Step, Holds, Goto, ProcessTypes
<1>26. CASE RenamePoint(p)
  BY <1>26 DEF RenamePoint, Write, Step, Holds, Goto, ProcessTypes
<1>27. CASE ListPoint(p)
  BY <1>27 DEF ListPoint, Write, Step, Holds, Goto, ProcessTypes
<1>28. CASE ChildSucceeds(p)
  BY <1>28 DEF ChildSucceeds, Step, Holds, Goto, Stage, ProcessTypes
<1>29. CASE ChildFails(p)
  BY <1>29 DEF ChildFails, Step, Holds, Goto, Stage, ProcessTypes
<1>30. CASE ChildBreaks(p)
  BY <1>30 DEF ChildBreaks, Step, Holds, Goto, diskVars, ProcessTypes
<1>31. CASE PublishRaises(p)
  BY <1>31 DEF PublishRaises, Step, Holds, Goto, diskVars, ProcessTypes
<1>32. CASE SealProtocolFailure(p)
  BY <1>32 DEF SealProtocolFailure, Receipt, Holds, Step, Goto, End, Release, Stage,
     ProcessTypes
<1>33. CASE Interrupt(p)
  BY <1>33 DEF Interrupt, Holds, Receipt, Step, Goto, End, Release, Stage, diskVars,
     ProcessTypes
<1>34. CASE Validate(p)
  BY <1>34 DEF Validate, Holds, Receipt, Step, Goto, End, Release, Stage, diskVars,
     ProcessTypes
<1>35. CASE Promote(p)
  BY <1>35 DEF Promote, Holds, End, Goto, Release, diskVars, ProcessTypes
<1>36. CASE Stop(p)
  BY <1>36 DEF Stop, Goto, Release, diskVars, ProcessTypes
<1>37. CASE CloseReplayed(p)
  BY <1>37 DEF CloseReplayed, ReplayedLedger, Runs, Holds, Stage, ChildGoes, diskVars, ProcessTypes
<1>38. CASE Evolve(p)
  BY <1>38 DEF Evolve, Runs, Holds, Stage, ChildGoes, diskVars, ProcessTypes
<1>39. CASE Authorize(p)
  BY <1>39 DEF Authorize, Step, Holds, Goto, diskVars, ProcessTypes
<1>40. CASE SealCut(p)
  BY <1>40 DEF SealCut, Holds, End, Goto, Release, diskVars, ProcessTypes
<1> QED BY <1>1, <1>2, <1>3, <1>4, <1>5, <1>6, <1>7, <1>8, <1>9, <1>10, <1>11, <1>12,
     <1>13, <1>14, <1>15, <1>16, <1>17, <1>18, <1>19, <1>20, <1>21, <1>22, <1>23, <1>24,
     <1>25, <1>26, <1>27, <1>28, <1>29, <1>30, <1>31, <1>32, <1>33, <1>34, <1>35, <1>36,
     <1>37, <1>38, <1>39, <1>40 DEF Acts, Prologue, Work, Epilogue

(* ensure_request alone raises FileExistsError. *)
LEMMA ExistsCause ==
    ASSUME Types, StagedOK, NEW p \in Procs, Acts(p), outcome[p] # "exists", outcome'[p] = "exists"
    PROVE  ~request.json
<1> USE DEF Types
<1>1. CASE Call(p)
  BY <1>1 DEF Call, Goto, diskVars, ProcessTypes
<1>2. CASE Look(p)
  BY <1>2 DEF Look, End, Goto, Release, diskVars, ProcessTypes
<1>3. CASE PrepareRuntime(p)
  BY <1>3 DEF PrepareRuntime, Goto, diskVars, ProcessTypes
<1>4. CASE Lock(p)
  BY <1>4 DEF Lock, Goto, CleanStaging, ProcessTypes
<1>5. CASE CleanupRaises(p)
  BY <1>5 DEF CleanupRaises, End, Goto, Release, diskVars, ProcessTypes
<1>6. CASE Recheck(p)
  BY <1>6 DEF Recheck, Holds, End, Goto, Release, Step, diskVars, ProcessTypes
<1>7. CASE Ensure(p)
  BY <1>7 DEF Ensure, Step, Holds, Goto, diskVars, End, Release, ProcessTypes
<1>8. CASE WriteRequest(p)
  BY <1>8 DEF WriteRequest, Write, Step, Holds, Goto, ProcessTypes
<1>9. CASE WriteAnchor(p)
  BY <1>9 DEF WriteAnchor, Write, Step, Holds, Goto, ProcessTypes
<1>10. CASE MakePointRoot(p)
  BY <1>10 DEF MakePointRoot, Write, Step, Holds, Goto, ProcessTypes
<1>11. CASE WriteFirstIndex(p)
  BY <1>11 DEF WriteFirstIndex, Write, Step, Holds, Goto, ProcessTypes
<1>12. CASE Select(p)
  BY <1>12 DEF Select, diskVars, Step, Holds, Goto, End, Release, ProcessTypes
<1>13. CASE Allocate(p)
  BY <1>13 DEF Allocate, Holds, End, Goto, Release, diskVars, ProcessTypes
<1>14. CASE Launch(p)
  BY <1>14 DEF Launch, Step, Holds, Goto, diskVars, ProcessTypes
<1>15. CASE LaunchFails(p)
  BY <1>15 DEF LaunchFails, Step, Holds, Goto, diskVars, ProcessTypes
<1>16. CASE PublishBaseline(p)
  BY <1>16 DEF PublishBaseline, Runs, Holds, ChildGoes, ProcessTypes
<1>17. CASE LoadBaseline(p)
  BY <1>17 DEF LoadBaseline, Runs, Holds, diskVars, ChildGoes, ProcessTypes
<1>18. CASE ReplayRefused(p)
  BY <1>18 DEF ReplayRefused, Runs, Holds, Step, Goto, Stage, ProcessTypes
<1>19. CASE OpenReplayed(p)
  BY <1>19 DEF OpenReplayed, Runs, Holds, Stage, ChildGoes, diskVars, ProcessTypes
<1>20. CASE OpenLedger(p)
  BY <1>20 DEF OpenLedger, Runs, Holds, Stage, ChildGoes, ProcessTypes
<1>21. CASE CloseLedger(p)
  BY <1>21 DEF CloseLedger, Runs, Holds, Stage, ChildGoes, ProcessTypes
<1>22. CASE StartSweep(p)
  BY <1>22 DEF StartSweep, Runs, Holds, Stage, ChildGoes, ProcessTypes
<1>23. CASE ComputePoint(p)
  BY <1>23 DEF ComputePoint, Runs, Holds, Step, Goto, diskVars, ProcessTypes
<1>24. CASE RenewPointRoot(p)
  BY <1>24 DEF RenewPointRoot, Write, Step, Holds, Goto, ProcessTypes
<1>25. CASE StagePoint(p)
  BY <1>25 DEF StagePoint, Write, Step, Holds, Goto, ProcessTypes
<1>26. CASE RenamePoint(p)
  BY <1>26 DEF RenamePoint, Write, Step, Holds, Goto, ProcessTypes
<1>27. CASE ListPoint(p)
  BY <1>27 DEF ListPoint, Write, Step, Holds, Goto, ProcessTypes
<1>28. CASE ChildSucceeds(p)
  BY <1>28 DEF ChildSucceeds, Step, Holds, Goto, Stage, ProcessTypes
<1>29. CASE ChildFails(p)
  BY <1>29 DEF ChildFails, Step, Holds, Goto, Stage, ProcessTypes
<1>30. CASE ChildBreaks(p)
  BY <1>30 DEF ChildBreaks, Step, Holds, Goto, diskVars, ProcessTypes
<1>31. CASE PublishRaises(p)
  BY <1>31 DEF PublishRaises, Step, Holds, Goto, diskVars, ProcessTypes
<1>32. CASE SealProtocolFailure(p)
  BY <1>32 DEF SealProtocolFailure, Receipt, Holds, Step, Goto, End, Release, Stage,
     ProcessTypes
<1>33. CASE Interrupt(p)
  BY <1>33 DEF Interrupt, Holds, Receipt, Step, Goto, End, Release, Stage, diskVars,
     ProcessTypes
<1>34. CASE Validate(p)
  BY <1>34 DEF Validate, Holds, Receipt, Step, Goto, End, Release, Stage, diskVars,
     ProcessTypes
<1>35. CASE Promote(p)
  <2>1. staging \in Attempt
    BY <1>35, Staged DEF Promote, Holds, Late
  <2>2. staging.verdict # "exists"
    BY <2>1 DEF Attempt, Verdicts
  <2> QED BY <1>35, <2>2 DEF Promote, End, ProcessTypes
<1>36. CASE Stop(p)
  BY <1>36 DEF Stop, Goto, Release, diskVars, ProcessTypes
<1>37. CASE CloseReplayed(p)
  BY <1>37 DEF CloseReplayed, ReplayedLedger, Runs, Holds, Stage, ChildGoes, diskVars, ProcessTypes
<1>38. CASE Evolve(p)
  BY <1>38 DEF Evolve, Runs, Holds, Stage, ChildGoes, diskVars, ProcessTypes
<1>39. CASE Authorize(p)
  BY <1>39 DEF Authorize, Step, Holds, Goto, diskVars, ProcessTypes
<1>40. CASE SealCut(p)
  BY <1>40 DEF SealCut, Holds, End, Goto, Release, diskVars, ProcessTypes
<1> QED BY <1>1, <1>2, <1>3, <1>4, <1>5, <1>6, <1>7, <1>8, <1>9, <1>10, <1>11, <1>12,
     <1>13, <1>14, <1>15, <1>16, <1>17, <1>18, <1>19, <1>20, <1>21, <1>22, <1>23, <1>24,
     <1>25, <1>26, <1>27, <1>28, <1>29, <1>30, <1>31, <1>32, <1>33, <1>34, <1>35, <1>36,
     <1>37, <1>38, <1>39, <1>40 DEF Acts, Prologue, Work, Epilogue

(* What a cut leaves behind makes a call raise EvidenceIntegrityError in four  *)
(* cases only: points half published, a temporary ledger at the moment of an   *)
(* interrupt, an orphan that makes its directory again, an attempt.json that   *)
(* the caller does not know of; and FileExistsError only where nothing was     *)
(* sealed.                                                                     *)
THEOREM IntegrityErrorsHaveCauses == Spec => IntegrityErrorsKnown
<1> DEFINE Known ==
        \A p \in Procs :
           /\ outcome[p] # "integrity" /\ outcome'[p] = "integrity" =>
                  \/ HalfPublished
                  \/ pc[p] = "run" /\ staging.cut
                  \/ pc[p] = "allocate" /\ stray
                  \/ pc[p] = "seal"
           /\ outcome[p] # "exists" /\ outcome'[p] = "exists" => NothingSealed
<1>1. ASSUME ReadInv, [Next]_vars
      PROVE  Known
  <2>1. ASSUME NEW p \in Procs, outcome'[p] # outcome[p]
        PROVE  Acts(p)
    <3>1. PICK q \in Procs : Acts(q)
      BY <1>1, <2>1 DEF Next, Acts, OrphanWrites, OrphanEnds, vars
    <3>2. q = p
      BY <1>1, <2>1, <3>1, OutcomeOwn DEF ReadInv, Inv, Types
    <3> QED BY <3>1, <3>2
  <2>2. ASSUME NEW p \in Procs, outcome[p] # "integrity", outcome'[p] = "integrity"
        PROVE  \/ HalfPublished
               \/ pc[p] = "run" /\ staging.cut
               \/ pc[p] = "allocate" /\ stray
               \/ pc[p] = "seal"
    BY <1>1, <2>1, <2>2, IntegrityCause DEF ReadInv
  <2>3. ASSUME NEW p \in Procs, outcome[p] # "exists", outcome'[p] = "exists"
        PROVE  NothingSealed
    <3>1. ~request.json
      BY <1>1, <2>1, <2>3, ExistsCause DEF ReadInv, Inv
    <3> QED BY <1>1, <3>1 DEF ReadInv, PointsOK
  <2> QED BY <2>2, <2>3
<1>2. ReadInv /\ [Next]_vars => [Known]_vars
  BY <1>1
<1> QED BY <1>2, ReadAlways, PTL DEF Spec, IntegrityErrorsKnown

-----------------------------------------------------------------------------
(* The leaf implements the history of its documentation *)

Units == IF kind = "direct" THEN 0 ELSE Size

LEMMA StatusIs ==
    /\ Succeeded => Status = "succeeded"
    /\ ~Succeeded /\ finals # <<>> => Status \in {"failed", "interrupted"}
    /\ ~Succeeded /\ finals = <<>> /\ baseline = 0 /\ request.entries = 0 => Status = "none"
    /\ ~Succeeded /\ finals = <<>> /\ ~(baseline = 0 /\ request.entries = 0) => Status = "partial"
<1>1. Succeeded => finals # <<>>
  BY DEF Succeeded
<1>2. Succeeded => Status = "succeeded"
  BY <1>1 DEF Status
<1>3. ~Succeeded /\ finals # <<>> => Status \in {"failed", "interrupted"}
  BY DEF Status
<1>4. /\ ~Succeeded /\ finals = <<>> /\ baseline = 0 /\ request.entries = 0 => Status = "none"
      /\ ~Succeeded /\ finals = <<>> /\ ~(baseline = 0 /\ request.entries = 0) => Status = "partial"
  BY DEF Status
<1> QED BY <1>2, <1>3, <1>4

(* What is sealed: the number of points, or the length of the longest chain. *)
SealedOK ==
    /\ Sealed \in Nat /\ Sealed <= Units /\ Units \in Nat
    /\ kind = "sweep" => Sealed = request.entries
    /\ kind = "direct" => Sealed = 0
    /\ kind = "optimize" =>
          /\ \A i \in 1 .. Len(finals) : Len(finals[i].ledgers) <= Sealed
          /\ Sealed = 0 \/ \E i \in 1 .. Len(finals) : Sealed = Len(finals[i].ledgers)

(* SealedOK holds of every state of the invariant. *)
LEMMA SealedIs ==
    ReadInv => SealedOK
<1> SUFFICES ASSUME ReadInv
             PROVE  SealedOK
  OBVIOUS
<1> USE DEF ReadInv, Inv, Types, SealedOK
<1>1. kind \in {"direct", "sweep", "optimize"} /\ Size \in Nat /\ request.entries \in Nat /\ request.entries <= Size
  BY LeafAssumption DEF FileTypes, PointsOK
<1>2. CASE kind = "direct"
  BY <1>1, <1>2 DEF Sealed, Units
<1>3. CASE kind = "sweep"
  BY <1>1, <1>3 DEF Sealed, Units
<1>4. CASE kind = "optimize" /\ finals = <<>>
  <2>1. Sealed = 0 /\ Len(finals) = 0
    BY <1>4 DEF Sealed
  <2> QED BY <1>1, <1>4, <2>1 DEF Units
<1>5. CASE kind = "optimize" /\ finals # <<>>
  <2> DEFINE chains == {finals[i].ledgers : i \in DOMAIN finals}
             longest == CHOOSE c \in chains : \A i \in DOMAIN finals : Len(finals[i].ledgers) <= Len(c)
  <2>1. Sealed = Len(longest)
    BY <1>5 DEF Sealed
  <2>2. DOMAIN finals = 1 .. Len(finals)
    BY DEF AttemptTypes
  <2>3. PICK i \in 1 .. Len(finals) : Tops(i)
    BY <1>5 DEF LongestOK
  <2>4. finals[i].ledgers \in chains /\ \A j \in DOMAIN finals : Len(finals[j].ledgers) <= Len(finals[i].ledgers)
    BY <2>2, <2>3 DEF Tops
  <2>5. longest \in chains /\ \A j \in DOMAIN finals : Len(finals[j].ledgers) <= Len(longest)
    BY <2>4
  <2>6. PICK j \in 1 .. Len(finals) : longest = finals[j].ledgers
    BY <2>2, <2>5
  <2> HIDE DEF longest, chains
  <2>7. Len(longest) \in Nat /\ Len(longest) <= Size
    BY <2>6, ChainTypes DEF LongestOK
  <2> QED BY <1>1, <1>5, <2>1, <2>2, <2>5, <2>6, <2>7 DEF Units
<1> QED BY <1>1, <1>2, <1>3, <1>4, <1>5

(* The steps of the history, in terms of the leaf. *)
LEMMA PublishUnitIs ==
    ASSUME Status # "succeeded", Sealed' \in {Sealed, Sealed + 1}, Sealed' <= Units,
           Status' = (IF Status = "none" THEN "partial" ELSE Status),
           UNCHANGED <<kind, finals>>
    PROVE  History!HistoryNext
BY DEF History!HistoryNext, History!PublishUnit, History!Started, Units

LEMMA AppendAttemptIs ==
    ASSUME Status # "succeeded", Len(finals') = Len(finals) + 1,
           Status' \in {"failed", "interrupted", "succeeded"}, Sealed' \in Sealed .. Units,
           Status' = "succeeded" => Sealed' = Units, kind' = kind
    PROVE  History!HistoryNext
BY DEF History!HistoryNext, History!AppendAttempt, Units

LEMMA HistoryStays ==
    ASSUME UNCHANGED <<kind, baseline, finals>>, request'.entries = request.entries
    PROVE  UNCHANGED History!history
<1>1. Succeeded' = Succeeded
  BY DEF Succeeded
<1>2. Status' = Status
  BY <1>1 DEF Status
<1>3. Sealed' = Sealed
  BY DEF Sealed
<1> QED BY <1>2, <1>3 DEF History!history

(* The baseline is published. *)
LEMMA BaselineStep ==
    ASSUME ReadInv, ReadInv', NEW p \in Procs, pc[p] = "run", UNCHANGED <<kind, request, finals>>,
           baseline = 0, baseline' # 0, kind = "optimize"
    PROVE  [History!HistoryNext]_(History!history)
<1>1. ~Succeeded /\ ~Succeeded'
  BY DEF ReadInv, Inv, DoneOK, Succeeded, Inside, Late
<1>2. Sealed' = Sealed
  BY DEF Sealed
<1>3. Sealed \in Nat /\ Sealed <= Units
  BY SealedIs DEF SealedOK
<1>4. CASE finals = <<>>
  <2>1. Status \in {"none", "partial"} /\ Status' = "partial"
    <3>1. Status \in {"none", "partial"}
      BY <1>1, <1>4, StatusIs
    <3>2. Status' = "partial"
      BY <1>1, <1>4 DEF Status
    <3> QED BY <3>1, <3>2
  <2> QED BY <1>2, <1>3, <2>1, PublishUnitIs
<1>5. CASE finals # <<>>
  <2>1. Status' = Status
    BY <1>1, <1>5 DEF Status
  <2> QED BY <1>2, <2>1 DEF History!history
<1> QED BY <1>4, <1>5

(* A point is listed. *)
LEMMA PointListed ==
    ASSUME ReadInv, ReadInv', NEW p \in Procs, pc[p] = "list", UNCHANGED <<kind, baseline, finals>>,
           request'.entries = request.entries + 1
    PROVE  [History!HistoryNext]_(History!history)
<1>1. ~Succeeded /\ ~Succeeded' /\ kind = "sweep"
  BY DEF ReadInv, Inv, DoneOK, SelectOK, Succeeded, Inside, Late
<1>2. Sealed = request.entries /\ Sealed' = request.entries + 1
  BY <1>1 DEF Sealed
<1>3. request.entries \in Nat /\ request.entries < Size /\ Size \in Nat /\ Units = Size
  BY <1>1, LeafAssumption DEF ReadInv, Inv, Types, FileTypes, PointsOK, PointAt, Units
<1>4. Status # "succeeded" /\ Status' = (IF Status = "none" THEN "partial" ELSE Status)
  <2>1. CASE finals = <<>>
    <3>1. Status \in {"none", "partial"}
      BY <1>1, <2>1, StatusIs
    <3>2. request'.entries # 0
      BY <1>3
    <3>3. Status' = "partial"
      BY <1>1, <2>1, <3>2 DEF Status
    <3> QED BY <3>1, <3>3
  <2>2. CASE finals # <<>>
    <3>1. Status' = Status
      BY <1>1, <2>2 DEF Status
    <3> QED BY <1>1, <2>2, <3>1, StatusIs
  <2> QED BY <2>1, <2>2
<1> QED BY <1>2, <1>3, <1>4, PublishUnitIs

(* An attempt is promoted. *)
LEMMA PromotionStep ==
    ASSUME ReadInv, ReadInv', NEW p \in Procs, pc[p] = "promote", UNCHANGED <<kind, request, baseline>>,
           Verified(staging, finals), finals' = Append(finals, staging)
    PROVE  [History!HistoryNext]_(History!history)
<1>1. ~Succeeded /\ staging \in Attempt /\ finals \in Seq(Attempt)
  BY Staged DEF ReadInv, Inv, Types, AttemptTypes, DoneOK, Inside, Late
<1>a. PICK n : n = Len(finals)
  OBVIOUS
<1>2. /\ n \in Nat /\ Len(finals') = n + 1 /\ finals'[n + 1] = staging
      /\ \A i \in 1 .. n : finals'[i] = finals[i]
      /\ DOMAIN finals = 1 .. n /\ DOMAIN finals' = 1 .. n + 1
      /\ \A i \in 1 .. n + 1 : i \in 1 .. n \/ i = n + 1
      /\ \A i \in 1 .. n : i \in 1 .. n + 1
      /\ n + 1 \in 1 .. n + 1
  BY <1>1, <1>a
<1>3. Succeeded' <=> staging.verdict = "success"
  BY <1>1, <1>2 DEF Succeeded
<1>4. Status # "succeeded" /\ Status' \in {"failed", "interrupted", "succeeded"}
      /\ (Status' = "succeeded" => staging.verdict = "success")
  <2>1. finals' # <<>>
    BY <1>2
  <2>2. Status' = "succeeded" \/ Status' \in {"failed", "interrupted"}
    BY <2>1 DEF Status
  <2>3. ~Succeeded' => Status' \in {"failed", "interrupted"}
    BY <2>1 DEF Status
  <2>4. Status # "succeeded"
    BY <1>1, StatusIs
  <2> QED BY <1>3, <2>2, <2>3, <2>4
<1>5. /\ Sealed \in Nat /\ Sealed <= Units /\ Units \in Nat
      /\ kind = "sweep" => Sealed = request.entries
      /\ kind = "direct" => Sealed = 0
      /\ kind = "optimize" =>
            Sealed = 0 \/ \E i \in 1 .. n : Sealed = Len(finals[i].ledgers)
  BY <1>a, SealedIs DEF SealedOK
<1>6. /\ Sealed' \in Nat /\ Sealed' <= Units /\ Units' = Units
      /\ kind = "sweep" => Sealed' = request.entries
      /\ kind = "direct" => Sealed' = 0
      /\ kind = "optimize" => \A i \in 1 .. n + 1 : Len(finals'[i].ledgers) <= Sealed'
  <2>1. SealedOK'
    BY SealedIs, PTL
  <2>2. Units' = Units
    BY DEF Units
  <2> QED BY <1>2, <2>1, <2>2 DEF SealedOK
<1>7. kind \in {"direct", "sweep", "optimize"}
  BY LeafAssumption DEF ReadInv, Inv, Types, FileTypes
<1>8. Sealed <= Sealed'
  <2>1. CASE kind = "optimize"
    <3>1. \A i \in 1 .. n : Len(finals[i].ledgers) <= Sealed'
      BY <1>2, <1>6, <2>1
    <3> QED BY <1>5, <1>6, <2>1, <3>1
  <2>2. CASE kind # "optimize"
    BY <1>5, <1>6, <1>7, <2>2
  <2> QED BY <2>1, <2>2
<1>9. staging.verdict = "success" => Sealed' = Units
  <2> SUFFICES ASSUME staging.verdict = "success"
               PROVE  Sealed' = Units
    OBVIOUS
  <2>1. Complete(staging)
    BY DEF Verified
  <2>2. CASE kind = "optimize"
    <3>1. Len(staging.ledgers) = Size /\ Size <= Sealed' /\ Units = Size /\ Size \in Nat
      BY <1>2, <1>6, <2>1, <2>2, LeafAssumption DEF Complete, OptimizationComplete, Units
    <3> QED BY <1>6, <3>1
  <2>3. CASE kind = "sweep"
    BY <1>6, <2>1, <2>3 DEF Complete, SweepComplete, Units
  <2>4. CASE kind = "direct"
    BY <1>6, <2>4 DEF Units
  <2> QED BY <1>7, <2>2, <2>3, <2>4
<1>10. Sealed' \in Sealed .. Units
  BY <1>5, <1>6, <1>8
<1> QED BY <1>a, <1>2, <1>4, <1>9, <1>10, AppendAttemptIs

LEMMA HistorySteps ==
    ASSUME ReadInv, ReadInv', [Next]_vars
    PROVE  [History!HistoryNext]_(History!history)
<1>1. ASSUME NEW p \in Procs, Acts(p)
      PROVE  [History!HistoryNext]_(History!history)
  <2>1. kind' = kind /\ Publication(p) /\ baseline \in Nat
    BY <1>1, KindKept, StepPublishes DEF ReadInv, Inv, Types, FileTypes
  <2>2. CASE UNCHANGED <<baseline, finals>> /\ request'.entries = request.entries
    BY <2>1, <2>2, HistoryStays
  <2>3. CASE /\ pc[p] = "run" /\ kind = "optimize" /\ baseline' = (IF baseline = 0 THEN staging.id ELSE baseline)
             /\ UNCHANGED <<request, finals, staging>>
    <3>1. staging.id # 0
      BY <2>3, Staged DEF ReadInv, Inv, Types, Late, Attempt, Ids
    <3>2. CASE baseline = 0
      BY <2>1, <2>3, <3>1, <3>2, BaselineStep
    <3>3. CASE baseline # 0
      BY <2>1, <2>3, <3>3, HistoryStays
    <3> QED BY <3>2, <3>3
  <2>4. CASE pc[p] = "list" /\ UNCHANGED <<baseline, finals>> /\ request'.entries = request.entries + 1
    BY <2>1, <2>4, PointListed
  <2>5. CASE /\ pc[p] = "promote" /\ Verified(staging, finals)
             /\ finals' = Append(finals, staging) /\ UNCHANGED <<request, baseline>>
    BY <2>1, <2>5, PromotionStep
  <2> QED BY <2>1, <2>2, <2>3, <2>4, <2>5 DEF Publication
<1>2. CASE OrphanWrites \/ OrphanEnds \/ UNCHANGED vars
  BY <1>2, HistoryStays DEF OrphanWrites, OrphanEnds, vars, diskVars
<1> QED BY <1>1, <1>2 DEF Next, Acts

(* Attempts are only appended, sealed points and generations are never taken   *)
(* back, and a success comes once, is complete and is the last attempt: the    *)
(* leaf is a RequestHistory.                                                   *)
THEOREM LeafImplementsHistory == Spec => ImplementsHistory
<1>1. Init => History!HistoryInit
  <2> SUFFICES ASSUME Init
               PROVE  History!HistoryInit
    OBVIOUS
  <2>1. ~Succeeded /\ finals = <<>> /\ baseline = 0 /\ request.entries = 0 /\ Len(<<>>) = 0
    BY DEF Init, Succeeded, EmptyRequest
  <2>2. Status = "none"
    BY <2>1, StatusIs
  <2>3. Sealed = 0
    <3>1. ReadInv
      BY ReadInit
    <3>2. kind \in {"direct", "sweep", "optimize"}
      BY LeafAssumption DEF Init
    <3> QED BY <2>1, <3>1, <3>2, SealedIs DEF SealedOK
  <2>4. (IF kind = "direct" THEN 0 ELSE Size) \in Nat
    BY LeafAssumption
  <2> QED BY <2>1, <2>2, <2>3, <2>4 DEF History!HistoryInit
<1>2. ReadInv /\ ReadInv' /\ [Next]_vars => [History!HistoryNext]_(History!history)
  BY HistorySteps
<1> QED BY <1>1, <1>2, ReadAlways, PTL DEF Spec, ImplementsHistory, History!HistorySpec

=============================================================================
