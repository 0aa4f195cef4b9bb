----------------------------- MODULE RequestLeaf -----------------------------
(***************************************************************************)
(* One request of a Plan leaf and the attempts made at it: the coordinator   *)
(* (execution/coordinator.py), the evidence it publishes (workspace/store.py *)
(* and workspace/validation), and what the Julia child leaves in its staging *)
(* directory (_julia/src/optimization.jl, batch_v2.jl).                      *)
(*                                                                           *)
(* A request has Size units of work: the CMA generations of an optimization, *)
(* the points of a sweep; a direct request has none.  Bytes and hashes are   *)
(* reduced to the attempt that produced them.  A generation ledger carries   *)
(* its producer and the hash of its predecessor, so the hash of the last     *)
(* ledger stands for the whole chain of producers.                           *)
(*                                                                           *)
(* A call takes these steps (pc):                                            *)
(*   look (reader), prepare, wait, recheck (writer), ensure .. index,        *)
(*   select, allocate, launch, seal (attempt.json is written), run (the      *)
(*   child works; point, stage and list publish a sweep point), validate,    *)
(*   fail, promote.                                                          *)
(***************************************************************************)
EXTENDS Integers, Sequences, FiniteSets, SequencesExt

CONSTANTS
    Procs,          \* processes that hold a Run of the leaf
    NoProc,         \* no process
    NoAttempt,      \* no staging directory
    Kinds,          \* kinds of request explored
    Size,           \* generations of an optimization, points of a sweep
    MaxCalls,       \* bound: number of calls explored, hence of attempts
    FailAt          \* bound: the steps at which a call may be cut short

Labels == {"look", "prepare", "wait", "recheck", "ensure", "json", "anchor", "root", "index",
           "select", "allocate", "launch", "seal", "run", "point", "stage", "list", "validate", "fail", "promote"}

(* An attempt is numbered as it is allocated; a chain of ledgers is the       *)
(* sequence of the attempts that produced them.                               *)
Ids == Nat \ {0}
Chains == Seq(Ids)

(* population: a failure whose context names a candidate of the population.   *)
Verdicts == {"none", "success", "failure", "population", "protocol", "interrupted"}

Attempt == [id : Ids, resume : Chains, pair : BOOLEAN, ledgers : Chains, cut : BOOLEAN,
            parts : BOOLEAN, verdict : Verdicts, points : Nat]

ASSUME LeafAssumption ==
    /\ Size \in Nat \ {0}
    /\ MaxCalls \in Nat
    /\ Kinds \subseteq {"direct", "sweep", "optimize"}
    /\ FailAt \subseteq Labels
    /\ NoProc \notin Procs
    /\ NoAttempt \notin Attempt

VARIABLES
    kind,           \* the kind of the request, from its document
    \* The request directory (durable).
    request,        \* its files: directory, request.json, anchor, point index and points
    baseline,       \* the attempt that produced baseline-checkpoint, or 0
    finals,         \* the attempts promoted, in order of their ordinals
    staging,        \* the staging directory of the last attempt, or NoAttempt
    stray,          \* is there a staging directory of an older attempt?
    \* flock() on the root: the writer, held for a whole attempt.
    owner,
    \* Processes (volatile).
    pc,
    child,          \* what the child of the owner does
    orphan,         \* does the child of a dead process still run?
    \* Observation.
    outcome,        \* how the last call of a process ended
    fresh,          \* number of attempts allocated
    calls           \* number of calls started

diskVars == <<request, baseline, finals, staging, stray>>
vars == <<kind, diskVars, owner, pc, child, orphan, outcome, fresh, calls>>

EmptyRequest == [dir |-> FALSE, json |-> FALSE, anchor |-> FALSE,
                 root |-> "none", entries |-> 0, points |-> 0, stage |-> FALSE]

NewAttempt(id, resume) ==
    [id |-> id, resume |-> resume, pair |-> baseline # 0, ledgers |-> <<>>, cut |-> FALSE,
     parts |-> FALSE, verdict |-> "none", points |-> 0]

-----------------------------------------------------------------------------
(* Verification of evidence *)

(* _verify_point_checkpoints: the index covers exactly what is there. *)
PointsReadable ==
    \/ request.root = "none" /\ ~request.anchor
    \/ request.root = "indexed" /\ request.points = request.entries /\ ~request.stage

(* _prior_ledger_is_receipt_backed, _verify_generation_artifacts: a ledger   *)
(* is the attempt's own or byte-identical to one in the receipt of an        *)
(* earlier attempt that produced it.                                         *)
Backed(attempt, prior) ==
    \A g \in DOMAIN attempt.ledgers :
        \/ attempt.ledgers[g] = attempt.id
        \/ \E i \in DOMAIN prior :
              /\ prior[i].id = attempt.ledgers[g]
              /\ IsPrefix(SubSeq(attempt.ledgers, 1, g), prior[i].ledgers)

(* Mutant: every attempt but the producer must name the checkpoint. *)
AlwaysConsumes(attempt) == TRUE

(* _verify_attempt_checkpoint_consumption: the attempt used the baseline. *)
Consumes(attempt) ==
    attempt.resume # <<>> \/ attempt.verdict \in {"success", "population"} \/ attempt.ledgers # <<>>

BaselineBound(attempt) ==
    IF baseline = 0 THEN ~attempt.pair
    ELSE attempt.id = baseline \/ (Consumes(attempt) => attempt.pair)

ResumeFound(attempt, prior) ==
    attempt.resume = <<>> \/ \E i \in DOMAIN prior : IsPrefix(attempt.resume, prior[i].ledgers)

(* _verify_generation_artifacts: the ledgers bind the baseline, each has its  *)
(* producer, and nothing but ledgers lies beside them.                        *)
LedgersVerified(attempt, prior) ==
    /\ attempt.ledgers # <<>> => baseline # 0
    /\ Backed(attempt, prior)
    /\ ~attempt.cut
    /\ attempt.verdict # "success" => ~attempt.parts

(* _verify_parameter_sweep_artifacts: a point for every published checkpoint, *)
(* and a checkpoint for every point of the request.                           *)
SweepComplete == request.entries = Size

(* _verify_optimization_result: every generation, on a published baseline. *)
OptimizationComplete(attempt) == Len(attempt.ledgers) = Size /\ baseline # 0

Complete(attempt) ==
    /\ kind = "optimize" => OptimizationComplete(attempt)
    /\ kind = "sweep" => SweepComplete

(* WorkspaceBinding._verify_attempt, given the attempts before it. *)
Verified(attempt, prior) ==
    /\ ResumeFound(attempt, prior)
    /\ kind = "sweep" => PointsReadable /\ attempt.points <= request.entries
    /\ kind = "optimize" => BaselineBound(attempt)
    /\ LedgersVerified(attempt, prior)
    /\ attempt.verdict = "success" => Complete(attempt)

AllVerified == \A i \in DOMAIN finals : Verified(finals[i], SubSeq(finals, 1, i - 1))

Succeeded == \E i \in DOMAIN finals : finals[i].verdict = "success"

(* Mutant: the ledgers of the latest attempt. *)
LatestLedgers == IF finals = <<>> THEN {} ELSE {finals[Len(finals)].ledgers}

(* resume_ledger_sha256: the chains of the attempts that may be resumed. *)
Resumable == {finals[i].ledgers : i \in {j \in DOMAIN finals : finals[j].verdict # "success"}}

Highest == {c \in Resumable \cup {<<>>} : \A d \in Resumable : Len(d) <= Len(c)}

(* finalized_attempt_ledgers: Julia takes a ledger of a failed sibling only   *)
(* if the sibling itself produced it, and refuses to go on otherwise.         *)
SiblingsAccepted ==
    \A i \in DOMAIN finals :
        finals[i].verdict # "success" =>
            \A g \in DOMAIN finals[i].ledgers : finals[i].ledgers[g] = finals[i].id

-----------------------------------------------------------------------------
(* Control *)

Goto(p, label) == pc' = [pc EXCEPT ![p] = label]

Holds(p, label) == owner = p /\ pc[p] = label

Release(p) == owner' = IF owner = p THEN NoProc ELSE owner

(* The call returns or raises: the lock is released. *)
End(p, how) ==
    /\ Goto(p, "idle")
    /\ Release(p)
    /\ child' = "none"
    /\ outcome' = [outcome EXCEPT ![p] = how]
    /\ UNCHANGED <<kind, orphan, fresh, calls>>

(* One more step of the call, which changes only what is written below the   *)
(* request directory.                                                        *)
Step(p, from, to) ==
    /\ Holds(p, from)
    /\ Goto(p, to)
    /\ UNCHANGED <<kind, owner, orphan, outcome, fresh, calls>>

Call(p) ==
    /\ pc[p] = "idle" /\ calls < MaxCalls
    /\ calls' = calls + 1
    /\ Goto(p, "look")
    /\ outcome' = [outcome EXCEPT ![p] = "none"]
    /\ UNCHANGED <<kind, diskVars, owner, child, orphan, fresh>>

-----------------------------------------------------------------------------
(* execute_prepared: look for a success, under the shared and the exclusive lock *)

Look(p) ==
    /\ pc[p] = "look" /\ owner = NoProc
    /\ \/ ~AllVerified /\ End(p, "integrity")
       \/ AllVerified /\ Succeeded /\ End(p, "reused")
       \/ /\ AllVerified /\ ~Succeeded
          /\ Goto(p, "prepare")
          /\ UNCHANGED <<kind, owner, child, orphan, outcome, fresh, calls>>
    /\ UNCHANGED diskVars

(* prepare_runtime, outside of any lock *)
PrepareRuntime(p) ==
    /\ pc[p] = "prepare"
    /\ Goto(p, "wait")
    /\ UNCHANGED <<kind, diskVars, owner, child, orphan, outcome, fresh, calls>>

(* _cleanup_staging *)
CleanStaging ==
    /\ staging' = NoAttempt /\ stray' = FALSE
    /\ request' = [request EXCEPT !.stage = FALSE]

(* Mutant: the writer does not wait for the lock. *)
LockWithoutWaiting(p) ==
    /\ pc[p] = "wait"
    /\ owner' = p
    /\ Goto(p, "recheck")
    /\ CleanStaging
    /\ UNCHANGED <<kind, baseline, finals, child, orphan, outcome, fresh, calls>>

(* WorkspaceBinding.writer *)
Lock(p) ==
    /\ pc[p] = "wait" /\ owner = NoProc
    /\ owner' = p
    /\ Goto(p, "recheck")
    /\ CleanStaging
    /\ UNCHANGED <<kind, baseline, finals, child, orphan, outcome, fresh, calls>>

(* rmtree() fails when the orphan writes into what it removes. *)
CleanupRaises(p) ==
    /\ pc[p] = "wait" /\ owner = NoProc /\ orphan
    /\ End(p, "raised")
    /\ UNCHANGED diskVars

(* Mutant: the second look under the exclusive lock is left out. *)
TrustFirstLook == FALSE

ReusedUnderLock == Succeeded

Recheck(p) ==
    /\ Holds(p, "recheck")
    /\ \/ ~AllVerified /\ End(p, "integrity")
       \/ AllVerified /\ ReusedUnderLock /\ End(p, "reused")
       \/ AllVerified /\ ~ReusedUnderLock /\ Step(p, "recheck", "ensure") /\ UNCHANGED child
    /\ UNCHANGED diskVars

-----------------------------------------------------------------------------
(* ensure_request *)

Ensure(p) ==
    \/ request.json /\ Step(p, "ensure", "select") /\ UNCHANGED <<diskVars, child>>
    \/ Holds(p, "ensure") /\ ~request.json /\ request.dir /\ End(p, "exists") /\ UNCHANGED diskVars
    \/ /\ ~request.json /\ ~request.dir
       /\ Step(p, "ensure", "json")
       /\ request' = [request EXCEPT !.dir = TRUE]
       /\ UNCHANGED <<baseline, finals, staging, stray, child>>

Write(p, from, to, files) ==
    /\ Step(p, from, to)
    /\ request' = files
    /\ UNCHANGED <<baseline, finals, staging, stray, child>>

WriteRequest(p) ==
    Write(p, "json", IF kind = "sweep" THEN "anchor" ELSE "select", [request EXCEPT !.json = TRUE])

WriteAnchor(p) == Write(p, "anchor", "root", [request EXCEPT !.anchor = TRUE])

MakePointRoot(p) == Write(p, "root", "index", [request EXCEPT !.root = "bare"])

WriteFirstIndex(p) == Write(p, "index", "select", [request EXCEPT !.root = "indexed"])

-----------------------------------------------------------------------------
(* Select the evidence to go on from, allocate an attempt, start the child *)

EvidenceReadable ==
    /\ kind = "sweep" => PointsReadable
    /\ Cardinality(Highest) = 1

Select(p) ==
    /\ UNCHANGED diskVars
    /\ \/ EvidenceReadable /\ Step(p, "select", "allocate") /\ UNCHANGED child
       \/ Holds(p, "select") /\ ~EvidenceReadable /\ End(p, "integrity")

ResumeLedger == IF kind = "optimize" THEN CHOOSE c \in Highest : TRUE ELSE <<>>

(* allocate_attempt, _next_attempt_ordinal *)
Allocate(p) ==
    /\ Holds(p, "allocate")
    /\ IF stray
       THEN End(p, "integrity") /\ UNCHANGED diskVars
       ELSE /\ fresh' = fresh + 1
            /\ staging' = NewAttempt(fresh', ResumeLedger)
            /\ Goto(p, "launch")
            /\ UNCHANGED <<kind, request, baseline, finals, stray, owner, child, orphan, outcome, calls>>

(* run_terminal up to the authorization: seal_attempt writes attempt.json. *)
Launch(p) == Step(p, "launch", "seal") /\ UNCHANGED <<diskVars, child>>

Authorize(p) ==
    /\ Step(p, "seal", "run")
    /\ child' = "baseline"
    /\ UNCHANGED diskVars

(* An interrupt or a failing fsync() between the os.replace() of attempt.json  *)
(* and the assignment of attempt_sha: the handler seals the attempt again, and *)
(* the envelope "is immutable once sealed".                                    *)
SealCut(p) == Holds(p, "seal") /\ End(p, "integrity") /\ UNCHANGED diskVars

(* The child is not created, or ends or lies before it is authorized, or the   *)
(* envelope cannot be written.                                                 *)
LaunchFails(p) == Step(p, "launch", "fail") /\ UNCHANGED <<diskVars, child>>

-----------------------------------------------------------------------------
(* The child *)

Stage(record) == staging' = record /\ UNCHANGED <<request, baseline, finals, stray>>

ChildGoes(to) ==
    /\ child' = to
    /\ UNCHANGED <<kind, owner, pc, orphan, outcome, fresh, calls>>

Runs(p, doing, of) == Holds(p, "run") /\ child = doing /\ kind = of

(* optimize_direct: publish_baseline_checkpoint and its acknowledgement, or   *)
(* load_baseline_checkpoint.                                                  *)
PublishBaseline(p) ==
    /\ Runs(p, "baseline", "optimize") /\ ~staging.pair
    /\ baseline' = IF baseline = 0 THEN staging.id ELSE baseline
    /\ UNCHANGED <<request, finals, staging, stray>>
    /\ ChildGoes("replay")

LoadBaseline(p) ==
    /\ Runs(p, "baseline", "optimize") /\ staging.pair
    /\ UNCHANGED diskVars
    /\ ChildGoes("replay")

(* sibling_ledgers, before the first ledger is written *)
ReplayRefused(p) ==
    /\ Runs(p, "replay", "optimize") /\ staging.resume # <<>> /\ ~SiblingsAccepted
    /\ staging.ledgers = <<>> /\ ~staging.cut
    /\ Step(p, "run", "validate")
    /\ Stage([staging EXCEPT !.verdict = "failure"])
    /\ child' = "ended"

(* Mutant: a replayed ledger is written as this attempt's own. *)
OwnLedger(g) == staging.id

ReplayedLedger(g) == staging.resume[g]

ToReplay == Len(staging.ledgers) < Len(staging.resume)

(* materialize_replayed_ledgers, through write_bytes as below. *)
OpenReplayed(p) ==
    /\ Runs(p, "replay", "optimize") /\ ~staging.cut /\ ToReplay
    /\ staging.ledgers # <<>> \/ SiblingsAccepted
    /\ Stage([staging EXCEPT !.cut = TRUE])
    /\ ChildGoes("replay")

CloseReplayed(p) ==
    /\ Runs(p, "replay", "optimize") /\ staging.cut /\ ToReplay
    /\ Stage([staging EXCEPT !.cut = FALSE,
                             !.ledgers = Append(@, ReplayedLedger(Len(staging.ledgers) + 1))])
    /\ ChildGoes("replay")

(* Every ledger is replayed: the first new generation. *)
Evolve(p) ==
    /\ Runs(p, "replay", "optimize") /\ ~staging.cut /\ ~ToReplay
    /\ UNCHANGED diskVars
    /\ ChildGoes("evolve")

(* write_generation_ledger through write_bytes: a temporary file, then its name. *)
OpenLedger(p) ==
    /\ Runs(p, "evolve", "optimize") /\ ~staging.cut /\ Len(staging.ledgers) < Size
    /\ Stage([staging EXCEPT !.cut = TRUE])
    /\ ChildGoes("evolve")

CloseLedger(p) ==
    /\ Runs(p, "evolve", "optimize") /\ staging.cut
    /\ Stage([staging EXCEPT !.cut = FALSE, !.ledgers = Append(@, staging.id)])
    /\ ChildGoes("evolve")

(* run_parameter_batch: recovered points are copied, the next one is computed. *)
StartSweep(p) ==
    /\ Runs(p, "baseline", "sweep")
    /\ Stage([staging EXCEPT !.parts = TRUE])
    /\ ChildGoes("evolve")

ComputePoint(p) ==
    /\ Runs(p, "evolve", "sweep") /\ request.entries < Size
    /\ Step(p, "run", "point")
    /\ UNCHANGED <<diskVars, child>>

Worked ==
    CASE kind = "optimize" -> child = "evolve" /\ ~staging.cut /\ Len(staging.ledgers) = Size
      [] kind = "sweep"    -> child = "evolve" /\ request.entries = Size
      [] OTHER             -> child = "baseline"

(* write_success *)
ChildSucceeds(p) ==
    /\ Step(p, "run", "validate")
    /\ Worked
    /\ Stage([staging EXCEPT !.verdict = "success", !.parts = (kind # "optimize")])
    /\ child' = "ended"

(* write_failure: a typed failure, which links the ledgers completed so far;   *)
(* a write that fails removes its temporary file.  A candidate of generation 1 *)
(* or above is one of the population.                                          *)
ChildFails(p) ==
    /\ child \in {"baseline", "replay", "evolve"}
    /\ Step(p, "run", "validate")
    /\ \E verdict \in {"failure"} \cup (IF kind = "optimize" /\ child = "evolve" THEN {"population"} ELSE {}) :
          Stage([staging EXCEPT !.verdict = verdict, !.cut = FALSE])
    /\ child' = "ended"

(* The child dies or breaks the protocol, or on_progress raises. *)
ChildBreaks(p) == Step(p, "run", "fail") /\ UNCHANGED diskVars /\ child' = "ended"

-----------------------------------------------------------------------------
(* publish_point_checkpoint, while the child waits for the acknowledgement *)

(* A request without its point root gets a new one. *)
RenewPointRoot(p) ==
    /\ request.root # "indexed"
    /\ Write(p, "point", "point",
             [request EXCEPT !.root = IF @ = "none" THEN "bare" ELSE "indexed"])

(* record.json, the copy of the point and its seal below .staging-<uuid4> *)
StagePoint(p) ==
    request.root = "indexed" /\ Write(p, "point", "stage", [request EXCEPT !.stage = TRUE])

RenamePoint(p) ==
    Write(p, "stage", "list", [request EXCEPT !.points = @ + 1, !.stage = FALSE])

ListPoint(p) == Write(p, "list", "run", [request EXCEPT !.entries = @ + 1])

(* EvidenceIntegrityError and OSError become BackendProtocolError.  While the *)
(* point is staged they remove it first, which leaves what they leave before. *)
PublishRaises(p) ==
    /\ \/ Step(p, "point", "fail")
       \/ Step(p, "list", "fail")
    /\ UNCHANGED diskVars /\ child' = "ended"

-----------------------------------------------------------------------------
(* Sealing the attempt *)

(* Mutant: what the child wrote beside its ledgers stays. *)
DiscardsOnlyLedgers(record, keepLedgers) ==
    [record EXCEPT !.ledgers = IF keepLedgers THEN @ ELSE <<>>, !.cut = keepLedgers /\ @,
                   !.points = request.entries]

(* _discard_untrusted_outputs *)
Discarded(record, keepLedgers) ==
    [record EXCEPT !.ledgers = IF keepLedgers THEN @ ELSE <<>>, !.cut = keepLedgers /\ @,
                   !.parts = FALSE, !.points = request.entries]

(* The receipt of a sweep counts its points, which must be readable. *)
Countable == kind = "sweep" => PointsReadable

Receipt(p, from, record) ==
    /\ Holds(p, from)
    /\ \/ Countable /\ Step(p, from, "promote") /\ child' = "ended"
       \/ ~Countable /\ End(p, "integrity")
    /\ Stage(record)

(* seal_protocol_failure *)
SealProtocolFailure(p) ==
    Receipt(p, "fail", [Discarded(staging, FALSE) EXCEPT !.verdict = "protocol"])

(* verified_generation_links refuses the temporary file of a ledger. *)
LinksVerified == ~staging.cut /\ Backed(staging, finals)

(* seal_interruption, for a KeyboardInterrupt between the allocation and the  *)
(* promotion; the child has been terminated, and a staged point removed.      *)
Interrupt(p) ==
    \E at \in {"launch", "run", "point", "list", "validate"} :
        /\ Holds(p, at)
        /\ \/ /\ LinksVerified
              /\ Receipt(p, at, [Discarded(staging, TRUE) EXCEPT !.verdict = "interrupted"])
           \/ ~LinksVerified /\ End(p, "integrity") /\ UNCHANGED diskVars

(* _validate_success_staging, _validate_terminal_staging_layout *)
SuccessStaged == Complete(staging)

(* Validation of outcome.json and of what it lists; verified_generation_links *)
(* refuses a failed attempt that has other artifacts than ledgers.            *)
Acceptable ==
    /\ LinksVerified
    /\ IF staging.verdict = "success" THEN SuccessStaged ELSE ~staging.parts

Validate(p) ==
    /\ Holds(p, "validate")
    /\ \/ Acceptable /\ Receipt(p, "validate", [staging EXCEPT !.points = request.entries])
       \/ ~Acceptable /\ Step(p, "validate", "fail") /\ UNCHANGED <<diskVars, child>>

(* promote_attempt: receipt, verification, os.replace(). *)
Promote(p) ==
    /\ Holds(p, "promote")
    /\ IF Verified(staging, finals)
       THEN /\ finals' = Append(finals, staging)
            /\ staging' = NoAttempt
            /\ UNCHANGED <<request, baseline, stray>>
            /\ End(p, staging.verdict)
       ELSE UNCHANGED diskVars /\ End(p, "integrity")

-----------------------------------------------------------------------------
(* Death and orphans *)

HasChild(p) == owner = p /\ child \in {"baseline", "replay", "evolve"}

(* The process dies, or an exception that nothing handles ends the call.  The *)
(* child of a dead process runs on, in a session of its own.                  *)
Stop(p) ==
    /\ pc[p] \in FailAt
    /\ Goto(p, "idle")
    /\ Release(p)
    /\ orphan' \in (IF HasChild(p) THEN {orphan, TRUE} ELSE {orphan})
    /\ child' = IF owner = p THEN "none" ELSE child
    /\ outcome' = [outcome EXCEPT ![p] = "stopped"]
    /\ UNCHANGED <<kind, diskVars, fresh, calls>>

(* write_bytes makes the directories it needs (mkpath), also those removed. *)
OrphanWrites ==
    /\ orphan /\ ~stray
    /\ stray' = TRUE
    /\ UNCHANGED <<kind, request, baseline, finals, staging, owner, pc, child, orphan, outcome, fresh, calls>>

(* Its next frame or read finds the pipe closed. *)
OrphanEnds ==
    /\ orphan
    /\ orphan' = FALSE
    /\ UNCHANGED <<kind, diskVars, owner, pc, child, outcome, fresh, calls>>

-----------------------------------------------------------------------------
Init ==
    /\ kind \in Kinds
    /\ request = EmptyRequest
    /\ baseline = 0
    /\ finals = <<>>
    /\ staging = NoAttempt
    /\ stray = FALSE
    /\ owner = NoProc
    /\ pc = [p \in Procs |-> "idle"]
    /\ child = "none"
    /\ orphan = FALSE
    /\ outcome = [p \in Procs |-> "none"]
    /\ fresh = 0
    /\ calls = 0

Prologue(p) ==
    \/ Call(p) \/ Look(p) \/ PrepareRuntime(p) \/ Lock(p) \/ CleanupRaises(p) \/ Recheck(p)
    \/ Ensure(p) \/ WriteRequest(p) \/ WriteAnchor(p) \/ MakePointRoot(p) \/ WriteFirstIndex(p)
    \/ Select(p) \/ Allocate(p) \/ Launch(p) \/ LaunchFails(p) \/ Authorize(p) \/ SealCut(p)

Work(p) ==
    \/ PublishBaseline(p) \/ LoadBaseline(p) \/ ReplayRefused(p)
    \/ OpenReplayed(p) \/ CloseReplayed(p) \/ Evolve(p) \/ OpenLedger(p) \/ CloseLedger(p)
    \/ StartSweep(p) \/ ComputePoint(p) \/ RenewPointRoot(p) \/ StagePoint(p) \/ RenamePoint(p) \/ ListPoint(p)
    \/ ChildSucceeds(p) \/ ChildFails(p) \/ ChildBreaks(p) \/ PublishRaises(p)

Epilogue(p) ==
    SealProtocolFailure(p) \/ Interrupt(p) \/ Validate(p) \/ Promote(p) \/ Stop(p)

Next ==
    \/ \E p \in Procs : Prologue(p) \/ Work(p) \/ Epilogue(p)
    \/ OrphanWrites \/ OrphanEnds

Spec == Init /\ [][Next]_vars
=============================================================================
