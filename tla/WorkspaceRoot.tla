---------------------------- MODULE WorkspaceRoot ----------------------------
(***************************************************************************)
(* The workspace root of workspace/store.py: the pointer in workspace.json,  *)
(* the Plan leaves below it, and the calls that bind, replace, upgrade, use  *)
(* and clean them up under the root's flock().                               *)
(*                                                                           *)
(* A leaf is a directory leaves/<id> of a replaceable root or iterationNN of *)
(* a versioned one.  Its content is reduced to whether it can be identified  *)
(* (workspace.json and plan.json) and whether it holds the request evidence  *)
(* written to it.  Hidden staging directories decide nothing and are left    *)
(* out; so is _cleanup_upgrade_duplicate, because the maintenance that every *)
(* call finishes first has already removed what it looks for.  A call takes  *)
(* these steps (pc):                                                         *)
(*   lock, look, maintain .. tidy (a retired leaf), decide, create or copy,  *)
(*   publish (temporary file), swap (os.replace), confirm (fsync, re-read),  *)
(*   commit(), and maintain .. tidy again; writer() and reader(): use.       *)
(***************************************************************************)
EXTENDS Integers, Sequences, FiniteSets, SequencesExt

CONSTANTS
    Procs,          \* processes that hold Runs of the workspace
    Plans,          \* identities of sealed Plans
    NoDir,          \* no directory
    NoRun,          \* no Run
    NoPlan,         \* no Plan
    MaxCalls,       \* bound: number of calls explored, hence of leaves created
    FailAt          \* bound: the steps at which a process may die or raise

Labels == {"lock", "look", "maintain", "unlink", "tidy", "decide", "create", "copy",
           "publish", "swap", "confirm", "use"}

Ids == 1 .. MaxCalls
Places == {"leaves", "iteration"} \X Ids

(* The three model values are none of what they stand for the absence of. *)
ASSUME RootAssumption ==
    /\ MaxCalls \in Nat
    /\ FailAt \subseteq Labels
    /\ NoPlan \notin Plans
    /\ NoDir \notin [id : Ids, named : BOOLEAN, evidence : BOOLEAN]
    /\ NoRun \notin [leaf : Ids, place : Places, plan : Plans]

VARIABLES
    \* Below the root (durable).
    pointer,        \* workspace.json: kind, listed leaf ids, retired leaf id or 0
    dirs,           \* [Places -> the leaf directory there, or NoDir]
    leftover,       \* is there a .workspace.json.tmp-* in a root without pointer?
    planOf,         \* the Plan a leaf was created for (leaf ids are never reused)
    fresh,          \* number of leaf ids taken
    \* flock() on the root.
    exclusive,
    shared,
    \* Processes (volatile).
    pc,
    job,            \* the call: kind, plan, versioned, and what it has decided
    run,            \* the Run a process holds: its leaf, the place, its own Plan
    \* Observation.
    outcome,        \* how the last call of a process ended
    found,          \* the leaves listed when the call took the lock
    written,        \* leaves whose evidence has been acknowledged
    cut,            \* the last call if its process died: plan, versioned, at
    calls           \* number of calls started

diskVars == <<pointer, dirs, leftover, planOf, fresh>>
lockVars == <<exclusive, shared>>
seenVars == <<outcome, found, written, cut, calls>>
vars == <<diskVars, lockVars, pc, job, run, seenVars>>

NoPointer == [kind |-> "none", listed |-> <<>>, retired |-> 0]

NoJob == [kind |-> "none", plan |-> NoPlan, versioned |-> FALSE,
          next |-> NoPointer, leaf |-> 0, then |-> "idle"]

NoCut == [plan |-> NoPlan, versioned |-> FALSE, at |-> "idle"]

-----------------------------------------------------------------------------
(* What a call reads below the root *)

PlaceIn(ptr, i) == IF ptr.kind = "versioned" THEN <<"iteration", i>> ELSE <<"leaves", ptr.listed[i]>>

Named(place) == dirs[place] # NoDir /\ dirs[place].named

(* WorkspaceBinding._verify_leaf, which does not look at the evidence. *)
Verified(place, id) == Named(place) /\ dirs[place].id = id

(* _validate_active_evidence *)
ActiveVerified == \A i \in DOMAIN pointer.listed : Verified(PlaceIn(pointer, i), pointer.listed[i])

Active == pointer.listed[1]

(* Leaves that an interrupted replacement has left behind. *)
Unbound == {id \in Ids : dirs[<<"leaves", id>>] # NoDir /\ id # Active}

(* The next iteration, if an interrupted call has already created it. *)
NextPlace == <<"iteration", Len(pointer.listed) + 1>>

(* Mutant: an orphan is never taken for the requested one. *)
NoMatch(place, plan) == FALSE

(* _verified_unbound_leaf: the leaf left behind is the one asked for. *)
Matches(place, plan) == Named(place) /\ planOf[dirs[place].id] = plan

IndexOf(plan) == {i \in DOMAIN pointer.listed : planOf[pointer.listed[i]] = plan}

-----------------------------------------------------------------------------
(* Pointers *)

Pointer(kind, listed, retired) == [kind |-> kind, listed |-> listed, retired |-> retired]

FirstPointer(id, versioned) ==
    Pointer(IF versioned THEN "versioned" ELSE "replaceable", <<id>>, 0)

(* Mutant: the leaf that becomes active is recorded for removal. *)
RetireTheNew(id) == Pointer("replaceable", <<id>>, id)

ReplacedBy(id) == Pointer("replaceable", <<id>>, Active)

Upgraded == Pointer("versioned", <<Active>>, Active)

(* Mutant: the index is rewritten with the new iteration alone. *)
IndexOnlyTheNew(id) == Pointer("versioned", <<id>>, pointer.retired)

Appended(id) == Pointer("versioned", Append(pointer.listed, id), pointer.retired)

-----------------------------------------------------------------------------
(* Control *)

Goto(p, label) == pc' = [pc EXCEPT ![p] = label]

(* Mutant: a reader does not wait for the writer. *)
SharedAtOnce(p) == shared' = shared \cup {p} /\ UNCHANGED exclusive

TakeShared(p) == exclusive = {} /\ shared' = shared \cup {p} /\ UNCHANGED exclusive

TakeExclusive(p) == exclusive \cup shared = {} /\ exclusive' = {p} /\ UNCHANGED shared

DropLock(p) == exclusive' = exclusive \ {p} /\ shared' = shared \ {p}

(* The call returns or raises; the lock is released. *)
End(p, how) ==
    /\ DropLock(p)
    /\ Goto(p, "idle")
    /\ job' = [job EXCEPT ![p] = NoJob]
    /\ outcome' = [outcome EXCEPT ![p] = how]
    /\ cut' = NoCut
    /\ UNCHANGED <<found, written, calls>>

(* After commit() an exception of the maintenance is swallowed. *)
Fails(p, how) == End(p, IF job[p].then = "idle" THEN "sealed" ELSE how)

Refuse(p) == Fails(p, "refused")

(* What _finish_root_maintenance goes on to, before the pointer is used. *)
Maintain(p, then) ==
    /\ Goto(p, IF pointer.retired # 0 THEN "maintain" ELSE then)
    /\ job' = [job EXCEPT ![p].then = then]

Publish(p, next, leaf) ==
    /\ Goto(p, "publish")
    /\ job' = [job EXCEPT ![p].next = next, ![p].leaf = leaf]

Deciding(p, kind) == pc[p] = "decide" /\ pointer.kind = kind /\ UNCHANGED <<diskVars>>

(* commit() seals the caller's Plan; the Run is bound to the i-th leaf. *)
Seal(p, i) ==
    /\ run' = [run EXCEPT ![p] = [leaf |-> pointer.listed[i], place |-> PlaceIn(pointer, i),
                                  plan |-> job[p].plan]]
    /\ IF pointer.retired # 0
       THEN Maintain(p, "idle") /\ UNCHANGED <<lockVars, seenVars>>
       ELSE End(p, "sealed")

-----------------------------------------------------------------------------
(* Calls *)

Call(p) ==
    /\ pc[p] = "idle" /\ calls < MaxCalls
    /\ calls' = calls + 1
    /\ \E kind \in {"bind", "write", "read"}, plan \in Plans, versioned \in BOOLEAN :
          /\ kind # "bind" => run[p] # NoRun /\ plan = run[p].plan /\ ~versioned
          /\ job' = [job EXCEPT ![p] = [NoJob EXCEPT !.kind = kind, !.plan = plan,
                                                     !.versioned = versioned, !.then = "look"]]
    /\ outcome' = [outcome EXCEPT ![p] = "none"]
    /\ Goto(p, "lock")
    /\ UNCHANGED <<diskVars, lockVars, run, found, written, cut>>

Lock(p) ==
    /\ pc[p] = "lock"
    /\ IF job[p].kind = "read" THEN TakeShared(p) ELSE TakeExclusive(p)
    /\ found' = [found EXCEPT ![p] = pointer.listed]
    /\ Goto(p, "look")
    /\ UNCHANGED <<diskVars, job, run, outcome, written, cut, calls>>

(* _recover_or_create_root: nothing there, or exactly one leaf of this Plan. *)
Recoverable(place, plan, versioned) ==
    /\ {other \in Places : dirs[other] # NoDir} = {place}
    /\ IF versioned THEN place = <<"iteration", 1>> ELSE place[1] = "leaves"
    /\ Matches(place, plan)

RecoverRoot(p) ==
    /\ pc[p] = "look" /\ job[p].kind = "bind" /\ pointer.kind = "none"
    /\ IF ~leftover /\ \A place \in Places : dirs[place] = NoDir
       THEN Goto(p, "create") /\ UNCHANGED <<lockVars, job, seenVars>>
       ELSE IF ~leftover /\ \E place \in Places : Recoverable(place, job[p].plan, job[p].versioned)
       THEN /\ \E place \in Places :
                  /\ Recoverable(place, job[p].plan, job[p].versioned)
                  /\ LET id == dirs[place].id IN Publish(p, FirstPointer(id, job[p].versioned), id)
            /\ UNCHANGED <<lockVars, seenVars>>
       ELSE Refuse(p)
    /\ UNCHANGED <<diskVars, run>>

OpenRoot(p) ==
    /\ pc[p] = "look" /\ job[p].kind = "bind" /\ pointer.kind # "none"
    /\ IF ActiveVerified
       THEN Maintain(p, "decide") /\ UNCHANGED <<lockVars, seenVars>>
       ELSE Refuse(p)
    /\ UNCHANGED <<diskVars, run>>

(* Mutant: a Run is accepted by its Plan alone, so A -> B -> A revives it. *)
SamePlan(p) == {i \in DOMAIN pointer.listed : planOf[pointer.listed[i]] = planOf[run[p].leaf]}

(* WorkspaceBinding.assert_current: where the Run's own leaf is now. *)
OwnIndex(p) == {i \in DOMAIN pointer.listed : pointer.listed[i] = run[p].leaf}

(* writer() and reader(): a Run bound before an upgrade follows its leaf. *)
EnterRun(p) ==
    /\ pc[p] = "look" /\ job[p].kind \in {"write", "read"}
    /\ IF \E i \in OwnIndex(p) : Verified(PlaceIn(pointer, i), pointer.listed[i])
          /\ (job[p].kind = "write" => ActiveVerified)
       THEN /\ \E i \in OwnIndex(p) : run' = [run EXCEPT ![p].place = PlaceIn(pointer, i)]
            /\ IF job[p].kind = "read"
               THEN Goto(p, "use") /\ UNCHANGED job
               ELSE Maintain(p, "use")
            /\ UNCHANGED <<lockVars, seenVars>>
       ELSE Refuse(p) /\ UNCHANGED run
    /\ UNCHANGED diskVars

-----------------------------------------------------------------------------
(* _finish_root_maintenance *)

RetiredPlace == <<"leaves", pointer.retired>>

FindRetired(p) ==
    /\ pc[p] = "maintain"
    /\ IF pointer.kind = "replaceable" /\ pointer.retired = Active
       THEN Refuse(p)
       ELSE IF dirs[RetiredPlace] = NoDir
       THEN Goto(p, "tidy") /\ UNCHANGED <<lockVars, job, seenVars>>
       ELSE IF Verified(RetiredPlace, pointer.retired)
       THEN Goto(p, "unlink") /\ UNCHANGED <<lockVars, job, seenVars>>
       ELSE Refuse(p)
    /\ UNCHANGED <<diskVars, run>>

(* shutil.rmtree takes one file after the other, in no particular order. *)
Unlink(p) ==
    /\ pc[p] = "unlink"
    /\ \/ dirs[RetiredPlace].named /\ dirs' = [dirs EXCEPT ![RetiredPlace].named = FALSE]
       \/ dirs[RetiredPlace].evidence /\ dirs' = [dirs EXCEPT ![RetiredPlace].evidence = FALSE]
    /\ UNCHANGED <<pointer, leftover, planOf, fresh, lockVars, pc, job, run, seenVars>>

RemoveRetired(p) ==
    /\ pc[p] = "unlink"
    /\ ~dirs[RetiredPlace].named /\ ~dirs[RetiredPlace].evidence
    /\ dirs' = [dirs EXCEPT ![RetiredPlace] = NoDir]
    /\ Goto(p, "tidy")
    /\ UNCHANGED <<pointer, leftover, planOf, fresh, lockVars, job, run, seenVars>>

ClearRetired(p) ==
    /\ pc[p] = "tidy"
    /\ pointer' = [pointer EXCEPT !.retired = 0]
    /\ IF job[p].then = "idle"
       THEN End(p, "sealed")
       ELSE Goto(p, job[p].then) /\ UNCHANGED <<lockVars, job, seenVars>>
    /\ UNCHANGED <<dirs, leftover, planOf, fresh, run>>

-----------------------------------------------------------------------------
(* A replaceable root: reuse, replace or upgrade *)

ReuseActive(p) ==
    /\ Deciding(p, "replaceable")
    /\ ~job[p].versioned /\ job[p].plan = planOf[Active]
    /\ Unbound = {}
    /\ Seal(p, 1)

ReplaceActive(p) ==
    /\ Deciding(p, "replaceable")
    /\ ~job[p].versioned /\ job[p].plan # planOf[Active]
    /\ Unbound = {}
    /\ Goto(p, "create")
    /\ UNCHANGED <<lockVars, job, run, seenVars>>

(* _adopt_replaceable_orphan: exactly one, of this Plan and still unused. *)
AdoptOrphan(p) ==
    /\ Deciding(p, "replaceable")
    /\ ~job[p].versioned /\ job[p].plan # planOf[Active]
    /\ \E id \in Ids :
          /\ Unbound = {id}
          /\ Matches(<<"leaves", id>>, job[p].plan) /\ ~dirs[<<"leaves", id>>].evidence
          /\ Publish(p, ReplacedBy(id), id)
    /\ UNCHANGED <<lockVars, run, seenVars>>

Iteration1 == <<"iteration", 1>>

(* Mutant: the index is published first, then the leaf is copied. *)
PublishFirst(p) == Publish(p, Upgraded, Active)

CopyFirst(p) == Goto(p, "copy") /\ UNCHANGED job

UpgradeActive(p) ==
    /\ Deciding(p, "replaceable") /\ job[p].versioned
    /\ Unbound = {} /\ dirs[Iteration1] = NoDir
    /\ CopyFirst(p)
    /\ UNCHANGED <<lockVars, run, seenVars>>

(* The copy of an interrupted upgrade is taken as it is. *)
UpgradeCopied(p) ==
    /\ Deciding(p, "replaceable") /\ job[p].versioned
    /\ Unbound = {} /\ Verified(Iteration1, Active)
    /\ Publish(p, Upgraded, Active)
    /\ UNCHANGED <<lockVars, run, seenVars>>

(* Unbound evidence is preserved, and blocks every other decision. *)
RefuseReplaceable(p) ==
    /\ Deciding(p, "replaceable")
    /\ IF job[p].versioned
       THEN Unbound # {} \/ (dirs[Iteration1] # NoDir /\ ~Verified(Iteration1, Active))
       ELSE /\ Unbound # {}
            /\ job[p].plan # planOf[Active] =>
                 ~\E id \in Ids : /\ Unbound = {id}
                                  /\ Matches(<<"leaves", id>>, job[p].plan)
                                  /\ ~dirs[<<"leaves", id>>].evidence
    /\ Refuse(p)
    /\ UNCHANGED run

-----------------------------------------------------------------------------
(* A versioned root: find or append *)

BindIndexed(p) ==
    /\ Deciding(p, "versioned") /\ job[p].versioned
    /\ dirs[NextPlace] = NoDir
    /\ \E i \in IndexOf(job[p].plan) : Seal(p, i)

NextIteration(p) ==
    /\ Deciding(p, "versioned") /\ job[p].versioned
    /\ dirs[NextPlace] = NoDir /\ IndexOf(job[p].plan) = {}
    /\ Goto(p, "create")
    /\ UNCHANGED <<lockVars, job, run, seenVars>>

AdoptIteration(p) ==
    /\ Deciding(p, "versioned") /\ job[p].versioned
    /\ Matches(NextPlace, job[p].plan)
    /\ Publish(p, Appended(dirs[NextPlace].id), dirs[NextPlace].id)
    /\ UNCHANGED <<lockVars, run, seenVars>>

(* A downgrade, or an unindexed iteration of another Plan. *)
RefuseVersioned(p) ==
    /\ Deciding(p, "versioned")
    /\ \/ ~job[p].versioned
       \/ dirs[NextPlace] # NoDir /\ ~Matches(NextPlace, job[p].plan)
    /\ Refuse(p)
    /\ UNCHANGED run

-----------------------------------------------------------------------------
(* Creation and publication *)

(* _create_leaf ends with the rename of its staging directory. *)
Create(p) ==
    /\ pc[p] = "create"
    /\ LET id == fresh + 1
           inLeaves == pointer.kind = "replaceable" \/ (pointer.kind = "none" /\ ~job[p].versioned)
           place == IF inLeaves THEN <<"leaves", id>> ELSE NextPlace IN
       /\ fresh' = id
       /\ planOf' = [planOf EXCEPT ![id] = job[p].plan]
       /\ dirs' = [dirs EXCEPT ![place] = [id |-> id, named |-> TRUE, evidence |-> FALSE]]
       /\ Publish(p, CASE pointer.kind = "none" -> FirstPointer(id, job[p].versioned)
                        [] pointer.kind = "replaceable" -> ReplacedBy(id)
                        [] pointer.kind = "versioned" -> Appended(id), id)
    /\ UNCHANGED <<pointer, leftover, lockVars, run, seenVars>>

ActivePlace == <<"leaves", Active>>

(* shutil.copytree makes the directory, then copies one file after the other. *)
Copy(p) ==
    /\ pc[p] = "copy"
    /\ \/ /\ dirs[Iteration1] = NoDir
          /\ dirs' = [dirs EXCEPT ![Iteration1] =
                         [id |-> Active, named |-> FALSE, evidence |-> FALSE]]
       \/ /\ dirs[Iteration1] # NoDir /\ ~dirs[Iteration1].named
          /\ dirs' = [dirs EXCEPT ![Iteration1].named = TRUE]
       \/ /\ dirs[Iteration1] # NoDir /\ ~dirs[Iteration1].evidence /\ dirs[ActivePlace].evidence
          /\ dirs' = [dirs EXCEPT ![Iteration1].evidence = TRUE]
    /\ UNCHANGED <<pointer, leftover, planOf, fresh, lockVars, pc, job, run, seenVars>>

Copied(p) ==
    /\ pc[p] = "copy" /\ dirs[Iteration1] = dirs[ActivePlace]
    /\ Publish(p, Upgraded, Active)
    /\ UNCHANGED <<diskVars, lockVars, run, seenVars>>

WriteTemporary(p) ==
    /\ pc[p] = "publish"
    /\ leftover' = (pointer.kind = "none")
    /\ Goto(p, "swap")
    /\ UNCHANGED <<pointer, dirs, planOf, fresh, lockVars, job, run, seenVars>>

Swap(p) ==
    /\ pc[p] = "swap"
    /\ pointer' = job[p].next
    /\ leftover' = FALSE
    /\ Goto(p, "confirm")
    /\ UNCHANGED <<dirs, planOf, fresh, lockVars, job, run, seenVars>>

Confirm(p) ==
    /\ pc[p] = "confirm"
    /\ \E i \in DOMAIN pointer.listed : pointer.listed[i] = job[p].leaf /\ Seal(p, i)
    /\ UNCHANGED diskVars

(* Mutant: the failed confirmation is reported like any other failure. *)
OrdinaryFailure == "failed"

(* WorkspaceCommitIndeterminateError: the Plan is sealed, no Run returned. *)
CommitIndeterminate == "indeterminate"

ConfirmFails(p) ==
    /\ pc[p] = "confirm" /\ "confirm" \in FailAt
    /\ End(p, CommitIndeterminate)
    /\ UNCHANGED <<diskVars, run>>

-----------------------------------------------------------------------------
(* Use, failure and death *)

(* ensure_request refuses a request of another Plan than the leaf's. *)
WriteEvidence(p) ==
    /\ pc[p] = "use" /\ job[p].kind = "write"
    /\ run[p].plan = planOf[run[p].leaf]
    /\ dirs' = [dirs EXCEPT ![run[p].place].evidence = TRUE]
    /\ written' = written \cup {run[p].leaf}
    /\ UNCHANGED <<pointer, leftover, planOf, fresh, lockVars, pc, job, run,
                   outcome, found, cut, calls>>

EndUse(p) ==
    /\ pc[p] = "use"
    /\ End(p, "done")
    /\ UNCHANGED <<diskVars, run>>

(* _atomic_write may have replaced the pointer when it raises or is cut off. *)
MayBeCleared(p) ==
    \/ UNCHANGED pointer
    \/ pc[p] = "tidy" /\ pointer' = [pointer EXCEPT !.retired = 0]

(* An exception; _publish_workspace_state removes its temporary file. *)
Raise(p) ==
    /\ pc[p] \in FailAt \ {"lock", "confirm", "use"}
    /\ leftover' = IF pc[p] = "swap" THEN FALSE ELSE leftover
    /\ Fails(p, "failed")
    /\ MayBeCleared(p)
    /\ UNCHANGED <<dirs, planOf, fresh, run>>

(* The process dies; the kernel drops its lock. *)
Die(p) ==
    /\ pc[p] \in FailAt
    /\ DropLock(p)
    /\ Goto(p, "idle")
    /\ cut' = IF job[p].kind = "bind"
              THEN [plan |-> job[p].plan, versioned |-> job[p].versioned, at |-> pc[p]]
              ELSE NoCut
    /\ job' = [job EXCEPT ![p] = NoJob]
    /\ run' = [run EXCEPT ![p] = NoRun]
    /\ MayBeCleared(p)
    /\ UNCHANGED <<dirs, leftover, planOf, fresh, outcome, found, written, calls>>

-----------------------------------------------------------------------------
Init ==
    /\ pointer = NoPointer
    /\ dirs = [place \in Places |-> NoDir]
    /\ leftover = FALSE
    /\ planOf = [id \in Ids |-> NoPlan]
    /\ fresh = 0
    /\ exclusive = {} /\ shared = {}
    /\ pc = [p \in Procs |-> "idle"]
    /\ job = [p \in Procs |-> NoJob]
    /\ run = [p \in Procs |-> NoRun]
    /\ outcome = [p \in Procs |-> "none"]
    /\ found = [p \in Procs |-> <<>>]
    /\ written = {}
    /\ cut = NoCut
    /\ calls = 0

Bind(p) ==
    \/ RecoverRoot(p) \/ OpenRoot(p)
    \/ ReuseActive(p) \/ ReplaceActive(p) \/ AdoptOrphan(p)
    \/ UpgradeActive(p) \/ UpgradeCopied(p) \/ RefuseReplaceable(p)
    \/ BindIndexed(p) \/ NextIteration(p) \/ AdoptIteration(p) \/ RefuseVersioned(p)
    \/ Create(p) \/ Copy(p) \/ Copied(p)
    \/ WriteTemporary(p) \/ Swap(p) \/ Confirm(p) \/ ConfirmFails(p)

Maintenance(p) == FindRetired(p) \/ Unlink(p) \/ RemoveRetired(p) \/ ClearRetired(p)

Use(p) == EnterRun(p) \/ WriteEvidence(p) \/ EndUse(p)

Next == \E p \in Procs :
    Call(p) \/ Lock(p) \/ Bind(p) \/ Maintenance(p) \/ Use(p) \/ Raise(p) \/ Die(p)

Spec == Init /\ [][Next]_vars
=============================================================================
