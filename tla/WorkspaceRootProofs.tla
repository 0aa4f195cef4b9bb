------------------------- MODULE WorkspaceRootProofs -------------------------
(***************************************************************************)
(* The workspace root for every set of processes and Plans, any number of   *)
(* calls and a failure at any step: what the lock, the order of publication *)
(* and the maintenance guarantee, that the root implements TopologyHistory, *)
(* and that a bind cut off before its confirmation can be repeated.         *)
(***************************************************************************)
EXTENDS WorkspaceRootProperties, FiniteSetTheorems, SequenceTheorems, TLAPS

-----------------------------------------------------------------------------
(* The inductive invariant: the call of one process *)

Maintaining == {"maintain", "unlink", "tidy"}
Staged == {"decide", "create", "copy", "publish", "swap", "confirm"}

(* What kind of call stands where. *)
JobOK(p) ==
    /\ pc[p] # "idle" => job[p].kind \in {"bind", "write", "read"} /\ job[p].plan \in Plans
    /\ job[p].kind \in {"write", "read"} => run[p] # NoRun
    /\ job[p].kind = "read" => pc[p] \in {"lock", "look", "use"}
    /\ pc[p] \in Staged => job[p].kind = "bind"
    /\ pc[p] = "use" => job[p].kind # "bind"

(* What the maintenance of a call goes on to. *)
ThenOK(p) ==
    /\ pc[p] \in {"lock", "look"} => job[p].then = "look"
    /\ pc[p] \in Staged => job[p].then # "idle"
    /\ pc[p] \in Maintaining => \/ job[p].then = "use" /\ job[p].kind = "write"
                                \/ job[p].then \in {"decide", "idle"} /\ job[p].kind = "bind"

(* Who holds the lock. *)
HoldOK(p) ==
    pc[p] \notin {"idle", "lock"} => IF job[p].kind = "read" THEN p \in shared ELSE p \in exclusive

(* Until its own pointer is swapped a call sees the topology it has found. *)
Settled(p) == pc[p] \in {"confirm", "use"} \/ (pc[p] \in Maintaining /\ job[p].then = "idle")

FoundOK(p) == pc[p] \in {"idle", "lock"} \/ Settled(p) \/ pointer.listed = found[p]

(* The Run a process is about to use, or has just been given. *)
Bound(p) ==
    /\ run[p] # NoRun
    /\ \E i \in DOMAIN pointer.listed :
          /\ pointer.listed[i] = run[p].leaf
          /\ PlaceIn(pointer, i) = run[p].place

RunOK(p) ==
    /\ pc[p] = "use" \/ (pc[p] \in Maintaining /\ job[p].then = "use") => Bound(p)
    /\ pc[p] \in Maintaining /\ job[p].then = "idle" => Bound(p) /\ run[p].plan = job[p].plan

-----------------------------------------------------------------------------
(* The inductive invariant: what a call knows of the disk *)

MaintainOK(p) ==
    /\ pc[p] \in Maintaining => pointer.retired # 0
    /\ pc[p] = "unlink" => dirs[RetiredPlace] # NoDir
    /\ pc[p] = "tidy" => dirs[RetiredPlace] = NoDir

NothingThere == \A place \in Places : dirs[place] = NoDir

FreeNext == \A place \in Places : place = NextPlace => dirs[place] = NoDir

ReadyToCreate(p) ==
    \/ pointer.kind = "none" /\ NothingThere /\ ~leftover
    \/ pointer.kind = "replaceable" /\ ~job[p].versioned /\ Unbound = {} /\ job[p].plan # planOf[Active]
    \/ pointer.kind = "versioned" /\ job[p].versioned /\ FreeNext /\ IndexOf(job[p].plan) = {}

(* The pointer a call is about to publish, and the leaf it is for. *)
FirstNext(p) ==
    /\ pointer.kind = "none"
    /\ job[p].next = FirstPointer(job[p].leaf, job[p].versioned)
    /\ \E place \in Places :
          Recoverable(place, job[p].plan, job[p].versioned) /\ dirs[place].id = job[p].leaf

ReplaceNext(p) ==
    /\ pointer.kind = "replaceable" /\ ~job[p].versioned
    /\ job[p].next = ReplacedBy(job[p].leaf)
    /\ Unbound = {job[p].leaf} /\ job[p].plan # planOf[Active]
    /\ Matches(<<"leaves", job[p].leaf>>, job[p].plan) /\ ~dirs[<<"leaves", job[p].leaf>>].evidence

UpgradeNext(p) ==
    /\ pointer.kind = "replaceable" /\ job[p].versioned
    /\ job[p].next = Upgraded /\ job[p].leaf = Active
    /\ Unbound = {} /\ Verified(Iteration1, Active)

AppendNext(p) ==
    /\ pointer.kind = "versioned" /\ job[p].versioned
    /\ job[p].next = Appended(job[p].leaf)
    /\ \E place \in Places :
          place = NextPlace /\ Matches(place, job[p].plan) /\ dirs[place].id = job[p].leaf
    /\ IndexOf(job[p].plan) = {}

NextOK(p) == FirstNext(p) \/ ReplaceNext(p) \/ UpgradeNext(p) \/ AppendNext(p)

ConfirmOK(p) ==
    /\ Contains(pointer.listed, job[p].leaf)
    /\ pointer.kind = "replaceable" =>
          ~job[p].versioned /\ Unbound \subseteq {pointer.retired} /\ planOf[Active] = job[p].plan
    /\ pointer.kind = "versioned" => job[p].versioned /\ FreeNext

RetiredWhole ==
    pointer.retired # 0 => dirs[RetiredPlace] = NoDir \/ Verified(RetiredPlace, pointer.retired)

StageOK(p) ==
    /\ pc[p] \in {"decide", "create", "copy", "publish", "swap"} => pointer.retired = 0
    /\ pc[p] = "decide" => pointer.kind # "none"
    /\ pc[p] = "create" => ReadyToCreate(p)
    /\ pc[p] = "copy" => pointer.kind = "replaceable" /\ job[p].versioned /\ Unbound = {}
    /\ pc[p] \in {"publish", "swap"} => NextOK(p)
    /\ pc[p] = "publish" /\ pointer.kind = "none" => ~leftover
    /\ pc[p] = "confirm" => pointer.kind # "none" /\ ConfirmOK(p) /\ RetiredWhole

CallOK(p) ==
    JobOK(p) /\ ThenOK(p) /\ HoldOK(p) /\ FoundOK(p) /\ RunOK(p) /\ MaintainOK(p) /\ StageOK(p)

-----------------------------------------------------------------------------
(* The inductive invariant: the pointer and the leaves *)

DirsOK ==
    \A place \in Places : dirs[place] # NoDir =>
        dirs[place].id <= fresh /\ (place[1] = "leaves" => dirs[place].id = place[2])

PlansOK == \A id \in Ids : id <= fresh => planOf[id] \in Plans

ListedOK ==
    /\ \A i \in DOMAIN pointer.listed : i <= pointer.listed[i] /\ pointer.listed[i] <= fresh
    /\ \A i, j \in DOMAIN pointer.listed : i < j => pointer.listed[i] < pointer.listed[j]

KindOK ==
    /\ pointer.kind = "none" => pointer.listed = <<>> /\ pointer.retired = 0
    /\ pointer.kind = "replaceable" => Len(pointer.listed) = 1
    /\ pointer.kind = "versioned" => Len(pointer.listed) > 0

(* Nothing is younger than the active leaf but what a call has left behind. *)
LeavesOK ==
    pointer.kind = "replaceable" =>
        /\ pointer.retired # Active
        /\ \A id \in Ids : dirs[<<"leaves", id>>] # NoDir => id >= Active \/ id = pointer.retired

(* One iteration after the last may have been left behind, of a new Plan. *)
IterationsOK ==
    /\ \A n \in Ids : n > 1 /\ n > Len(pointer.listed) + 1 => dirs[<<"iteration", n>>] = NoDir
    /\ pointer.kind # "versioned" => \A n \in Ids : n > 1 => dirs[<<"iteration", n>>] = NoDir
    /\ pointer.kind = "versioned" =>
          \A n \in Ids : n = Len(pointer.listed) + 1 /\ dirs[<<"iteration", n>>] # NoDir =>
              \A i \in DOMAIN pointer.listed :
                  /\ pointer.listed[i] < dirs[<<"iteration", n>>].id
                  /\ planOf[pointer.listed[i]] # planOf[dirs[<<"iteration", n>>].id]

PointerOK == KindOK /\ ListedOK /\ LeavesOK /\ IterationsOK /\ ActiveVerified

(* Every leaf has cost a call: ids never run out while one is still waiting. *)
Waiting ==
    {p \in Procs : pc[p] \in {"lock", "look", "decide", "create"}
                   \/ (pc[p] \in Maintaining /\ job[p].then = "decide")}

CountOK == IsFiniteSet(Waiting) /\ fresh + Cardinality(Waiting) <= calls

-----------------------------------------------------------------------------
(* The inductive invariant: what a call that was cut off has left behind *)

Repeatable == {"create", "publish", "confirm"}

(* Nothing below the root that the call would refuse. *)
Accepts(plan, versioned) ==
    /\ pointer.kind = "none" =>
          ~leftover /\ (NothingThere \/ \E place \in Places : Recoverable(place, plan, versioned))
    /\ pointer.kind = "replaceable" /\ versioned =>
          /\ Unbound \subseteq {pointer.retired}
          /\ \A place \in Places :
                place = Iteration1 => dirs[place] = NoDir \/ Verified(place, Active)
    /\ pointer.kind = "replaceable" /\ ~versioned =>
          \/ Unbound \subseteq {pointer.retired}
          \/ /\ plan # planOf[Active]
             /\ \E id \in Ids : /\ Unbound \ {pointer.retired} = {id}
                                /\ Matches(<<"leaves", id>>, plan)
                                /\ ~dirs[<<"leaves", id>>].evidence
    /\ pointer.kind = "versioned" =>
          /\ versioned
          /\ \A place \in Places :
                place = NextPlace => dirs[place] = NoDir \/ Matches(place, plan)

CutAccepts == Accepts(cut.plan, cut.versioned)

(* The lock is free, or its holder is about to repeat the call. *)
Untouched(p) == pc[p] \in {"look", "maintain"}

Repeating(p) ==
    /\ job[p].kind = "bind" /\ job[p].plan = cut.plan /\ job[p].versioned = cut.versioned
    /\ pc[p] \in {"look", "decide"} \cup Maintaining /\ job[p].then # "idle"

CutOK ==
    cut.at \in Repeatable =>
        /\ exclusive = {} => CutAccepts /\ RetiredWhole
        /\ \A p \in exclusive : Repeating(p) =>
              CutAccepts /\ (Untouched(p) => RetiredWhole)

RootInv ==
    /\ TypeOK
    /\ \A p \in Procs : CallOK(p)
    /\ DirsOK /\ PlansOK /\ PointerOK /\ CountOK /\ CutOK

-----------------------------------------------------------------------------
(* Types *)

Calls == [kind : {"none", "bind", "write", "read"}, plan : Plans \cup {NoPlan},
          versioned : BOOLEAN, next : Pointers, leaf : {0} \cup Ids,
          then : {"look", "decide", "use", "idle"}]

Runs == [leaf : Ids, place : Places, plan : Plans]

LEMMA PlaceType ==
    /\ \A id \in Ids : <<"leaves", id>> \in Places /\ <<"iteration", id>> \in Places
    /\ \A place \in Places : \E id \in Ids : place = <<"leaves", id>> \/ place = <<"iteration", id>>
BY DEF Places

LEMMA PlacesDiffer ==
    \A m, n : /\ <<"leaves", m>> # <<"iteration", n>>
              /\ m # n => <<"leaves", m>> # <<"leaves", n>> /\ <<"iteration", m>> # <<"iteration", n>>
OBVIOUS

LEMMA EmptyTypes == NoPointer \in Pointers /\ NoJob \in Calls /\ NoCut.at \notin Repeatable
BY DEF NoPointer, NoJob, NoCut, Pointers, Calls, Repeatable

LEMMA LeafType ==
    ASSUME DiskTypes, NEW place \in Places, dirs[place] # NoDir
    PROVE  dirs[place] \in Leaf
BY DEF DiskTypes

(* The active leaf of a root that has a pointer. *)
LEMMA ActiveIs ==
    ASSUME DiskTypes, KindOK, pointer.kind # "none"
    PROVE  /\ 1 \in DOMAIN pointer.listed /\ Active \in Ids
           /\ pointer.retired \in {0} \cup Ids
<1>1. pointer.listed \in Seq(Ids) /\ pointer.retired \in {0} \cup Ids
  BY DEF DiskTypes, Pointers
<1>2. pointer.kind \in {"replaceable", "versioned"}
  BY DEF DiskTypes, Pointers
<1>3. Len(pointer.listed) \in Nat /\ DOMAIN pointer.listed = 1 .. Len(pointer.listed)
  BY <1>1
<1>4. Len(pointer.listed) = 1 \/ Len(pointer.listed) > 0
  BY <1>2 DEF KindOK
<1>5. 1 \in DOMAIN pointer.listed
  BY <1>3, <1>4
<1> QED BY <1>1, <1>5 DEF Active

LEMMA ListedType ==
    ASSUME DiskTypes, NEW i \in DOMAIN pointer.listed
    PROVE  pointer.listed[i] \in Ids /\ i \in Nat \ {0}
BY DEF DiskTypes, Pointers

(* Where a listed leaf is. *)
LEMMA PlaceInType ==
    ASSUME RootAssumption, DiskTypes, ListedOK, NEW i \in DOMAIN pointer.listed
    PROVE  i \in Ids /\ PlaceIn(pointer, i) \in Places
<1>1. pointer.listed[i] \in Ids /\ i \in Nat \ {0}
  BY ListedType
<1>2. i <= pointer.listed[i]
  BY DEF ListedOK
<1>3. i \in Ids
  BY <1>1, <1>2 DEF RootAssumption, Ids
<1> QED BY <1>1, <1>3 DEF PlaceIn, Places

-----------------------------------------------------------------------------
(* Pointers *)

LEMMA FirstType ==
    ASSUME NEW id \in Ids, NEW versioned \in BOOLEAN
    PROVE  FirstPointer(id, versioned) \in Pointers
BY DEF FirstPointer, Pointer, Pointers

LEMMA ReplacedType ==
    ASSUME DiskTypes, KindOK, pointer.kind # "none", NEW id \in Ids
    PROVE  ReplacedBy(id) \in Pointers
BY ActiveIs DEF ReplacedBy, Pointer, Pointers

LEMMA UpgradedType ==
    ASSUME DiskTypes, KindOK, pointer.kind # "none"
    PROVE  Upgraded \in Pointers
BY ActiveIs DEF Upgraded, Pointer, Pointers

LEMMA AppendedType ==
    ASSUME DiskTypes, NEW id \in Ids
    PROVE  Appended(id) \in Pointers
BY DEF DiskTypes, Appended, Pointer, Pointers

LEMMA NextType ==
    ASSUME TypeOK, KindOK, NEW p \in Procs, NextOK(p)
    PROVE  job[p].leaf \in Ids /\ job[p].next \in Pointers
<1>1. job[p].versioned \in BOOLEAN
  BY DEF TypeOK, CallTypes
<1>2. CASE FirstNext(p)
  <2>1. PICK place \in Places :
            dirs[place] # NoDir /\ dirs[place].id = job[p].leaf
    BY <1>2 DEF FirstNext, Recoverable, Matches, Named
  <2>2. job[p].leaf \in Ids
    BY <2>1, LeafType DEF TypeOK, Leaf
  <2> QED BY <1>1, <1>2, <2>2, FirstType DEF FirstNext
<1>3. CASE ReplaceNext(p)
  <2>1. job[p].leaf \in Ids
    BY <1>3 DEF ReplaceNext, Unbound
  <2> QED BY <1>3, <2>1, ReplacedType DEF ReplaceNext, TypeOK
<1>4. CASE UpgradeNext(p)
  BY <1>4, ActiveIs, UpgradedType DEF UpgradeNext, TypeOK
<1>5. CASE AppendNext(p)
  <2>1. PICK place \in Places :
            dirs[place] # NoDir /\ dirs[place].id = job[p].leaf
    BY <1>5 DEF AppendNext, Matches, Named
  <2>2. job[p].leaf \in Ids
    BY <2>1, LeafType DEF TypeOK, Leaf
  <2> QED BY <1>5, <2>2, AppendedType DEF AppendNext, TypeOK
<1> QED BY <1>2, <1>3, <1>4, <1>5 DEF NextOK

-----------------------------------------------------------------------------
(* Ways to go on *)

LEMMA EndTypes ==
    ASSUME RootAssumption, TypeOK, NEW p \in Procs,
           NEW how \in {"sealed", "indeterminate", "refused", "failed", "done"}, End(p, how),
           run' \in [Procs -> Runs \cup {NoRun}], DiskTypes'
    PROVE  TypeOK'
<1>1. LockTypes'
  BY DEF End, DropLock, TypeOK, LockTypes
<1>2. job' \in [Procs -> Calls]
  <2>1. job \in [Procs -> Calls]
    BY DEF TypeOK, CallTypes, Calls
  <2> QED BY <2>1, EmptyTypes DEF End
<1>3. CallTypes'
  BY <1>2 DEF End, Goto, TypeOK, CallTypes, Calls, Runs
<1>4. NoteTypes'
  BY DEF End, TypeOK, NoteTypes, NoCut
<1> QED BY <1>1, <1>3, <1>4 DEF TypeOK

LEMMA EndOK ==
    ASSUME RootAssumption, TypeOK, NEW p \in Procs, pc'[p] = "idle", job'[p] = NoJob
    PROVE  CallOK(p)'
BY DEF CallOK, JobOK, ThenOK, HoldOK, FoundOK, RunOK, MaintainOK, StageOK, Maintaining, Staged, NoJob

LEMMA GoTypes ==
    ASSUME TypeOK, NEW p \in Procs, NEW label \in Labels \cup {"idle"}, Goto(p, label),
           job' \in [Procs -> Calls], run' \in [Procs -> Runs \cup {NoRun}], DiskTypes',
           UNCHANGED <<lockVars, seenVars>>
    PROVE  TypeOK'
<1>1. LockTypes' /\ NoteTypes'
  BY DEF lockVars, seenVars, TypeOK, LockTypes, NoteTypes
<1>2. CallTypes'
  BY DEF Goto, TypeOK, CallTypes, Calls, Runs
<1> QED BY <1>1, <1>2 DEF TypeOK

LEMMA OldTypes ==
    ASSUME TypeOK
    PROVE  job \in [Procs -> Calls] /\ run \in [Procs -> Runs \cup {NoRun}]
BY DEF TypeOK, CallTypes, Calls, Runs

LEMMA MaintainTypes ==
    ASSUME TypeOK, NEW p \in Procs, NEW then \in {"decide", "use", "idle"}, Maintain(p, then),
           run' \in [Procs -> Runs \cup {NoRun}], DiskTypes', UNCHANGED <<lockVars, seenVars>>
    PROVE  TypeOK'
<1>1. job' \in [Procs -> Calls]
  BY OldTypes DEF Maintain, Calls
<1>2. PICK label \in Labels \cup {"idle"} : Goto(p, label)
  BY DEF Maintain, Labels
<1> QED BY <1>1, <1>2, GoTypes

LEMMA PublishTypes ==
    ASSUME TypeOK, NEW p \in Procs, NEW next \in Pointers, NEW leaf \in Ids, Publish(p, next, leaf),
           DiskTypes', UNCHANGED <<lockVars, seenVars, run>>
    PROVE  TypeOK'
<1>1. job' \in [Procs -> Calls]
  <2>1. PICK c : c = [job[p] EXCEPT !.next = next, !.leaf = leaf]
    OBVIOUS
  <2>2. c \in Calls
    BY OldTypes, <2>1 DEF Calls
  <2>3. job' = [job EXCEPT ![p] = c]
    BY OldTypes, <2>1 DEF Publish
  <2> QED BY OldTypes, <2>2, <2>3
<1>2. run' \in [Procs -> Runs \cup {NoRun}]
  BY OldTypes
<1>3. Goto(p, "publish") /\ "publish" \in Labels \cup {"idle"}
  BY DEF Publish, Labels
<1> QED BY <1>1, <1>2, <1>3, GoTypes

LEMMA RefuseTypes ==
    ASSUME RootAssumption, TypeOK, NEW p \in Procs, NEW how \in {"refused", "failed"}, Fails(p, how),
           run' \in [Procs -> Runs \cup {NoRun}], DiskTypes'
    PROVE  TypeOK'
<1>1. PICK told \in {"sealed", "indeterminate", "refused", "failed", "done"} : End(p, told)
  BY DEF Fails
<1> QED BY <1>1, EndTypes

LEMMA SealTypes ==
    ASSUME RootAssumption, TypeOK, PointerOK, NEW p \in Procs, JobOK(p), pc[p] # "idle",
           NEW i \in DOMAIN pointer.listed, Seal(p, i), UNCHANGED diskVars
    PROVE  TypeOK'
<1>1. pointer.listed[i] \in Ids /\ PlaceIn(pointer, i) \in Places /\ job[p].plan \in Plans
  BY ListedType, PlaceInType DEF TypeOK, PointerOK, JobOK
<1>2. run' \in [Procs -> Runs \cup {NoRun}]
  <2>1. [leaf |-> pointer.listed[i], place |-> PlaceIn(pointer, i), plan |-> job[p].plan] \in Runs
    BY <1>1 DEF Runs
  <2> QED BY <2>1, OldTypes DEF Seal
<1>3. DiskTypes'
  BY DEF diskVars, TypeOK, DiskTypes
<1>4. CASE pointer.retired # 0
  BY <1>2, <1>3, <1>4, MaintainTypes DEF Seal
<1>5. CASE pointer.retired = 0
  BY <1>2, <1>3, <1>5, EndTypes DEF Seal
<1> QED BY <1>4, <1>5

-----------------------------------------------------------------------------
(* Types step by step *)

LEMMA CallType ==
    ASSUME RootAssumption, TypeOK, NEW p \in Procs, Call(p)
    PROVE  TypeOK'
<1>1. DiskTypes' /\ LockTypes'
  BY DEF Call, diskVars, lockVars, TypeOK, DiskTypes, LockTypes
<1>2. PICK kind \in {"bind", "write", "read"}, plan \in Plans, versioned \in BOOLEAN :
          job' = [job EXCEPT ![p] = [NoJob EXCEPT !.kind = kind, !.plan = plan,
                                                  !.versioned = versioned, !.then = "look"]]
  BY DEF Call
<1>3. [NoJob EXCEPT !.kind = kind, !.plan = plan, !.versioned = versioned, !.then = "look"] \in Calls
  BY EmptyTypes DEF Calls
<1>4. job' \in [Procs -> Calls]
  BY <1>2, <1>3, OldTypes
<1>5. CallTypes'
  BY <1>4, OldTypes DEF Call, Goto, Labels, TypeOK, CallTypes, Calls, Runs
<1>6. NoteTypes'
  BY DEF Call, RootAssumption, TypeOK, NoteTypes
<1> QED BY <1>1, <1>5, <1>6 DEF TypeOK

LEMMA LockType ==
    ASSUME RootAssumption, TypeOK, NEW p \in Procs, Lock(p)
    PROVE  TypeOK'
<1>1. DiskTypes'
  BY DEF Lock, diskVars, TypeOK, DiskTypes
<1>2. LockTypes'
  BY DEF Lock, TakeShared, TakeExclusive, TypeOK, LockTypes
<1>3. CallTypes'
  BY DEF Lock, Goto, Labels, TypeOK, CallTypes
<1>4. NoteTypes'
  BY DEF Lock, TypeOK, NoteTypes, DiskTypes, Pointers
<1> QED BY <1>1, <1>2, <1>3, <1>4 DEF TypeOK

LEMMA RecoverRootType ==
    ASSUME RootAssumption, RootInv, NEW p \in Procs, RecoverRoot(p)
    PROVE  TypeOK'
<1>1. TypeOK /\ DiskTypes' /\ run' \in [Procs -> Runs \cup {NoRun}]
  BY OldTypes DEF RecoverRoot, diskVars, RootInv, TypeOK, DiskTypes
<1>2. CASE Goto(p, "create") /\ UNCHANGED <<lockVars, job, seenVars>>
  BY <1>1, <1>2, OldTypes, GoTypes DEF Labels
<1>3. ASSUME NEW place \in Places, Recoverable(place, job[p].plan, job[p].versioned),
             Publish(p, FirstPointer(dirs[place].id, job[p].versioned), dirs[place].id),
             UNCHANGED <<lockVars, seenVars>>
      PROVE  TypeOK'
  <2>1. dirs[place].id \in Ids /\ job[p].versioned \in BOOLEAN
    BY <1>1, <1>3, LeafType DEF Recoverable, Matches, Named, Leaf, TypeOK, CallTypes
  <2>2. UNCHANGED run
    BY DEF RecoverRoot
  <2> QED BY <1>1, <1>3, <2>1, <2>2, FirstType, PublishTypes
<1>4. CASE Refuse(p)
  BY <1>1, <1>4, RefuseTypes DEF Refuse
<1> QED BY <1>2, <1>3, <1>4 DEF RecoverRoot

LEMMA OpenRootType ==
    ASSUME RootAssumption, RootInv, NEW p \in Procs, OpenRoot(p)
    PROVE  TypeOK'
<1>1. TypeOK /\ DiskTypes' /\ run' \in [Procs -> Runs \cup {NoRun}]
  BY OldTypes DEF OpenRoot, diskVars, RootInv, TypeOK, DiskTypes
<1>2. CASE Refuse(p)
  BY <1>1, <1>2, RefuseTypes DEF Refuse
<1>3. CASE Maintain(p, "decide") /\ UNCHANGED <<lockVars, seenVars>>
  BY <1>1, <1>3, MaintainTypes
<1> QED BY <1>2, <1>3 DEF OpenRoot

LEMMA EnterRunType ==
    ASSUME RootAssumption, RootInv, NEW p \in Procs, EnterRun(p)
    PROVE  TypeOK'
<1>1. TypeOK /\ DiskTypes' /\ ListedOK /\ JobOK(p)
  BY DEF EnterRun, diskVars, RootInv, TypeOK, DiskTypes, PointerOK, CallOK
<1>2. CASE Refuse(p) /\ UNCHANGED run
  BY <1>1, <1>2, OldTypes, RefuseTypes DEF Refuse
<1>3. CASE ~(Refuse(p) /\ UNCHANGED run)
  <2>1. PICK i \in DOMAIN pointer.listed : run' = [run EXCEPT ![p].place = PlaceIn(pointer, i)]
    BY <1>3 DEF EnterRun, OwnIndex
  <2>2. run[p] \in Runs
    BY <1>1, OldTypes DEF EnterRun, JobOK
  <2>3. [run[p] EXCEPT !.place = PlaceIn(pointer, i)] \in Runs
    BY <1>1, <2>2, PlaceInType DEF TypeOK, Runs
  <2>4. run' \in [Procs -> Runs \cup {NoRun}]
    BY <1>1, <2>1, <2>3, OldTypes
  <2>5. UNCHANGED <<lockVars, seenVars>>
    BY <1>3 DEF EnterRun
  <2>6. CASE Goto(p, "use") /\ UNCHANGED job
    BY <1>1, <2>4, <2>5, <2>6, OldTypes, GoTypes DEF Labels
  <2>7. CASE Maintain(p, "use")
    BY <1>1, <2>4, <2>5, <2>7, MaintainTypes
  <2> QED BY <1>3, <2>6, <2>7 DEF EnterRun
<1> QED BY <1>2, <1>3

(* As long as a call may create a leaf there are an id and a place for it. *)
LEMMA Room ==
    ASSUME RootAssumption, RootInv, NEW p \in Waiting
    PROVE  /\ fresh + 1 \in Ids /\ Len(pointer.listed) + 1 \in Ids
           /\ Len(pointer.listed) <= fresh /\ NextPlace \in Places
<1>1. Waiting # {} /\ IsFiniteSet(Waiting)
  BY DEF RootInv, CountOK
<1>2. Cardinality(Waiting) \in Nat /\ Cardinality(Waiting) # 0
  BY <1>1, FS_CardinalityType, FS_EmptySet
<1>3. fresh \in Nat /\ calls \in Nat /\ calls <= MaxCalls
  BY DEF RootInv, TypeOK, DiskTypes, NoteTypes, RootAssumption
<1>4. fresh + 1 \in Ids
  BY <1>2, <1>3 DEF RootInv, CountOK, RootAssumption, Ids
<1>5. pointer.listed \in Seq(Ids)
  BY DEF RootInv, TypeOK, DiskTypes, Pointers
<1>6. Len(pointer.listed) \in Nat /\ DOMAIN pointer.listed = 1 .. Len(pointer.listed)
  BY <1>5
<1>7. Len(pointer.listed) > 0 => Len(pointer.listed) <= fresh
  <2> SUFFICES ASSUME Len(pointer.listed) > 0 PROVE Len(pointer.listed) <= fresh
    OBVIOUS
  <2>1. Len(pointer.listed) \in DOMAIN pointer.listed
    BY <1>6
  <2>2. pointer.listed[Len(pointer.listed)] \in Nat
    BY <2>1, ListedType DEF RootInv, TypeOK, Ids
  <2> QED BY <1>3, <1>6, <2>1, <2>2 DEF RootInv, PointerOK, ListedOK
<1>8. Len(pointer.listed) <= fresh /\ Len(pointer.listed) + 1 \in Ids
  BY <1>3, <1>4, <1>6, <1>7 DEF RootAssumption, Ids
<1> QED BY <1>4, <1>8 DEF NextPlace, Places

LEMMA DecideSeals ==
    ASSUME RootAssumption, RootInv, NEW p \in Procs, pc[p] \in {"decide", "confirm"},
           NEW i \in DOMAIN pointer.listed, Seal(p, i), UNCHANGED diskVars
    PROVE  TypeOK'
BY SealTypes DEF RootInv, CallOK

LEMMA DecideRefuses ==
    ASSUME RootAssumption, RootInv, NEW p \in Procs, Refuse(p), UNCHANGED <<diskVars, run>>
    PROVE  TypeOK'
<1>1. TypeOK /\ DiskTypes' /\ run' \in [Procs -> Runs \cup {NoRun}]
  BY OldTypes DEF diskVars, RootInv, TypeOK, DiskTypes
<1> QED BY <1>1, RefuseTypes DEF Refuse

LEMMA DecideGoes ==
    ASSUME RootAssumption, RootInv, NEW p \in Procs, NEW label \in Labels, Goto(p, label),
           UNCHANGED <<diskVars, lockVars, job, run, seenVars>>
    PROVE  TypeOK'
<1>1. TypeOK /\ DiskTypes'
  BY DEF diskVars, RootInv, TypeOK, DiskTypes
<1> QED BY <1>1, OldTypes, GoTypes

LEMMA DecidePublishes ==
    ASSUME RootAssumption, RootInv, NEW p \in Procs, NEW next \in Pointers, NEW leaf \in Ids,
           Publish(p, next, leaf), UNCHANGED <<diskVars, lockVars, run, seenVars>>
    PROVE  TypeOK'
<1>1. TypeOK /\ DiskTypes'
  BY DEF diskVars, RootInv, TypeOK, DiskTypes
<1> QED BY <1>1, PublishTypes

LEMMA ReplaceableType ==
    ASSUME RootAssumption, RootInv, NEW p \in Procs,
           \/ ReuseActive(p) \/ ReplaceActive(p) \/ AdoptOrphan(p)
           \/ UpgradeActive(p) \/ UpgradeCopied(p) \/ RefuseReplaceable(p) \/ Copied(p)
    PROVE  TypeOK'
<1>1. DiskTypes /\ KindOK
  BY DEF RootInv, TypeOK, PointerOK
<1>2. pointer.kind # "none"
  BY DEF RootInv, CallOK, StageOK, ReuseActive, ReplaceActive, AdoptOrphan, UpgradeActive, UpgradeCopied,
     RefuseReplaceable, Copied, Deciding
<1>3. CASE ReuseActive(p)
  BY <1>1, <1>2, <1>3, ActiveIs, DecideSeals DEF ReuseActive, Deciding
<1>4. CASE ReplaceActive(p)
  BY <1>4, DecideGoes DEF ReplaceActive, Deciding, Labels
<1>5. CASE AdoptOrphan(p)
  BY <1>1, <1>2, <1>5, ReplacedType, DecidePublishes DEF AdoptOrphan, Deciding
<1>6. CASE UpgradeActive(p)
  BY <1>6, DecideGoes DEF UpgradeActive, Deciding, CopyFirst, Labels
<1>7. CASE UpgradeCopied(p)
  BY <1>1, <1>2, <1>7, ActiveIs, UpgradedType, DecidePublishes DEF UpgradeCopied, Deciding
<1>8. CASE RefuseReplaceable(p)
  BY <1>8, DecideRefuses DEF RefuseReplaceable, Deciding
<1>9. CASE Copied(p)
  BY <1>1, <1>2, <1>9, ActiveIs, UpgradedType, DecidePublishes DEF Copied
<1> QED BY <1>3, <1>4, <1>5, <1>6, <1>7, <1>8, <1>9

LEMMA VersionedType ==
    ASSUME RootAssumption, RootInv, NEW p \in Procs,
           BindIndexed(p) \/ NextIteration(p) \/ AdoptIteration(p) \/ RefuseVersioned(p)
    PROVE  TypeOK'
<1>1. CASE BindIndexed(p)
  BY <1>1, DecideSeals DEF BindIndexed, Deciding, IndexOf
<1>2. CASE NextIteration(p)
  BY <1>2, DecideGoes DEF NextIteration, Deciding, Labels
<1>3. CASE AdoptIteration(p)
  <2>1. NextPlace \in Places
    BY <1>3, Room DEF AdoptIteration, Deciding, Waiting
  <2>2. dirs[NextPlace].id \in Ids
    BY <1>3, <2>1, LeafType DEF AdoptIteration, Matches, Named, RootInv, TypeOK, Leaf
  <2> QED BY <1>3, <2>2, AppendedType, DecidePublishes DEF AdoptIteration, Deciding, RootInv, TypeOK
<1>4. CASE RefuseVersioned(p)
  BY <1>4, DecideRefuses DEF RefuseVersioned, Deciding
<1> QED BY <1>1, <1>2, <1>3, <1>4

LEMMA CreateType ==
    ASSUME RootAssumption, RootInv, NEW p \in Procs, Create(p)
    PROVE  TypeOK'
<1> DEFINE id == fresh + 1
           inLeaves == pointer.kind = "replaceable" \/ (pointer.kind = "none" /\ ~job[p].versioned)
           place == IF inLeaves THEN <<"leaves", id>> ELSE NextPlace
           next == CASE pointer.kind = "none" -> FirstPointer(id, job[p].versioned)
                     [] pointer.kind = "replaceable" -> ReplacedBy(id)
                     [] pointer.kind = "versioned" -> Appended(id)
<1>1. p \in Waiting
  BY DEF Create, Waiting
<1>2. id \in Ids /\ NextPlace \in Places
  BY <1>1, Room
<1>3. place \in Places
  BY <1>2, PlaceType
<1>4. TypeOK /\ DiskTypes /\ KindOK /\ pc[p] = "create"
  BY DEF Create, RootInv, TypeOK, PointerOK
<1>5. job[p].versioned \in BOOLEAN /\ job[p].plan \in Plans
  BY <1>4 DEF RootInv, CallOK, JobOK, TypeOK, CallTypes
<1>6. next \in Pointers
  BY <1>2, <1>4, <1>5, FirstType, ReplacedType, AppendedType DEF DiskTypes, Pointers
<1>7. DiskTypes'
  <2>1. dirs' \in [Places -> Leaf \cup {NoDir}]
    BY <1>2, <1>3, <1>4 DEF Create, DiskTypes, Leaf
  <2>2. planOf' \in [Ids -> Plans \cup {NoPlan}] /\ fresh' \in 0 .. MaxCalls
    BY <1>2, <1>4, <1>5 DEF Create, DiskTypes, Ids, RootAssumption
  <2> QED BY <1>4, <2>1, <2>2 DEF Create, DiskTypes
<1>8. Publish(p, next, id) /\ UNCHANGED <<lockVars, run, seenVars>>
  BY DEF Create
<1> QED BY <1>2, <1>4, <1>6, <1>7, <1>8, PublishTypes

LEMMA CopyType ==
    ASSUME RootAssumption, RootInv, NEW p \in Procs, Copy(p)
    PROVE  TypeOK'
<1>1. TypeOK /\ DiskTypes /\ KindOK /\ pointer.kind = "replaceable"
  BY DEF Copy, RootInv, TypeOK, PointerOK, CallOK, StageOK
<1>2. Active \in Ids /\ Iteration1 \in Places
  BY <1>1, ActiveIs DEF Iteration1, Places, Ids
<1>3. dirs' \in [Places -> Leaf \cup {NoDir}]
  <2>1. CASE dirs' = [dirs EXCEPT ![Iteration1] = [id |-> Active, named |-> FALSE, evidence |-> FALSE]]
    BY <1>1, <1>2, <2>1 DEF DiskTypes, Leaf
  <2>2. CASE dirs[Iteration1] # NoDir /\ dirs' = [dirs EXCEPT ![Iteration1].named = TRUE]
    BY <1>1, <1>2, <2>2, LeafType DEF DiskTypes, Leaf
  <2>3. CASE dirs[Iteration1] # NoDir /\ dirs' = [dirs EXCEPT ![Iteration1].evidence = TRUE]
    BY <1>1, <1>2, <2>3, LeafType DEF DiskTypes, Leaf
  <2> QED BY <2>1, <2>2, <2>3 DEF Copy
<1>4. DiskTypes'
  BY <1>1, <1>3 DEF Copy, DiskTypes
<1> QED BY <1>1, <1>4 DEF Copy, lockVars, seenVars, TypeOK, LockTypes, CallTypes, NoteTypes

LEMMA PublicationType ==
    ASSUME RootAssumption, RootInv, NEW p \in Procs,
           WriteTemporary(p) \/ Swap(p) \/ Confirm(p) \/ ConfirmFails(p)
    PROVE  TypeOK'
<1>1. CASE WriteTemporary(p)
  <2>1. TypeOK /\ DiskTypes'
    BY <1>1 DEF WriteTemporary, RootInv, TypeOK, DiskTypes
  <2>2. Goto(p, "swap") /\ "swap" \in Labels \cup {"idle"} /\ UNCHANGED <<lockVars, seenVars, job, run>>
    BY <1>1 DEF WriteTemporary, Labels
  <2> QED BY <2>1, <2>2, OldTypes, GoTypes
<1>2. CASE Swap(p)
  <2>1. NextOK(p) /\ TypeOK /\ KindOK
    BY <1>2 DEF Swap, RootInv, CallOK, StageOK, PointerOK
  <2>2. job[p].next \in Pointers
    BY <2>1, NextType
  <2>3. DiskTypes'
    BY <1>2, <2>2 DEF Swap, RootInv, TypeOK, DiskTypes
  <2>4. Goto(p, "confirm") /\ "confirm" \in Labels \cup {"idle"} /\ UNCHANGED <<lockVars, seenVars, job, run>>
    BY <1>2 DEF Swap, Labels
  <2> QED BY <2>1, <2>3, <2>4, OldTypes, GoTypes
<1>3. CASE Confirm(p)
  BY <1>3, DecideSeals DEF Confirm
<1>4. CASE ConfirmFails(p)
  <2>1. TypeOK /\ DiskTypes'
    BY <1>4 DEF ConfirmFails, diskVars, RootInv, TypeOK, DiskTypes
  <2> QED BY <1>4, <2>1, OldTypes, EndTypes DEF ConfirmFails, CommitIndeterminate
<1> QED BY <1>1, <1>2, <1>3, <1>4

(* A retired leaf has a place of its own, which is not that of a listed leaf. *)
LEMMA RetiredIs ==
    ASSUME RootAssumption, RootInv, NEW p \in Procs, pc[p] \in Maintaining
    PROVE  /\ pointer.kind # "none" /\ pointer.retired \in Ids /\ RetiredPlace \in Places
           /\ \A i \in DOMAIN pointer.listed : PlaceIn(pointer, i) # RetiredPlace
<1>1. pointer.retired # 0 /\ pointer.kind # "none" /\ DiskTypes
  BY DEF RootInv, CallOK, MaintainOK, PointerOK, KindOK, TypeOK
<1>2. pointer.retired \in Ids /\ RetiredPlace \in Places
  BY <1>1 DEF DiskTypes, Pointers, RetiredPlace, Places
<1>3. ASSUME NEW i \in DOMAIN pointer.listed
      PROVE  PlaceIn(pointer, i) # RetiredPlace
  <2>1. CASE pointer.kind = "versioned"
    BY <2>1 DEF PlaceIn, RetiredPlace
  <2>2. CASE pointer.kind = "replaceable"
    <3>1. i = 1
      <4>1. pointer.listed \in Seq(Ids) /\ Len(pointer.listed) = 1
        BY <1>1, <2>2 DEF DiskTypes, Pointers, RootInv, PointerOK, KindOK
      <4> QED BY <1>3, <4>1
    <3>2. pointer.retired # Active
      BY <2>2 DEF RootInv, PointerOK, LeavesOK
    <3> QED BY <2>2, <3>1, <3>2 DEF PlaceIn, RetiredPlace, Active
  <2> QED BY <1>1, <2>1, <2>2 DEF DiskTypes, Pointers
<1> QED BY <1>1, <1>2, <1>3

LEMMA MaintenanceType ==
    ASSUME RootAssumption, RootInv, NEW p \in Procs, Maintenance(p)
    PROVE  TypeOK'
<1>1. TypeOK /\ DiskTypes /\ RetiredPlace \in Places
  BY RetiredIs DEF Maintenance, FindRetired, Unlink, RemoveRetired, ClearRetired, Maintaining, RootInv, TypeOK
<1>2. CASE FindRetired(p)
  <2>1. CASE Refuse(p)
    BY <1>2, <2>1, DecideRefuses DEF FindRetired
  <2>2. CASE ~Refuse(p)
    BY <1>2, <2>2, DecideGoes DEF FindRetired, Labels
  <2> QED BY <2>1, <2>2
<1>3. CASE Unlink(p)
  <2>1. dirs[RetiredPlace] \in Leaf
    BY <1>1, <1>3, LeafType DEF Unlink, RootInv, CallOK, MaintainOK
  <2>2. dirs' \in [Places -> Leaf \cup {NoDir}]
    <3>1. CASE dirs' = [dirs EXCEPT ![RetiredPlace].named = FALSE]
      BY <1>1, <2>1, <3>1 DEF DiskTypes, Leaf
    <3>2. CASE dirs' = [dirs EXCEPT ![RetiredPlace].evidence = FALSE]
      BY <1>1, <2>1, <3>2 DEF DiskTypes, Leaf
    <3> QED BY <1>3, <3>1, <3>2 DEF Unlink
  <2>3. DiskTypes'
    BY <1>1, <1>3, <2>2 DEF Unlink, DiskTypes
  <2> QED BY <1>1, <1>3, <2>3 DEF Unlink, lockVars, seenVars, TypeOK, LockTypes, CallTypes, NoteTypes
<1>4. CASE RemoveRetired(p)
  <2>1. DiskTypes'
    BY <1>1, <1>4 DEF RemoveRetired, DiskTypes
  <2>2. Goto(p, "tidy") /\ "tidy" \in Labels \cup {"idle"} /\ UNCHANGED <<lockVars, seenVars, job, run>>
    BY <1>4 DEF RemoveRetired, Labels
  <2> QED BY <1>1, <2>1, <2>2, OldTypes, GoTypes
<1>5. CASE ClearRetired(p)
  <2>1. DiskTypes' /\ run' \in [Procs -> Runs \cup {NoRun}]
    BY <1>1, <1>5, OldTypes DEF ClearRetired, DiskTypes, Pointers
  <2>2. CASE End(p, "sealed")
    BY <1>1, <2>1, <2>2, EndTypes
  <2>3. CASE Goto(p, job[p].then) /\ UNCHANGED <<lockVars, job, seenVars>>
    <3>1. job[p].then \in Labels \cup {"idle"}
      BY <1>1 DEF TypeOK, CallTypes, Labels
    <3> QED BY <1>1, <2>1, <2>3, <3>1, OldTypes, GoTypes
  <2> QED BY <1>5, <2>2, <2>3 DEF ClearRetired
<1> QED BY <1>2, <1>3, <1>4, <1>5 DEF Maintenance

LEMMA ClearedTypes ==
    ASSUME TypeOK, NEW p \in Procs, MayBeCleared(p), UNCHANGED <<dirs, planOf, fresh>>, leftover' \in BOOLEAN
    PROVE  DiskTypes'
BY DEF MayBeCleared, TypeOK, DiskTypes, Pointers

LEMMA UseType ==
    ASSUME RootAssumption, RootInv, NEW p \in Procs, WriteEvidence(p) \/ EndUse(p)
    PROVE  TypeOK'
<1>1. TypeOK /\ DiskTypes
  BY DEF RootInv, TypeOK
<1>2. CASE WriteEvidence(p)
  <2>1. Bound(p) /\ run[p] \in Runs
    BY <1>1, <1>2, OldTypes DEF WriteEvidence, RootInv, CallOK, RunOK, Bound
  <2>2. dirs[run[p].place] \in Leaf
    <3>1. run[p].place \in Places /\ dirs[run[p].place] # NoDir
      BY <2>1 DEF Runs, Bound, RootInv, PointerOK, ActiveVerified, Verified, Named
    <3> QED BY <1>1, <3>1, LeafType
  <2>3. dirs' \in [Places -> Leaf \cup {NoDir}]
    BY <1>1, <1>2, <2>1, <2>2 DEF WriteEvidence, DiskTypes, Leaf, Runs
  <2>4. DiskTypes' /\ written' \subseteq Ids
    BY <1>1, <1>2, <2>1, <2>3 DEF WriteEvidence, DiskTypes, Runs, TypeOK, NoteTypes
  <2> QED BY <1>1, <1>2, <2>4 DEF WriteEvidence, lockVars, TypeOK, LockTypes, CallTypes, NoteTypes
<1>3. CASE EndUse(p)
  <2>1. DiskTypes' /\ run' \in [Procs -> Runs \cup {NoRun}]
    BY <1>1, <1>3, OldTypes DEF EndUse, diskVars, DiskTypes
  <2> QED BY <1>1, <1>3, <2>1, EndTypes DEF EndUse
<1> QED BY <1>2, <1>3

LEMMA FailureType ==
    ASSUME RootAssumption, RootInv, NEW p \in Procs, Raise(p) \/ Die(p)
    PROVE  TypeOK'
<1>1. TypeOK /\ leftover \in BOOLEAN
  BY DEF RootInv, TypeOK, DiskTypes
<1>2. CASE Raise(p)
  <2>1. DiskTypes' /\ run' \in [Procs -> Runs \cup {NoRun}]
    BY <1>1, <1>2, ClearedTypes, OldTypes DEF Raise
  <2> QED BY <1>1, <1>2, <2>1, RefuseTypes DEF Raise
<1>3. CASE Die(p)
  <2>1. DiskTypes' /\ LockTypes'
    BY <1>1, <1>3, ClearedTypes DEF Die, DropLock, TypeOK, LockTypes
  <2>2. job' \in [Procs -> Calls] /\ run' \in [Procs -> Runs \cup {NoRun}]
    BY <1>1, <1>3, OldTypes, EmptyTypes DEF Die
  <2>3. CallTypes'
    BY <1>1, <1>3, <2>2 DEF Die, Goto, TypeOK, CallTypes, Calls, Runs
  <2>4. NoteTypes'
    <3>1. job[p].plan \in Plans \cup {NoPlan} /\ job[p].versioned \in BOOLEAN /\ pc[p] \in Labels \cup {"idle"}
      BY <1>1 DEF TypeOK, CallTypes
    <3> QED BY <1>1, <1>3, <3>1 DEF Die, NoCut, TypeOK, NoteTypes
  <2> QED BY <2>1, <2>3, <2>4 DEF TypeOK
<1> QED BY <1>2, <1>3

Step(p) == Call(p) \/ Lock(p) \/ Bind(p) \/ Maintenance(p) \/ Use(p) \/ Raise(p) \/ Die(p)

LEMMA StepType ==
    ASSUME RootAssumption, RootInv, NEW p \in Procs, Step(p)
    PROVE  TypeOK'
<1>1. TypeOK
  BY DEF RootInv
<1>2. CASE Call(p) \/ Lock(p)
  BY <1>1, <1>2, CallType, LockType
<1>3. CASE Bind(p)
  BY <1>3, RecoverRootType, OpenRootType, ReplaceableType, VersionedType, CreateType, CopyType,
     PublicationType DEF Bind
<1>4. CASE Use(p)
  BY <1>4, EnterRunType, UseType DEF Use
<1> QED BY <1>2, <1>3, <1>4, MaintenanceType, FailureType DEF Step

-----------------------------------------------------------------------------
(* What a step of one process does to the others, the lock and the disk *)

Others(p) ==
    \A q \in Procs \ {p} :
        /\ pc'[q] = pc[q] /\ job'[q] = job[q] /\ run'[q] = run[q]
        /\ outcome'[q] = outcome[q] /\ found'[q] = found[q]

HoldMove(p) ==
    \/ UNCHANGED lockVars
    \/ exclusive = {} /\ exclusive' = exclusive /\ shared' = shared \cup {p}
    \/ exclusive = {} /\ shared = {} /\ exclusive' = {p} /\ shared' = shared
    \/ exclusive' = exclusive \ {p} /\ shared' = shared \ {p}

DiskMove(p) == UNCHANGED diskVars \/ p \in exclusive

LEMMA FailsOthers ==
    ASSUME TypeOK, NEW p \in Procs, NEW how, Fails(p, how), UNCHANGED run
    PROVE  Others(p) /\ HoldMove(p)
BY DEF Fails, End, DropLock, Goto, Others, HoldMove, TypeOK, CallTypes, NoteTypes

LEMMA MaintainOthers ==
    ASSUME TypeOK, NEW p \in Procs, NEW then, Maintain(p, then),
           run' = run \/ \E r : run' = [run EXCEPT ![p] = r], UNCHANGED <<lockVars, seenVars>>
    PROVE  Others(p) /\ HoldMove(p)
BY DEF Maintain, lockVars, seenVars, Goto, Others, HoldMove, TypeOK, CallTypes, NoteTypes

LEMMA SealOthers ==
    ASSUME TypeOK, NEW p \in Procs, NEW i, Seal(p, i)
    PROVE  Others(p) /\ HoldMove(p)
<1>1. CASE pointer.retired # 0
  BY <1>1, MaintainOthers DEF Seal
<1>2. CASE pointer.retired = 0
  BY <1>2 DEF Seal, End, DropLock, Goto, Others, HoldMove, TypeOK, CallTypes, NoteTypes
<1> QED BY <1>1, <1>2

LEMMA PublishOthers ==
    ASSUME TypeOK, NEW p \in Procs, NEW next, NEW leaf, Publish(p, next, leaf),
           UNCHANGED <<lockVars, seenVars, run>>
    PROVE  Others(p) /\ HoldMove(p)
BY DEF Publish, lockVars, seenVars, Goto, Others, HoldMove, TypeOK, CallTypes, NoteTypes

LEMMA BindOthers ==
    ASSUME TypeOK, NEW p \in Procs, Bind(p)
    PROVE  Others(p) /\ HoldMove(p)
<1>1. CASE RecoverRoot(p)
  BY <1>1, FailsOthers, PublishOthers DEF RecoverRoot, Refuse, Goto, lockVars, seenVars, Others, HoldMove, TypeOK, CallTypes, NoteTypes
<1>2. CASE OpenRoot(p)
  BY <1>2, FailsOthers, MaintainOthers DEF OpenRoot, Refuse
<1>3. CASE ReuseActive(p)
  BY <1>3, SealOthers DEF ReuseActive
<1>4. CASE ReplaceActive(p)
  BY <1>4 DEF ReplaceActive, Goto, lockVars, seenVars, Others, HoldMove, TypeOK, CallTypes,
     NoteTypes
<1>5. CASE AdoptOrphan(p)
  BY <1>5, PublishOthers DEF AdoptOrphan
<1>6. CASE UpgradeActive(p)
  BY <1>6 DEF UpgradeActive, CopyFirst, Goto, lockVars, seenVars, Others, HoldMove, TypeOK,
     CallTypes, NoteTypes
<1>7. CASE UpgradeCopied(p)
  BY <1>7, PublishOthers DEF UpgradeCopied
<1>8. CASE RefuseReplaceable(p)
  BY <1>8, FailsOthers DEF RefuseReplaceable, Refuse
<1>9. CASE BindIndexed(p)
  BY <1>9, SealOthers DEF BindIndexed
<1>10. CASE NextIteration(p)
  BY <1>10 DEF NextIteration, Goto, lockVars, seenVars, Others, HoldMove, TypeOK, CallTypes,
     NoteTypes
<1>11. CASE AdoptIteration(p)
  BY <1>11, PublishOthers DEF AdoptIteration
<1>12. CASE RefuseVersioned(p)
  BY <1>12, FailsOthers DEF RefuseVersioned, Refuse
<1>13. CASE Create(p)
  BY <1>13, PublishOthers DEF Create
<1>14. CASE Copy(p)
  BY <1>14 DEF Copy, Goto, lockVars, seenVars, Others, HoldMove, TypeOK, CallTypes, NoteTypes
<1>15. CASE Copied(p)
  BY <1>15, PublishOthers DEF Copied
<1>16. CASE WriteTemporary(p)
  BY <1>16 DEF WriteTemporary, Goto, lockVars, seenVars, Others, HoldMove, TypeOK, CallTypes,
     NoteTypes
<1>17. CASE Swap(p)
  BY <1>17 DEF Swap, Goto, lockVars, seenVars, Others, HoldMove, TypeOK, CallTypes, NoteTypes
<1>18. CASE Confirm(p)
  BY <1>18, SealOthers DEF Confirm
<1>19. CASE ConfirmFails(p)
  BY <1>19 DEF ConfirmFails, End, DropLock, Goto, lockVars, seenVars, Others, HoldMove, TypeOK,
     CallTypes, NoteTypes
<1> QED BY <1>1, <1>2, <1>3, <1>4, <1>5, <1>6, <1>7, <1>8, <1>9, <1>10, <1>11, <1>12, <1>13,
     <1>14, <1>15, <1>16, <1>17, <1>18, <1>19 DEF Bind

LEMMA StepOthers ==
    ASSUME TypeOK, NEW p \in Procs, Step(p)
    PROVE  Others(p) /\ HoldMove(p)
<1>1. CASE Call(p)
  BY <1>1 DEF Call, Goto, lockVars, Others, HoldMove, TypeOK, CallTypes, NoteTypes
<1>2. CASE Lock(p)
  BY <1>2 DEF Lock, Goto, TakeShared, TakeExclusive, Others, HoldMove, TypeOK, CallTypes, NoteTypes, LockTypes
<1>3. CASE FindRetired(p)
  <2>1. CASE Refuse(p)
    BY <1>3, <2>1, FailsOthers DEF FindRetired, Refuse
  <2>2. CASE ~Refuse(p)
    BY <1>3, <2>2 DEF FindRetired, Goto, lockVars, seenVars, Others, HoldMove, TypeOK, CallTypes, NoteTypes
  <2> QED BY <2>1, <2>2
<1>4. CASE Unlink(p)
  BY <1>4 DEF Unlink, lockVars, seenVars, Others, HoldMove
<1>5. CASE RemoveRetired(p)
  BY <1>5 DEF RemoveRetired, Goto, lockVars, seenVars, Others, HoldMove, TypeOK, CallTypes, NoteTypes
<1>6. CASE ClearRetired(p)
  BY <1>6 DEF ClearRetired, End, DropLock, Goto, lockVars, seenVars, Others, HoldMove, TypeOK,
     CallTypes, NoteTypes
<1>7. CASE EnterRun(p)
  <2>1. CASE Refuse(p) /\ UNCHANGED run
    BY <2>1, FailsOthers DEF Refuse
  <2>2. CASE ~(Refuse(p) /\ UNCHANGED run)
    <3>1. UNCHANGED <<lockVars, seenVars>> /\ \E place : run' = [run EXCEPT ![p].place = place]
      BY <1>7, <2>2 DEF EnterRun
    <3>2. Others(p) \/ Maintain(p, "use")
      BY <1>7, <2>2, <3>1 DEF EnterRun, Goto, seenVars, Others, TypeOK, CallTypes, NoteTypes
    <3>3. Maintain(p, "use") => Others(p)
      BY <3>1, MaintainOthers
    <3> QED BY <3>1, <3>2, <3>3 DEF HoldMove
  <2> QED BY <2>1, <2>2
<1>8. CASE WriteEvidence(p)
  BY <1>8 DEF WriteEvidence, lockVars, Others, HoldMove
<1>9. CASE EndUse(p)
  BY <1>9 DEF EndUse, End, DropLock, Goto, Others, HoldMove, TypeOK, CallTypes, NoteTypes
<1>10. CASE Raise(p)
  BY <1>10, FailsOthers DEF Raise
<1>11. CASE Die(p)
  BY <1>11 DEF Die, DropLock, Goto, Others, HoldMove, TypeOK, CallTypes, NoteTypes
<1> QED
  BY BindOthers, <1>1, <1>2, <1>3, <1>4, <1>5, <1>6, <1>7, <1>8, <1>9, <1>10, <1>11
     DEF Step, Maintenance, Use

(* Only the holder of the exclusive lock changes anything below the root. *)
LEMMA StepDisk ==
    ASSUME RootInv, NEW p \in Procs, Step(p)
    PROVE  DiskMove(p)
<1>1. JobOK(p) /\ HoldOK(p) /\ ThenOK(p)
  BY DEF RootInv, CallOK
<1>2. pc[p] \in Staged \cup Maintaining => p \in exclusive
  BY <1>1 DEF JobOK, HoldOK, Staged, Maintaining
<1>3. CASE Bind(p)
  BY <1>2, <1>3 DEF Bind, RecoverRoot, OpenRoot, ReuseActive, ReplaceActive, AdoptOrphan, UpgradeActive,
     UpgradeCopied, RefuseReplaceable, BindIndexed, NextIteration, AdoptIteration, RefuseVersioned, Create,
     Copy, Copied, WriteTemporary, Swap, Confirm, ConfirmFails, Deciding, DiskMove, Staged
<1>4. CASE Maintenance(p)
  BY <1>2, <1>4 DEF Maintenance, FindRetired, Unlink, RemoveRetired, ClearRetired, DiskMove, Maintaining
<1>5. CASE Use(p)
  BY <1>1, <1>5 DEF Use, EnterRun, WriteEvidence, EndUse, DiskMove, HoldOK
<1>6. CASE Raise(p)
  BY <1>2, <1>6 DEF Raise, MayBeCleared, DiskMove, diskVars, Staged, Maintaining
<1>7. CASE Die(p)
  BY <1>2, <1>7 DEF Die, MayBeCleared, DiskMove, diskVars, Staged, Maintaining
<1>8. CASE Call(p) \/ Lock(p)
  BY <1>8 DEF Call, Lock, DiskMove
<1> QED BY <1>3, <1>4, <1>5, <1>6, <1>7, <1>8 DEF Step

(* A step of one process disturbs no call of another. *)
LEMMA WaitingOK ==
    ASSUME NEW q \in Procs, CallOK(q), pc[q] \in {"idle", "lock"},
           pc'[q] = pc[q], job'[q] = job[q], run'[q] = run[q]
    PROVE  CallOK(q)'
BY DEF CallOK, JobOK, ThenOK, HoldOK, FoundOK, RunOK, MaintainOK, StageOK, Maintaining, Staged

LEMMA SameOK ==
    ASSUME NEW q \in Procs, CallOK(q), UNCHANGED diskVars,
           pc'[q] = pc[q], job'[q] = job[q], run'[q] = run[q], found'[q] = found[q],
           q \in exclusive => q \in exclusive', q \in shared => q \in shared'
    PROVE  CallOK(q)'
<1> USE DEF diskVars
<1>1. JobOK(q)' /\ ThenOK(q)' /\ HoldOK(q)'
  BY DEF CallOK, JobOK, ThenOK, HoldOK
<1>2. FoundOK(q)'
  BY DEF CallOK, FoundOK, Settled
<1>3. RunOK(q)'
  BY DEF CallOK, RunOK, Bound, PlaceIn
<1>4. MaintainOK(q)'
  BY DEF CallOK, MaintainOK, RetiredPlace
<1>5. NextOK(q) <=> NextOK(q)'
  <2>1. FirstNext(q) <=> FirstNext(q)'
    BY DEF FirstNext, Recoverable, Matches, Named
  <2>2. ReplaceNext(q) <=> ReplaceNext(q)'
    BY DEF ReplaceNext, ReplacedBy, Unbound, Active, Matches, Named
  <2>3. UpgradeNext(q) <=> UpgradeNext(q)'
    BY DEF UpgradeNext, Upgraded, Unbound, Active, Verified, Named, Iteration1
  <2>4. AppendNext(q) <=> AppendNext(q)'
    BY DEF AppendNext, Appended, NextPlace, IndexOf, Matches, Named
  <2> QED BY <2>1, <2>2, <2>3, <2>4 DEF NextOK
<1>6. ReadyToCreate(q) => ReadyToCreate(q)'
  BY DEF ReadyToCreate, NothingThere, Unbound, Active, FreeNext, NextPlace, IndexOf
<1>7. ConfirmOK(q) => ConfirmOK(q)'
  BY DEF ConfirmOK, Unbound, Active, FreeNext, NextPlace
<1>8. RetiredWhole => RetiredWhole'
  BY DEF RetiredWhole, RetiredPlace, Verified, Named
<1>9. StageOK(q)'
  BY <1>5, <1>6, <1>7, <1>8 DEF CallOK, StageOK, Unbound, Active
<1> QED BY <1>1, <1>2, <1>3, <1>4, <1>9 DEF CallOK

LEMMA OtherOK ==
    ASSUME RootInv, NEW p \in Procs, Step(p), NEW q \in Procs \ {p}
    PROVE  CallOK(q)'
<1>1. Others(p) /\ HoldMove(p) /\ DiskMove(p) /\ CallOK(q)
  BY StepOthers, StepDisk DEF RootInv
<1>2. q \in exclusive => q \in exclusive'
  BY <1>1 DEF HoldMove, lockVars
<1>3. q \in shared => q \in shared'
  BY <1>1 DEF HoldMove, lockVars
<1>4. CASE UNCHANGED diskVars
  BY <1>1, <1>2, <1>3, <1>4, SameOK DEF Others
<1>5. CASE p \in exclusive
  <2>1. q \notin exclusive /\ q \notin shared
    BY <1>5 DEF RootInv, TypeOK, LockTypes
  <2>2. pc[q] \in {"idle", "lock"}
    BY <1>1, <2>1 DEF CallOK, HoldOK
  <2> QED BY <1>1, <2>2, WaitingOK DEF Others
<1> QED BY <1>1, <1>4, <1>5 DEF DiskMove

-----------------------------------------------------------------------------
(* What a step leaves its own call with *)

LEMMA NoLabels == {"idle", "lock", "look", "use"} \cap (Staged \cup Maintaining) = {}
BY DEF Staged, Maintaining

LEMMA EndsOK ==
    ASSUME RootAssumption, TypeOK, NEW p \in Procs, NEW how, End(p, how)
    PROVE  CallOK(p)'
<1>1. pc'[p] = "idle" /\ job'[p] = NoJob
  BY DEF End, Goto, TypeOK, CallTypes
<1> QED BY <1>1, EndOK

LEMMA FailsOK ==
    ASSUME RootAssumption, TypeOK, NEW p \in Procs, NEW how, Fails(p, how)
    PROVE  CallOK(p)'
BY EndsOK DEF Fails

(* A step that keeps the lock, the Run, and what there is to find. *)
LEMMA CallOwn ==
    ASSUME RootAssumption, RootInv, NEW p \in Procs, Call(p)
    PROVE  CallOK(p)'
<1>1. PICK kind \in {"bind", "write", "read"}, plan \in Plans, versioned \in BOOLEAN :
          /\ kind # "bind" => run[p] # NoRun
          /\ job' = [job EXCEPT ![p] = [NoJob EXCEPT !.kind = kind, !.plan = plan,
                                                     !.versioned = versioned, !.then = "look"]]
  BY DEF Call
<1>2. job'[p].kind = kind /\ job'[p].plan = plan /\ job'[p].then = "look"
  BY <1>1, OldTypes DEF RootInv, NoJob
<1>3. pc'[p] = "lock" /\ UNCHANGED run
  BY DEF Call, Goto, RootInv, TypeOK, CallTypes
<1> QED BY <1>1, <1>2, <1>3 DEF CallOK, JobOK, ThenOK, HoldOK, FoundOK, RunOK, MaintainOK, StageOK,
           Maintaining, Staged

LEMMA LockOwn ==
    ASSUME RootAssumption, RootInv, NEW p \in Procs, Lock(p)
    PROVE  CallOK(p)'
<1>1. pc'[p] = "look" /\ UNCHANGED <<job, run, pointer>> /\ found'[p] = pointer.listed
  BY DEF Lock, Goto, diskVars, RootInv, TypeOK, CallTypes, NoteTypes
<1>2. JobOK(p) /\ ThenOK(p) /\ pc[p] = "lock"
  BY DEF Lock, RootInv, CallOK
<1>3. JobOK(p)' /\ ThenOK(p)'
  BY <1>1, <1>2 DEF JobOK, ThenOK, Maintaining, Staged
<1>4. HoldOK(p)'
  BY <1>1 DEF Lock, TakeShared, TakeExclusive, HoldOK
<1> QED BY <1>1, <1>3, <1>4 DEF CallOK, FoundOK, RunOK, MaintainOK, StageOK, Maintaining, Staged

LEMMA SealOwn ==
    ASSUME RootAssumption, RootInv, NEW p \in Procs, pc[p] \in {"decide", "confirm"},
           NEW i \in DOMAIN pointer.listed, Seal(p, i), UNCHANGED diskVars
    PROVE  CallOK(p)'
<1>1. TypeOK /\ CallOK(p) /\ PointerOK
  BY DEF RootInv
<1>2. CASE pointer.retired = 0
  BY <1>1, <1>2, EndsOK DEF Seal
<1>3. CASE pointer.retired # 0
  <2>1. /\ pc'[p] = "maintain" /\ job'[p].then = "idle"
        /\ job'[p].kind = job[p].kind /\ job'[p].plan = job[p].plan /\ UNCHANGED lockVars
    BY <1>1, <1>3 DEF Seal, Maintain, Goto, TypeOK, CallTypes
  <2>2. UNCHANGED pointer
    BY DEF diskVars
  <2>3. run'[p] = [leaf |-> pointer.listed[i], place |-> PlaceIn(pointer, i), plan |-> job[p].plan]
    BY <1>1 DEF Seal, TypeOK, CallTypes
  <2>4. job[p].kind = "bind" /\ job[p].plan \in Plans /\ p \in exclusive
    BY <1>1 DEF CallOK, JobOK, HoldOK, Staged
  <2>5. run'[p] \in Runs
    <3>1. pointer.listed[i] \in Ids /\ PlaceIn(pointer, i) \in Places
      BY <1>1, ListedType, PlaceInType DEF TypeOK, PointerOK
    <3> QED BY <2>3, <2>4, <3>1 DEF Runs
  <2>6. Bound(p)' /\ run'[p].plan = job'[p].plan
    BY <2>1, <2>2, <2>3, <2>5 DEF Bound, PlaceIn, RootAssumption, Runs
  <2>7. JobOK(p)' /\ ThenOK(p)' /\ HoldOK(p)' /\ FoundOK(p)'
    BY <2>1, <2>4 DEF lockVars, JobOK, ThenOK, HoldOK, FoundOK, Settled, Maintaining, Staged
  <2>8. MaintainOK(p)' /\ StageOK(p)'
    BY <1>3, <2>1, <2>2 DEF MaintainOK, StageOK, Maintaining
  <2>9. RunOK(p)'
    BY <2>1, <2>6 DEF RunOK
  <2> QED BY <2>7, <2>8, <2>9 DEF CallOK
<1> QED BY <1>2, <1>3

(* A step to a stage of a bind: only what StageOK says of it is left to show. *)
LEMMA StageOwn ==
    ASSUME RootAssumption, RootInv, NEW p \in Procs, pc[p] \in {"look"} \cup Staged, pc'[p] \in Staged,
           job[p].kind = "bind", job'[p].kind = "bind", job'[p].plan = job[p].plan, job'[p].then # "idle",
           UNCHANGED <<lockVars, run>>, found'[p] = found[p],
           pc'[p] = "confirm" \/ UNCHANGED pointer, pc[p] # "confirm", StageOK(p)'
    PROVE  CallOK(p)'
<1>1. CallOK(p)
  BY DEF RootInv
<1>2. JobOK(p)' /\ ThenOK(p)' /\ RunOK(p)' /\ MaintainOK(p)'
  BY <1>1 DEF CallOK, JobOK, ThenOK, RunOK, MaintainOK, Staged, Maintaining
<1>3. HoldOK(p)' /\ FoundOK(p)'
  BY <1>1 DEF lockVars, CallOK, HoldOK, FoundOK, Settled, Staged, Maintaining
<1> QED BY <1>2, <1>3 DEF CallOK

LEMMA RecoverRootOwn ==
    ASSUME RootAssumption, RootInv, NEW p \in Procs, RecoverRoot(p)
    PROVE  CallOK(p)'
<1>1. TypeOK /\ PointerOK /\ CallOK(p) /\ UNCHANGED <<diskVars, run>>
  BY DEF RecoverRoot, RootInv
<1>2. pc[p] = "look" /\ job[p].kind = "bind" /\ pointer.kind = "none" /\ pointer.retired = 0
      /\ job[p].then = "look"
  BY <1>1 DEF RecoverRoot, PointerOK, KindOK, CallOK, ThenOK
<1>3. CASE Refuse(p)
  BY <1>1, <1>3, FailsOK DEF Refuse
<1>4. CASE /\ ~leftover /\ \A place \in Places : dirs[place] = NoDir
           /\ Goto(p, "create") /\ UNCHANGED <<lockVars, job, seenVars>>
  <2>1. pc'[p] = "create" /\ UNCHANGED <<job, lockVars, pointer, dirs, leftover, found>>
    BY <1>1, <1>4 DEF Goto, TypeOK, CallTypes, diskVars, seenVars
  <2>2. StageOK(p)'
    BY <1>2, <1>4, <2>1 DEF StageOK, ReadyToCreate, NothingThere
  <2> QED BY <1>1, <1>2, <2>1, <2>2, StageOwn DEF Staged
<1>5. ASSUME NEW place \in Places, ~leftover, Recoverable(place, job[p].plan, job[p].versioned),
             Publish(p, FirstPointer(dirs[place].id, job[p].versioned), dirs[place].id),
             UNCHANGED <<lockVars, seenVars>>
      PROVE  CallOK(p)'
  <2>1. /\ pc'[p] = "publish" /\ UNCHANGED <<lockVars, pointer, dirs, leftover, planOf, found>>
        /\ job'[p].next = FirstPointer(dirs[place].id, job[p].versioned) /\ job'[p].leaf = dirs[place].id
        /\ job'[p].kind = job[p].kind /\ job'[p].plan = job[p].plan /\ job'[p].then = job[p].then
        /\ job'[p].versioned = job[p].versioned
    BY <1>1, <1>5 DEF Publish, Goto, TypeOK, CallTypes, diskVars, seenVars
  <2>2. Recoverable(place, job[p].plan, job[p].versioned)'
    BY <1>5, <2>1 DEF Recoverable, Matches, Named
  <2>3. FirstNext(p)'
    BY <1>2, <2>1, <2>2 DEF FirstNext
  <2>4. StageOK(p)'
    BY <1>2, <1>5, <2>1, <2>3 DEF StageOK, NextOK
  <2> QED BY <1>1, <1>2, <2>1, <2>4, StageOwn DEF Staged
<1> QED BY <1>3, <1>4, <1>5 DEF RecoverRoot

LEMMA MaintainOwn ==
    ASSUME RootAssumption, RootInv, NEW p \in Procs, pc[p] = "look", pointer.kind # "none",
           NEW then \in {"decide", "use"}, Maintain(p, then), UNCHANGED <<diskVars, lockVars, seenVars>>,
           IF then = "use" THEN job[p].kind = "write" /\ Bound(p)' /\ run'[p] # NoRun
                           ELSE job[p].kind = "bind" /\ UNCHANGED run
    PROVE  CallOK(p)'
<1>1. TypeOK /\ CallOK(p)
  BY DEF RootInv
<1>2. /\ pc'[p] = IF pointer.retired # 0 THEN "maintain" ELSE then
      /\ job'[p].then = then /\ job'[p].kind = job[p].kind /\ job'[p].plan = job[p].plan
      /\ UNCHANGED <<pointer, lockVars, found>>
  BY <1>1 DEF Maintain, Goto, TypeOK, CallTypes, diskVars, seenVars
<1>3. JobOK(p)' /\ ThenOK(p)'
  BY <1>1, <1>2 DEF CallOK, JobOK, ThenOK, Maintaining, Staged
<1>4. HoldOK(p)' /\ FoundOK(p)'
  BY <1>1, <1>2 DEF lockVars, CallOK, HoldOK, FoundOK, Settled, Maintaining
<1>5. RunOK(p)' /\ MaintainOK(p)' /\ StageOK(p)'
  BY <1>1, <1>2 DEF RunOK, MaintainOK, StageOK, Maintaining
<1> QED BY <1>3, <1>4, <1>5 DEF CallOK

LEMMA OpenRootOwn ==
    ASSUME RootAssumption, RootInv, NEW p \in Procs, OpenRoot(p)
    PROVE  CallOK(p)'
<1>1. CASE Refuse(p)
  BY <1>1, FailsOK DEF Refuse, RootInv
<1>2. CASE Maintain(p, "decide") /\ UNCHANGED <<lockVars, seenVars>>
  BY <1>2, MaintainOwn DEF OpenRoot
<1> QED BY <1>1, <1>2 DEF OpenRoot

LEMMA EnterRunOwn ==
    ASSUME RootAssumption, RootInv, NEW p \in Procs, EnterRun(p)
    PROVE  CallOK(p)'
<1>1. TypeOK /\ CallOK(p) /\ UNCHANGED diskVars /\ pc[p] = "look" /\ job[p].kind \in {"write", "read"}
  BY DEF EnterRun, RootInv
<1>2. CASE Refuse(p) /\ UNCHANGED run
  BY <1>1, <1>2, FailsOK DEF Refuse
<1>3. CASE ~(Refuse(p) /\ UNCHANGED run)
  <2>1. UNCHANGED <<lockVars, seenVars>>
    BY <1>3 DEF EnterRun
  <2>2. PICK i \in DOMAIN pointer.listed :
            pointer.listed[i] = run[p].leaf /\ run' = [run EXCEPT ![p].place = PlaceIn(pointer, i)]
    BY <1>3 DEF EnterRun, OwnIndex
  <2>3. run[p] \in Runs
    BY <1>1, OldTypes DEF CallOK, JobOK
  <2>4. run'[p] = [run[p] EXCEPT !.place = PlaceIn(pointer, i)] /\ PlaceIn(pointer, i) \in Places
    BY <1>1, <2>2, PlaceInType DEF TypeOK, CallTypes, RootInv, PointerOK
  <2>5. run'[p] \in Runs /\ run'[p].leaf = run[p].leaf /\ run'[p].place = PlaceIn(pointer, i)
    BY <2>3, <2>4 DEF Runs
  <2>6. run'[p] # NoRun /\ Bound(p)'
    BY <1>1, <2>2, <2>5 DEF RootAssumption, Runs, Bound, PlaceIn, diskVars
  <2>7. CASE job[p].kind = "read"
    <3>1. pc'[p] = "use" /\ UNCHANGED <<job, pointer>>
      BY <1>1, <1>3, <2>7 DEF EnterRun, Goto, TypeOK, CallTypes, diskVars
    <3>2. JobOK(p)' /\ ThenOK(p)' /\ HoldOK(p)' /\ FoundOK(p)'
      BY <1>1, <2>1, <2>6, <2>7, <3>1 DEF lockVars, CallOK, JobOK, ThenOK, HoldOK, FoundOK, Settled,
         Staged, Maintaining
    <3>3. RunOK(p)' /\ MaintainOK(p)' /\ StageOK(p)'
      BY <2>6, <3>1 DEF RunOK, MaintainOK, StageOK, Maintaining
    <3> QED BY <3>2, <3>3 DEF CallOK
  <2>8. CASE job[p].kind = "write"
    <3>1. Maintain(p, "use")
      BY <1>3, <2>8 DEF EnterRun
    <3>2. pointer.kind # "none"
      <4>1. pointer.kind = "none" => pointer.listed = <<>>
        BY DEF RootInv, PointerOK, KindOK
      <4> QED BY <2>2, <4>1
    <3> QED BY <1>1, <2>1, <2>6, <2>8, <3>1, <3>2, MaintainOwn
  <2> QED BY <1>1, <2>7, <2>8
<1> QED BY <1>2, <1>3

(* What a process knows once it may decide, and how the active leaf is kept. *)
LEMMA StagedIs ==
    ASSUME RootAssumption, RootInv, NEW p \in Procs, pc[p] \in Staged
    PROVE  /\ TypeOK /\ PointerOK /\ CallOK(p) /\ job[p].kind = "bind" /\ job[p].then # "idle"
           /\ job[p].plan \in Plans
           /\ pointer.kind # "none" => Active \in Ids /\ 1 \in DOMAIN pointer.listed
BY ActiveIs DEF RootInv, CallOK, JobOK, ThenOK, PointerOK, TypeOK, Staged

LEMMA PublishIs ==
    ASSUME TypeOK, NEW p \in Procs, NEW next, NEW leaf, Publish(p, next, leaf), UNCHANGED <<lockVars, run, seenVars>>
    PROVE  /\ pc'[p] = "publish" /\ job'[p].next = next /\ job'[p].leaf = leaf
           /\ job'[p].kind = job[p].kind /\ job'[p].plan = job[p].plan
           /\ job'[p].versioned = job[p].versioned /\ job'[p].then = job[p].then
           /\ UNCHANGED <<lockVars, run, found>>
BY DEF Publish, Goto, TypeOK, CallTypes, seenVars

LEMMA ReplaceableOwn ==
    ASSUME RootAssumption, RootInv, NEW p \in Procs,
           \/ ReuseActive(p) \/ ReplaceActive(p) \/ AdoptOrphan(p)
           \/ UpgradeActive(p) \/ UpgradeCopied(p) \/ RefuseReplaceable(p) \/ Copied(p)
    PROVE  CallOK(p)'
<1>1. /\ pointer.kind = "replaceable" /\ pointer.retired = 0 /\ UNCHANGED diskVars
      /\ pc[p] \in {"decide", "copy"}
  BY DEF RootInv, CallOK, StageOK, ReuseActive, ReplaceActive, AdoptOrphan, UpgradeActive, UpgradeCopied,
     RefuseReplaceable, Copied, Deciding
<1>2. /\ TypeOK /\ PointerOK /\ CallOK(p) /\ job[p].kind = "bind" /\ job[p].then # "idle"
      /\ job[p].plan \in Plans /\ Active \in Ids /\ 1 \in DOMAIN pointer.listed
  BY <1>1, StagedIs DEF Staged
<1>3. UNCHANGED <<pointer, dirs, leftover, planOf>>
  BY <1>1 DEF diskVars
<1>4. CASE ReuseActive(p)
  BY <1>1, <1>2, <1>4, SealOwn DEF ReuseActive, Deciding
<1>5. CASE ReplaceActive(p) \/ UpgradeActive(p)
  <2>1. pc'[p] \in {"create", "copy"} /\ UNCHANGED <<lockVars, job, run, found>>
    BY <1>2, <1>5 DEF ReplaceActive, UpgradeActive, CopyFirst, Goto, TypeOK, CallTypes, seenVars
  <2>2. StageOK(p)'
    <3>1. CASE ReplaceActive(p)
      <4>1. pc'[p] = "create"
        BY <1>2, <3>1 DEF ReplaceActive, Goto, TypeOK, CallTypes
      <4> QED BY <1>1, <1>3, <2>1, <3>1, <4>1 DEF StageOK, ReadyToCreate, ReplaceActive, Unbound, Active
    <3>2. CASE UpgradeActive(p)
      <4>1. pc'[p] = "copy"
        BY <1>2, <3>2 DEF UpgradeActive, CopyFirst, Goto, TypeOK, CallTypes
      <4> QED BY <1>1, <1>3, <2>1, <3>2, <4>1 DEF StageOK, UpgradeActive, Unbound, Active
    <3> QED BY <1>5, <3>1, <3>2
  <2> QED BY <1>1, <1>2, <1>3, <2>1, <2>2, StageOwn DEF Staged
<1>6. CASE AdoptOrphan(p)
  <2>1. PICK id \in Ids : /\ Unbound = {id}
                          /\ Matches(<<"leaves", id>>, job[p].plan) /\ ~dirs[<<"leaves", id>>].evidence
                          /\ Publish(p, ReplacedBy(id), id)
    BY <1>6 DEF AdoptOrphan
  <2>2. /\ pc'[p] = "publish" /\ job'[p].next = ReplacedBy(id) /\ job'[p].leaf = id
        /\ job'[p].kind = job[p].kind /\ job'[p].plan = job[p].plan
        /\ job'[p].versioned = job[p].versioned /\ job'[p].then = job[p].then
        /\ UNCHANGED <<lockVars, run, found>>
    BY <1>2, <1>6, <2>1, PublishIs DEF AdoptOrphan
  <2>3. ReplaceNext(p)'
    BY <1>1, <1>3, <1>6, <2>1, <2>2
       DEF ReplaceNext, AdoptOrphan, ReplacedBy, Unbound, Active, Matches, Named
  <2>4. StageOK(p)'
    BY <1>1, <1>3, <2>2, <2>3 DEF StageOK, NextOK
  <2> QED BY <1>1, <1>2, <1>3, <2>2, <2>4, StageOwn DEF Staged
<1>7. CASE UpgradeCopied(p) \/ Copied(p)
  <2>1. Publish(p, Upgraded, Active) /\ UNCHANGED <<lockVars, run, seenVars>>
    BY <1>7 DEF UpgradeCopied, Copied
  <2>2. /\ pc'[p] = "publish" /\ job'[p].next = Upgraded /\ job'[p].leaf = Active
        /\ job'[p].kind = job[p].kind /\ job'[p].plan = job[p].plan
        /\ job'[p].versioned = job[p].versioned /\ job'[p].then = job[p].then
        /\ UNCHANGED <<lockVars, run, found>>
    BY <1>2, <2>1, PublishIs
  <2>3. Verified(Iteration1, Active) /\ Unbound = {} /\ job[p].versioned
    <3>1. CASE UpgradeCopied(p)
      BY <3>1 DEF UpgradeCopied
    <3>2. CASE Copied(p)
      <4>1. Verified(ActivePlace, Active)
        BY <1>1, <1>2 DEF PointerOK, ActiveVerified, PlaceIn, Active, ActivePlace
      <4>2. Verified(Iteration1, Active)
        BY <3>2, <4>1 DEF Copied, Verified, Named
      <4> QED BY <1>2, <3>2, <4>2 DEF Copied, CallOK, StageOK
    <3> QED BY <1>7, <3>1, <3>2
  <2>4. UpgradeNext(p)'
    BY <1>1, <1>3, <2>2, <2>3 DEF UpgradeNext, Upgraded, Unbound, Active, Verified, Named, Iteration1
  <2>5. StageOK(p)'
    BY <1>1, <1>3, <2>2, <2>4 DEF StageOK, NextOK
  <2> QED BY <1>1, <1>2, <1>3, <2>2, <2>5, StageOwn DEF Staged
<1>8. CASE RefuseReplaceable(p)
  BY <1>2, <1>8, FailsOK DEF RefuseReplaceable, Refuse
<1> QED BY <1>4, <1>5, <1>6, <1>7, <1>8

(* An iteration that was left behind is of a Plan that is not listed yet. *)
LEMMA OrphanIsNew ==
    ASSUME RootAssumption, RootInv, NEW p \in Procs, pc[p] = "decide", pointer.kind = "versioned",
           Matches(NextPlace, job[p].plan)
    PROVE  IndexOf(job[p].plan) = {} /\ NextPlace \in Places
<1>1. p \in Waiting
  BY DEF Waiting
<1>2. NextPlace \in Places /\ Len(pointer.listed) + 1 \in Ids
  BY <1>1, Room
<1>3. \A i \in DOMAIN pointer.listed : planOf[pointer.listed[i]] # planOf[dirs[NextPlace].id]
  BY <1>2 DEF RootInv, PointerOK, IterationsOK, Matches, Named, NextPlace
<1> QED BY <1>2, <1>3 DEF IndexOf, Matches

LEMMA VersionedOwn ==
    ASSUME RootAssumption, RootInv, NEW p \in Procs,
           BindIndexed(p) \/ NextIteration(p) \/ AdoptIteration(p) \/ RefuseVersioned(p)
    PROVE  CallOK(p)'
<1>1. pointer.kind = "versioned" /\ pointer.retired = 0 /\ UNCHANGED diskVars /\ pc[p] = "decide"
  BY DEF RootInv, CallOK, StageOK, BindIndexed, NextIteration, AdoptIteration, RefuseVersioned, Deciding
<1>2. /\ TypeOK /\ PointerOK /\ CallOK(p) /\ job[p].kind = "bind" /\ job[p].then # "idle"
      /\ job[p].plan \in Plans
  BY <1>1, StagedIs DEF Staged
<1>3. UNCHANGED <<pointer, dirs, leftover, planOf>>
  BY <1>1 DEF diskVars
<1>4. CASE BindIndexed(p)
  BY <1>1, <1>4, SealOwn DEF BindIndexed, IndexOf
<1>5. CASE NextIteration(p)
  <2>1. pc'[p] = "create" /\ UNCHANGED <<lockVars, job, run, found>>
    BY <1>2, <1>5 DEF NextIteration, Goto, TypeOK, CallTypes, seenVars
  <2>2. FreeNext' /\ (IndexOf(job[p].plan) = {})'
    BY <1>3, <1>5, <2>1 DEF NextIteration, FreeNext, NextPlace, IndexOf
  <2>3. StageOK(p)'
    BY <1>1, <1>3, <1>5, <2>1, <2>2 DEF StageOK, ReadyToCreate, NextIteration
  <2> QED BY <1>1, <1>2, <1>3, <2>1, <2>3, StageOwn DEF Staged
<1>6. CASE AdoptIteration(p)
  <2> DEFINE id == dirs[NextPlace].id
  <2>1. /\ pc'[p] = "publish" /\ job'[p].next = Appended(id) /\ job'[p].leaf = id
        /\ job'[p].kind = job[p].kind /\ job'[p].plan = job[p].plan
        /\ job'[p].versioned = job[p].versioned /\ job'[p].then = job[p].then
        /\ UNCHANGED <<lockVars, run, found>>
    BY <1>2, <1>6, PublishIs DEF AdoptIteration
  <2>2. IndexOf(job[p].plan) = {} /\ NextPlace \in Places
    BY <1>1, <1>6, OrphanIsNew DEF AdoptIteration
  <2>3. Matches(NextPlace, job[p].plan) /\ job[p].versioned
    BY <1>6 DEF AdoptIteration
  <2>4. AppendNext(p)'
    BY <1>1, <1>3, <2>1, <2>2, <2>3 DEF AppendNext, Appended, NextPlace, IndexOf, Matches, Named
  <2>5. StageOK(p)'
    BY <1>1, <1>3, <2>1, <2>4 DEF StageOK, NextOK
  <2> QED BY <1>1, <1>2, <1>3, <2>1, <2>5, StageOwn DEF Staged
<1>7. CASE RefuseVersioned(p)
  BY <1>2, <1>7, FailsOK DEF RefuseVersioned, Refuse
<1> QED BY <1>4, <1>5, <1>6, <1>7

(* What Create leaves below the root: one whole leaf more. *)
Created(p, id, place, next) ==
    /\ id = fresh + 1 /\ dirs[place] = NoDir
    /\ place = IF pointer.kind = "replaceable" \/ (pointer.kind = "none" /\ ~job[p].versioned)
               THEN <<"leaves", id>> ELSE NextPlace
    /\ next = CASE pointer.kind = "none" -> FirstPointer(id, job[p].versioned)
                [] pointer.kind = "replaceable" -> ReplacedBy(id)
                [] pointer.kind = "versioned" -> Appended(id)
    /\ dirs'[place] # NoDir /\ dirs'[place].id = id /\ dirs'[place].named /\ ~dirs'[place].evidence
    /\ \A other \in Places \ {place} : dirs'[other] = dirs[other]
    /\ planOf'[id] = job[p].plan /\ \A other \in Ids : other <= fresh => planOf'[other] = planOf[other]
    /\ fresh' = id /\ fresh \in Nat /\ UNCHANGED <<pointer, leftover>>
    /\ Publish(p, next, id)

LEMMA CreateIs ==
    ASSUME RootAssumption, RootInv, NEW p \in Procs, Create(p)
    PROVE  \E id \in Ids, place \in Places : \E next : Created(p, id, place, next)
<1> DEFINE id == fresh + 1
           inLeaves == pointer.kind = "replaceable" \/ (pointer.kind = "none" /\ ~job[p].versioned)
           place == IF inLeaves THEN <<"leaves", id>> ELSE NextPlace
           next == CASE pointer.kind = "none" -> FirstPointer(id, job[p].versioned)
                     [] pointer.kind = "replaceable" -> ReplacedBy(id)
                     [] pointer.kind = "versioned" -> Appended(id)
<1>1. p \in Waiting
  BY DEF Create, Waiting
<1>2. id \in Ids /\ NextPlace \in Places
  BY <1>1, Room
<1>3. place \in Places
  BY <1>2, PlaceType
<1>4. TypeOK /\ DirsOK /\ fresh \in Nat
  BY DEF RootInv, TypeOK, DiskTypes
<1>5. dirs[place] = NoDir
  <2>1. ReadyToCreate(p)
    BY DEF Create, RootInv, CallOK, StageOK
  <2>2. CASE inLeaves
    <3>1. dirs[<<"leaves", id>>] # NoDir => dirs[<<"leaves", id>>].id <= fresh /\ dirs[<<"leaves", id>>].id = id
      BY <1>3, <2>2 DEF RootInv, DirsOK
    <3> QED BY <1>4, <2>2, <3>1
  <2>3. CASE ~inLeaves
    <3>1. place = NextPlace
      BY <2>3
    <3>2. pointer.kind \in {"none", "versioned"}
      BY <1>4, <2>3 DEF TypeOK, DiskTypes, Pointers
    <3> QED BY <1>3, <2>1, <3>1, <3>2 DEF ReadyToCreate, NothingThere, FreeNext
  <2> QED BY <2>2, <2>3
<1>6. /\ dirs' = [dirs EXCEPT ![place] = [id |-> id, named |-> TRUE, evidence |-> FALSE]]
      /\ planOf' = [planOf EXCEPT ![id] = job[p].plan] /\ fresh' = id /\ UNCHANGED <<pointer, leftover>>
      /\ Publish(p, next, id)
  BY DEF Create
<1>11. /\ id = fresh + 1
       /\ place = IF pointer.kind = "replaceable" \/ (pointer.kind = "none" /\ ~job[p].versioned)
                  THEN <<"leaves", id>> ELSE NextPlace
       /\ next = CASE pointer.kind = "none" -> FirstPointer(id, job[p].versioned)
                   [] pointer.kind = "replaceable" -> ReplacedBy(id)
                   [] pointer.kind = "versioned" -> Appended(id)
  OBVIOUS
<1> HIDE DEF place, id, inLeaves, next
<1>7. dirs'[place] = [id |-> id, named |-> TRUE, evidence |-> FALSE]
  BY <1>3, <1>4, <1>6 DEF TypeOK, DiskTypes
<1>8. dirs'[place] # NoDir
  <2>1. [id |-> id, named |-> TRUE, evidence |-> FALSE] \in [id : Ids, named : BOOLEAN, evidence : BOOLEAN]
    BY <1>2
  <2> QED BY <1>7, <2>1 DEF RootAssumption
<1>9. planOf'[id] = job[p].plan /\ \A other \in Ids : other <= fresh => planOf'[other] = planOf[other]
  BY <1>2, <1>4, <1>6 DEF id, TypeOK, DiskTypes, Ids
<1>10. \A other \in Places \ {place} : dirs'[other] = dirs[other]
  BY <1>4, <1>6 DEF TypeOK, DiskTypes
<1>12. Created(p, id, place, next)
  BY <1>4, <1>5, <1>6, <1>7, <1>8, <1>9, <1>10, <1>11 DEF Created
<1> QED BY <1>2, <1>3, <1>12

LEMMA CreateOwn ==
    ASSUME RootAssumption, RootInv, NEW p \in Procs, Create(p)
    PROVE  CallOK(p)'
<1>1. pc[p] = "create" /\ ReadyToCreate(p) /\ pointer.retired = 0
  BY DEF Create, RootInv, CallOK, StageOK
<1>2. /\ TypeOK /\ PointerOK /\ CallOK(p) /\ job[p].kind = "bind" /\ job[p].then # "idle"
      /\ job[p].plan \in Plans
      /\ pointer.kind # "none" => Active \in Ids /\ 1 \in DOMAIN pointer.listed
  BY <1>1, StagedIs DEF Staged
<1>a. PICK id \in Ids, place \in Places : \E next : Created(p, id, place, next)
  BY CreateIs
<1>3. PICK next : Created(p, id, place, next)
  BY <1>a
<1>4. /\ pc'[p] = "publish" /\ job'[p].next = next /\ job'[p].leaf = id
      /\ job'[p].kind = job[p].kind /\ job'[p].plan = job[p].plan
      /\ job'[p].versioned = job[p].versioned /\ job'[p].then = job[p].then
      /\ UNCHANGED <<lockVars, run, found>>
  <2>1. Publish(p, next, id) /\ UNCHANGED <<lockVars, run, seenVars>>
    BY <1>3 DEF Create, Created
  <2> QED BY <1>2, <2>1, PublishIs
<1>5. /\ \A other \in Places \ {place} : dirs'[other] = dirs[other]
      /\ dirs'[place] # NoDir /\ dirs'[place].id = id /\ ~dirs'[place].evidence
      /\ UNCHANGED <<pointer, leftover>> /\ id = fresh + 1 /\ fresh \in Nat
  BY <1>3 DEF Created
<1>6. Matches(place, job[p].plan)'
  BY <1>3, <1>4 DEF Created, Matches, Named
<1>7. NextOK(p)'
  <2>1. CASE pointer.kind = "none"
    <3>1. NothingThere
      BY <1>1, <2>1 DEF ReadyToCreate
    <3>2. {other \in Places : dirs'[other] # NoDir} = {place}
      BY <1>5, <3>1 DEF NothingThere
    <3>3. IF job[p].versioned THEN place = <<"iteration", 1>> ELSE place = <<"leaves", id>>
      BY <1>2, <1>3, <2>1 DEF Created, PointerOK, KindOK, NextPlace
    <3>4. Recoverable(place, job[p].plan, job[p].versioned)'
      BY <1>4, <1>6, <3>2, <3>3 DEF Recoverable
    <3>5. next = FirstPointer(id, job[p].versioned)
      BY <1>3, <2>1 DEF Created
    <3>6. FirstNext(p)'
      BY <1>4, <1>5, <2>1, <3>4, <3>5 DEF FirstNext
    <3> QED BY <3>6 DEF NextOK
  <2>2. CASE pointer.kind = "replaceable"
    <3>1. ~job[p].versioned /\ Unbound = {} /\ job[p].plan # planOf[Active]
      BY <1>1, <2>2 DEF ReadyToCreate
    <3>2. place = <<"leaves", id>> /\ next = ReplacedBy(id)
      BY <1>3, <2>2 DEF Created
    <3>3. Active' = Active /\ Active <= fresh /\ Active # id
      BY <1>2, <1>5, <2>2 DEF Active, PointerOK, ListedOK, Ids
    <3>4. planOf'[Active] = planOf[Active]
      BY <1>2, <1>3, <2>2, <3>3 DEF Created
    <3>5. \A other \in Ids \ {id} : dirs'[<<"leaves", other>>] = dirs[<<"leaves", other>>]
      BY <1>5, <3>2, PlaceType
    <3>6. Unbound' = {id}
      BY <1>5, <3>1, <3>2, <3>3, <3>5 DEF Unbound
    <3>7. ReplacedBy(id)' = ReplacedBy(id)
      BY <3>3 DEF ReplacedBy
    <3>8. ReplaceNext(p)'
      BY <1>4, <1>5, <1>6, <2>2, <3>1, <3>2, <3>3, <3>4, <3>6 DEF ReplaceNext, ReplacedBy
    <3> QED BY <3>8 DEF NextOK
  <2>3. CASE pointer.kind = "versioned"
    <3>1. job[p].versioned /\ IndexOf(job[p].plan) = {}
      BY <1>1, <2>3 DEF ReadyToCreate
    <3>2. place = NextPlace /\ next = Appended(id) /\ NextPlace' = NextPlace
      BY <1>3, <1>5, <2>3 DEF Created, NextPlace
    <3>3. \A i \in DOMAIN pointer.listed : planOf'[pointer.listed[i]] = planOf[pointer.listed[i]]
      BY <1>2, <1>3, ListedType DEF Created, PointerOK, ListedOK, TypeOK
    <3>4. (IndexOf(job[p].plan) = {})'
      BY <1>4, <1>5, <3>1, <3>3 DEF IndexOf
    <3>5. AppendNext(p)'
      BY <1>4, <1>5, <1>6, <2>3, <3>1, <3>2, <3>4 DEF AppendNext, Appended
    <3> QED BY <3>5 DEF NextOK
  <2> QED BY <1>2, <2>1, <2>2, <2>3 DEF TypeOK, DiskTypes, Pointers
<1>8. StageOK(p)'
  <2>1. pointer.kind = "none" => ~leftover
    BY <1>1 DEF ReadyToCreate
  <2> QED BY <1>1, <1>4, <1>5, <1>7, <2>1 DEF StageOK
<1> QED BY <1>1, <1>2, <1>4, <1>5, <1>8, StageOwn DEF Staged

LEMMA CopyOwn ==
    ASSUME RootAssumption, RootInv, NEW p \in Procs, Copy(p) \/ WriteTemporary(p)
    PROVE  CallOK(p)'
<1>1. pc[p] \in {"copy", "publish"} /\ pointer.retired = 0 /\ StageOK(p)
  BY DEF Copy, WriteTemporary, RootInv, CallOK, StageOK
<1>2. TypeOK /\ PointerOK /\ CallOK(p) /\ job[p].kind = "bind" /\ job[p].then # "idle" /\ job[p].plan \in Plans
  BY <1>1, StagedIs DEF Staged
<1>3. CASE Copy(p)
  <2>1. UNCHANGED <<pointer, planOf, lockVars, pc, job, run, found>>
    BY <1>3 DEF Copy, seenVars
  <2>2. \A id \in Ids : dirs'[<<"leaves", id>>] = dirs[<<"leaves", id>>]
    BY <1>2, <1>3, PlaceType DEF Copy, Iteration1, TypeOK, DiskTypes
  <2>3. pc[p] = "copy" /\ Unbound = {}
    BY <1>1, <1>3 DEF Copy, StageOK
  <2>4. Unbound' = {}
    BY <2>1, <2>2, <2>3 DEF Unbound, Active
  <2>5. StageOK(p)'
    BY <1>1, <2>1, <2>3, <2>4 DEF StageOK
  <2> QED BY <1>1, <1>2, <2>1, <2>3, <2>5, StageOwn DEF Staged
<1>4. CASE WriteTemporary(p)
  <2>1. pc'[p] = "swap" /\ UNCHANGED <<pointer, dirs, planOf, lockVars, job, run, found>>
    BY <1>2, <1>4 DEF WriteTemporary, Goto, TypeOK, CallTypes, seenVars
  <2>2. NextOK(p)
    BY <1>1, <1>4 DEF WriteTemporary, StageOK
  <2>3. NextOK(p)'
    <3>1. FirstNext(p) => FirstNext(p)'
      BY <2>1 DEF FirstNext, Recoverable, Matches, Named
    <3>2. ReplaceNext(p) => ReplaceNext(p)'
      BY <2>1 DEF ReplaceNext, ReplacedBy, Unbound, Active, Matches, Named
    <3>3. UpgradeNext(p) => UpgradeNext(p)'
      BY <2>1 DEF UpgradeNext, Upgraded, Unbound, Active, Verified, Named, Iteration1
    <3>4. AppendNext(p) => AppendNext(p)'
      BY <2>1 DEF AppendNext, Appended, NextPlace, IndexOf, Matches, Named
    <3> QED BY <2>2, <3>1, <3>2, <3>3, <3>4 DEF NextOK
  <2>4. StageOK(p)'
    BY <1>1, <2>1, <2>3 DEF StageOK
  <2> QED BY <1>1, <1>2, <1>4, <2>1, <2>4, StageOwn DEF Staged, WriteTemporary
<1> QED BY <1>3, <1>4

-----------------------------------------------------------------------------
(* The pointer that is published *)

LEMMA SwapIs ==
    ASSUME RootAssumption, RootInv, NEW p \in Procs, Swap(p)
    PROVE  /\ TypeOK /\ PointerOK /\ CallOK(p) /\ NextOK(p) /\ pointer.retired = 0
           /\ pointer' = job[p].next /\ pc'[p] = "confirm" /\ pc[p] = "swap"
           /\ UNCHANGED <<dirs, planOf, fresh, lockVars, job, run, seenVars>>
BY DEF Swap, Goto, RootInv, CallOK, StageOK, TypeOK, CallTypes

(* The leaf of a new root, alone below it. *)
LEMMA FirstIs ==
    ASSUME RootAssumption, RootInv, NEW p \in Procs, FirstNext(p)
    PROVE  /\ job[p].leaf \in Ids /\ planOf[job[p].leaf] = job[p].plan /\ job[p].leaf <= fresh
           /\ IF job[p].versioned
              THEN /\ Verified(<<"iteration", 1>>, job[p].leaf)
                   /\ \A place \in Places : place # <<"iteration", 1>> => dirs[place] = NoDir
              ELSE /\ Verified(<<"leaves", job[p].leaf>>, job[p].leaf)
                   /\ \A place \in Places : place # <<"leaves", job[p].leaf>> => dirs[place] = NoDir
<1>1. PICK place \in Places :
          Recoverable(place, job[p].plan, job[p].versioned) /\ dirs[place].id = job[p].leaf
  BY DEF FirstNext
<1>2. /\ dirs[place] # NoDir /\ dirs[place].named /\ planOf[job[p].leaf] = job[p].plan
      /\ \A other \in Places : other # place => dirs[other] = NoDir
      /\ IF job[p].versioned THEN place = <<"iteration", 1>> ELSE place[1] = "leaves"
  BY <1>1 DEF Recoverable, Matches, Named
<1>3. job[p].leaf \in Ids
  BY <1>1, <1>2, LeafType DEF RootInv, TypeOK, Leaf
<1>4. job[p].leaf <= fresh /\ (place[1] = "leaves" => place[2] = job[p].leaf)
  BY <1>1, <1>2 DEF RootInv, DirsOK
<1>5. place = <<place[1], place[2]>>
  BY DEF Places
<1> QED BY <1>1, <1>2, <1>3, <1>4, <1>5 DEF Verified, Named

LEMMA SwapOwn ==
    ASSUME RootAssumption, RootInv, NEW p \in Procs, Swap(p)
    PROVE  CallOK(p)'
<1>1. /\ TypeOK /\ PointerOK /\ CallOK(p) /\ NextOK(p) /\ pointer.retired = 0
      /\ pointer' = job[p].next /\ pc'[p] = "confirm" /\ pc[p] = "swap"
      /\ UNCHANGED <<dirs, planOf, fresh, lockVars, job, run, found>>
  BY SwapIs DEF seenVars
<1>2. job[p].kind = "bind" /\ job[p].then # "idle"
  BY <1>1, StagedIs DEF Staged
<1>3. job[p].leaf \in Ids /\ pointer' \in Pointers
  BY <1>1, NextType DEF PointerOK
<1>4. pointer'.kind # "none" /\ ConfirmOK(p)' /\ RetiredWhole'
  <2>1. CASE FirstNext(p)
    <3>1. /\ pointer'.listed = <<job[p].leaf>> /\ pointer'.retired = 0
          /\ pointer'.kind = IF job[p].versioned THEN "versioned" ELSE "replaceable"
      BY <1>1, <2>1 DEF FirstNext, FirstPointer, Pointer
    <3>2. Active' = job[p].leaf /\ Len(pointer'.listed) = 1 /\ Contains(pointer'.listed, job[p].leaf)
      BY <3>1 DEF Active, Contains
    <3>3. pointer'.kind = "replaceable" => Unbound' = {}
      BY <1>1, <2>1, <3>1, <3>2, FirstIs, PlaceType DEF Unbound
    <3>4. pointer'.kind = "versioned" => FreeNext'
      <4>1. pointer'.kind = "versioned" => job[p].versioned
        BY <3>1
      <4>2. job[p].versioned => \A place \in Places : place # <<"iteration", 1>> => dirs[place] = NoDir
        BY <2>1, FirstIs
      <4>3. <<"iteration", 1>> # <<"iteration", 2>>
        OBVIOUS
      <4> QED BY <1>1, <3>2, <4>1, <4>2, <4>3 DEF FreeNext, NextPlace
    <3> QED BY <1>1, <2>1, <3>1, <3>2, <3>3, <3>4, FirstIs DEF ConfirmOK, RetiredWhole
  <2>2. CASE ReplaceNext(p)
    <3>1. pointer'.listed = <<job[p].leaf>> /\ pointer'.retired = Active /\ pointer'.kind = "replaceable"
      BY <1>1, <2>2 DEF ReplaceNext, ReplacedBy, Pointer
    <3>2. Active' = job[p].leaf /\ Contains(pointer'.listed, job[p].leaf)
      BY <3>1 DEF Active, Contains
    <3>3. Unbound' \subseteq {Active}
      BY <1>1, <2>2, <3>2 DEF ReplaceNext, Unbound
    <3>4. planOf[job[p].leaf] = job[p].plan
      <4>1. <<"leaves", job[p].leaf>> \in Places /\ dirs[<<"leaves", job[p].leaf>>] # NoDir
        BY <1>3, <2>2, PlaceType DEF ReplaceNext, Matches, Named
      <4>2. dirs[<<"leaves", job[p].leaf>>].id = job[p].leaf
        BY <4>1 DEF RootInv, DirsOK
      <4> QED BY <2>2, <4>2 DEF ReplaceNext, Matches
    <3>5. Verified(<<"leaves", Active>>, Active)
      BY <1>1, <2>2, ActiveIs DEF ReplaceNext, PointerOK, ActiveVerified, PlaceIn, Active, TypeOK
    <3>6. RetiredWhole'
      BY <1>1, <3>1, <3>5 DEF RetiredWhole, RetiredPlace, Verified, Named
    <3> QED BY <1>1, <2>2, <3>1, <3>2, <3>3, <3>4, <3>6 DEF ConfirmOK, ReplaceNext
  <2>3. CASE UpgradeNext(p)
    <3>1. pointer'.listed = <<Active>> /\ pointer'.retired = Active /\ pointer'.kind = "versioned"
      BY <1>1, <2>3 DEF UpgradeNext, Upgraded, Pointer
    <3>2. Contains(pointer'.listed, job[p].leaf) /\ Len(pointer'.listed) = 1
      BY <2>3, <3>1 DEF Contains, UpgradeNext
    <3>3. FreeNext'
      <4>1. \A n \in Ids : n > 1 => dirs[<<"iteration", n>>] = NoDir
        BY <1>1, <2>3 DEF UpgradeNext, PointerOK, IterationsOK
      <4> QED BY <1>1, <3>2, <4>1 DEF FreeNext, NextPlace, Places, Ids
    <3>4. Verified(<<"leaves", Active>>, Active)
      BY <1>1, <2>3, ActiveIs DEF UpgradeNext, PointerOK, ActiveVerified, PlaceIn, Active, TypeOK
    <3>5. RetiredWhole'
      BY <1>1, <3>1, <3>4 DEF RetiredWhole, RetiredPlace, Verified, Named
    <3> QED BY <1>1, <2>3, <3>1, <3>2, <3>3, <3>5 DEF ConfirmOK, UpgradeNext
  <2>4. CASE AppendNext(p)
    <3>1. /\ pointer'.listed = Append(pointer.listed, job[p].leaf) /\ pointer'.retired = 0
          /\ pointer'.kind = "versioned"
      BY <1>1, <2>4 DEF AppendNext, Appended, Pointer
    <3>2. pointer.listed \in Seq(Ids)
      BY <1>1 DEF TypeOK, DiskTypes, Pointers
    <3>3. /\ Len(pointer'.listed) = Len(pointer.listed) + 1 /\ Len(pointer.listed) \in Nat
          /\ pointer'.listed[Len(pointer.listed) + 1] = job[p].leaf
      BY <1>3, <3>1, <3>2
    <3>4. Contains(pointer'.listed, job[p].leaf)
      BY <3>3 DEF Contains
    <3>5. FreeNext'
      <4>1. \A n \in Ids : n > 1 /\ n > Len(pointer.listed) + 1 => dirs[<<"iteration", n>>] = NoDir
        BY <1>1 DEF PointerOK, IterationsOK
      <4> QED BY <1>1, <3>3, <4>1 DEF FreeNext, NextPlace, Places, Ids
    <3> QED BY <1>1, <2>4, <3>1, <3>4, <3>5 DEF ConfirmOK, AppendNext, RetiredWhole
  <2> QED BY <1>1, <2>1, <2>2, <2>3, <2>4 DEF NextOK
<1>5. StageOK(p)'
  BY <1>1, <1>4 DEF StageOK
<1> QED BY <1>1, <1>2, <1>5, StageOwn DEF Staged

-----------------------------------------------------------------------------
(* Confirmation, maintenance, use and failure *)

LEMMA ConfirmOwn ==
    ASSUME RootAssumption, RootInv, NEW p \in Procs, Confirm(p) \/ ConfirmFails(p)
    PROVE  CallOK(p)'
<1>1. CASE Confirm(p)
  BY <1>1, SealOwn DEF Confirm
<1>2. CASE ConfirmFails(p)
  BY <1>2, EndsOK DEF ConfirmFails, RootInv
<1> QED BY <1>1, <1>2

(* A maintenance step changes neither what is listed nor where. *)
LEMMA ToMaintainOwn ==
    ASSUME RootAssumption, RootInv, NEW p \in Procs, pc[p] \in Maintaining, pc'[p] \in Maintaining,
           UNCHANGED <<pointer, lockVars, job, run, seenVars>>, MaintainOK(p)'
    PROVE  CallOK(p)'
<1>1. CallOK(p) /\ UNCHANGED found
  BY DEF RootInv, seenVars
<1>2. pc[p] \notin {"idle", "lock", "look", "use"} \cup Staged /\ pc'[p] \notin {"idle", "lock", "look", "use"} \cup Staged
  BY DEF Maintaining, Staged
<1>3. JobOK(p)' /\ ThenOK(p)'
  BY <1>1, <1>2 DEF CallOK, JobOK, ThenOK
<1>4. HoldOK(p)' /\ FoundOK(p)'
  BY <1>1, <1>2 DEF CallOK, HoldOK, FoundOK, Settled, lockVars, Staged
<1>5. RunOK(p)' /\ StageOK(p)'
  BY <1>1, <1>2 DEF CallOK, RunOK, Bound, PlaceIn, StageOK, Staged
<1> QED BY <1>3, <1>4, <1>5 DEF CallOK

LEMMA MaintenanceOwn ==
    ASSUME RootAssumption, RootInv, NEW p \in Procs, Maintenance(p)
    PROVE  CallOK(p)'
<1>1. pc[p] \in Maintaining /\ TypeOK /\ CallOK(p) /\ MaintainOK(p) /\ pointer.retired # 0
  BY DEF Maintenance, FindRetired, Unlink, RemoveRetired, ClearRetired, Maintaining, RootInv, CallOK, MaintainOK
<1>2. RetiredPlace \in Places
  BY <1>1, RetiredIs
<1>3. CASE FindRetired(p)
  <2>1. CASE Refuse(p)
    BY <1>1, <2>1, FailsOK DEF Refuse
  <2>2. CASE ~Refuse(p)
    <3>1. /\ UNCHANGED <<pointer, dirs, lockVars, job, run, seenVars>>
          /\ \/ pc'[p] = "tidy" /\ dirs[RetiredPlace] = NoDir
             \/ pc'[p] = "unlink" /\ dirs[RetiredPlace] # NoDir
      BY <1>1, <1>3, <2>2 DEF FindRetired, Goto, TypeOK, CallTypes, diskVars, Verified, Named
    <3>2. MaintainOK(p)'
      BY <1>1, <3>1 DEF MaintainOK, RetiredPlace
    <3> QED BY <1>1, <3>1, <3>2, ToMaintainOwn DEF Maintaining
  <2> QED BY <2>1, <2>2
<1>4. CASE Unlink(p)
  <2>1. UNCHANGED <<pointer, pc, lockVars, job, run, seenVars>> /\ pc[p] = "unlink"
    BY <1>4 DEF Unlink
  <2>2. dirs[RetiredPlace] \in Leaf
    BY <1>1, <1>2, <2>1, LeafType DEF MaintainOK, TypeOK
  <2>3. dirs'[RetiredPlace] \in Leaf
    <3>1. CASE dirs' = [dirs EXCEPT ![RetiredPlace].named = FALSE]
      BY <1>1, <1>2, <2>2, <3>1 DEF TypeOK, DiskTypes, Leaf
    <3>2. CASE dirs' = [dirs EXCEPT ![RetiredPlace].evidence = FALSE]
      BY <1>1, <1>2, <2>2, <3>2 DEF TypeOK, DiskTypes, Leaf
    <3> QED BY <1>4, <3>1, <3>2 DEF Unlink
  <2>4. MaintainOK(p)'
    BY <1>1, <2>1, <2>3 DEF MaintainOK, RetiredPlace, RootAssumption, Leaf
  <2> QED BY <1>1, <2>1, <2>4, ToMaintainOwn
<1>5. CASE RemoveRetired(p)
  <2>1. UNCHANGED <<pointer, lockVars, job, run, seenVars>> /\ pc'[p] = "tidy" /\ dirs'[RetiredPlace] = NoDir
    BY <1>1, <1>2, <1>5 DEF RemoveRetired, Goto, TypeOK, DiskTypes, CallTypes
  <2>2. MaintainOK(p)'
    BY <1>1, <2>1 DEF MaintainOK, RetiredPlace
  <2> QED BY <1>1, <2>1, <2>2, ToMaintainOwn DEF Maintaining
<1>6. CASE ClearRetired(p)
  <2>1. CASE job[p].then = "idle"
    BY <1>1, <1>6, <2>1, EndsOK DEF ClearRetired
  <2>2. CASE job[p].then # "idle"
    <3>1. pc[p] = "tidy" /\ pc'[p] = job[p].then /\ UNCHANGED <<lockVars, job, run, found>>
      BY <1>1, <1>6, <2>2 DEF ClearRetired, Goto, seenVars, TypeOK, CallTypes
    <3>2. \/ pc'[p] = "use" /\ job[p].kind = "write"
          \/ pc'[p] = "decide" /\ job[p].kind = "bind"
      BY <1>1, <2>2, <3>1 DEF CallOK, ThenOK
    <3>3. pointer'.listed = pointer.listed /\ pointer'.kind = pointer.kind /\ pointer'.retired = 0
      BY <1>1, <1>6 DEF ClearRetired, TypeOK, DiskTypes, Pointers
    <3>4. pointer.kind # "none"
      BY <1>1, RetiredIs
    <3>5. JobOK(p)' /\ ThenOK(p)'
      BY <1>1, <3>1, <3>2 DEF CallOK, JobOK, ThenOK, Maintaining, Staged
    <3>6. HoldOK(p)' /\ FoundOK(p)'
      BY <1>1, <2>2, <3>1, <3>2, <3>3 DEF lockVars, CallOK, HoldOK, FoundOK, Settled, Maintaining
    <3>7. Bound(p) => Bound(p)'
      BY <3>1, <3>3 DEF Bound, PlaceIn
    <3>8. RunOK(p)'
      BY <1>1, <3>1, <3>2, <3>7 DEF CallOK, RunOK, Maintaining
    <3>9. MaintainOK(p)' /\ StageOK(p)'
      BY <3>1, <3>2, <3>3, <3>4 DEF MaintainOK, StageOK, Maintaining
    <3> QED BY <3>5, <3>6, <3>8, <3>9 DEF CallOK
  <2> QED BY <2>1, <2>2
<1> QED BY <1>3, <1>4, <1>5, <1>6 DEF Maintenance

LEMMA UseOwn ==
    ASSUME RootAssumption, RootInv, NEW p \in Procs, WriteEvidence(p) \/ EndUse(p)
    PROVE  CallOK(p)'
<1>1. TypeOK /\ CallOK(p)
  BY DEF RootInv
<1>2. CASE WriteEvidence(p)
  <2>1. pc[p] = "use" /\ UNCHANGED <<pointer, pc, lockVars, job, run, found>>
    BY <1>2 DEF WriteEvidence
  <2>2. JobOK(p)' /\ ThenOK(p)' /\ HoldOK(p)' /\ FoundOK(p)'
    BY <1>1, <2>1 DEF lockVars, CallOK, JobOK, ThenOK, HoldOK, FoundOK, Settled
  <2>3. RunOK(p)' /\ MaintainOK(p)' /\ StageOK(p)'
    BY <1>1, <2>1 DEF CallOK, RunOK, Bound, PlaceIn, MaintainOK, StageOK, Maintaining
  <2> QED BY <2>2, <2>3 DEF CallOK
<1>3. CASE EndUse(p)
  BY <1>1, <1>3, EndsOK DEF EndUse
<1> QED BY <1>2, <1>3

LEMMA FailureOwn ==
    ASSUME RootAssumption, RootInv, NEW p \in Procs, Raise(p) \/ Die(p)
    PROVE  CallOK(p)'
<1>1. CASE Raise(p)
  BY <1>1, FailsOK DEF Raise, RootInv
<1>2. CASE Die(p)
  <2>1. pc'[p] = "idle" /\ job'[p] = NoJob
    BY <1>2 DEF Die, Goto, RootInv, TypeOK, CallTypes
  <2> QED BY <2>1, EndOK DEF RootInv
<1> QED BY <1>1, <1>2

LEMMA StepCalls ==
    ASSUME RootAssumption, RootInv, NEW p \in Procs, Step(p)
    PROVE  \A q \in Procs : CallOK(q)'
<1>1. CallOK(p)'
  <2>1. CASE Bind(p)
    BY <2>1, RecoverRootOwn, OpenRootOwn, ReplaceableOwn, VersionedOwn, CreateOwn, CopyOwn, SwapOwn,
       ConfirmOwn DEF Bind
  <2>2. CASE Use(p)
    BY <2>2, EnterRunOwn, UseOwn DEF Use
  <2> QED BY <2>1, <2>2, CallOwn, LockOwn, MaintenanceOwn, FailureOwn DEF Step
<1> QED BY <1>1, OtherOK

-----------------------------------------------------------------------------
(* The pointer and the leaves *)

DiskInv == DirsOK /\ PlansOK /\ PointerOK

LEMMA SameDisk ==
    ASSUME DiskInv, UNCHANGED <<pointer, dirs, planOf, fresh>>
    PROVE  DiskInv'
BY DEF DiskInv, DirsOK, PlansOK, PointerOK, KindOK, ListedOK, LeavesOK, IterationsOK, ActiveVerified, Active,
       Verified, Named, PlaceIn

(* Directories only go, or change inside, and what is listed stays named. *)
LEMMA KeptDirs ==
    ASSUME RootAssumption, RootInv, UNCHANGED <<pointer, planOf, fresh>>,
           \A place \in Places : dirs'[place] # NoDir => dirs[place] # NoDir /\ dirs'[place].id = dirs[place].id,
           \A i \in DOMAIN pointer.listed : dirs'[PlaceIn(pointer, i)] # NoDir /\ dirs'[PlaceIn(pointer, i)].named
    PROVE  DiskInv'
<1>1. TypeOK /\ DirsOK /\ PlansOK /\ PointerOK
  BY DEF RootInv
<1>2. DirsOK' /\ PlansOK' /\ KindOK' /\ ListedOK'
  BY <1>1 DEF DirsOK, PlansOK, PointerOK, KindOK, ListedOK
<1>3. LeavesOK'
  BY <1>1, PlaceType DEF PointerOK, LeavesOK, Active
<1>4. IterationsOK'
  <2>1. \A n \in Ids : dirs'[<<"iteration", n>>] # NoDir =>
            dirs[<<"iteration", n>>] # NoDir /\ dirs'[<<"iteration", n>>].id = dirs[<<"iteration", n>>].id
    BY PlaceType
  <2> QED BY <1>1, <2>1 DEF PointerOK, IterationsOK
<1>5. ActiveVerified'
  <2>1. \A i \in DOMAIN pointer.listed : PlaceIn(pointer, i) \in Places
    BY <1>1, PlaceInType DEF TypeOK, PointerOK
  <2> QED BY <1>1, <2>1 DEF PointerOK, ActiveVerified, Verified, Named, PlaceIn
<1> QED BY <1>2, <1>3, <1>4, <1>5 DEF DiskInv, PointerOK

LEMMA CreateDisk ==
    ASSUME RootAssumption, RootInv, NEW p \in Procs, Create(p)
    PROVE  DiskInv'
<1>a. PICK id \in Ids, place \in Places : \E next : Created(p, id, place, next)
  BY CreateIs
<1>1. PICK next : Created(p, id, place, next)
  BY <1>a
<1>2. TypeOK /\ DirsOK /\ PlansOK /\ PointerOK /\ job[p].plan \in Plans
  BY StagedIs DEF Create, Staged, RootInv
<1>3. /\ \A other \in Places \ {place} : dirs'[other] = dirs[other]
      /\ dirs'[place] # NoDir /\ dirs'[place].id = id /\ dirs[place] = NoDir
      /\ UNCHANGED pointer /\ fresh' = id /\ id = fresh + 1 /\ fresh \in Nat
      /\ planOf'[id] = job[p].plan /\ \A other \in Ids : other <= fresh => planOf'[other] = planOf[other]
      /\ place = IF pointer.kind = "replaceable" \/ (pointer.kind = "none" /\ ~job[p].versioned)
                 THEN <<"leaves", id>> ELSE NextPlace
  BY <1>1 DEF Created
<1>4. \A other \in Places : dirs[other] # NoDir => dirs[other].id \in Ids /\ dirs[other].id <= fresh
  BY <1>2, LeafType DEF TypeOK, DirsOK, Leaf
<1>5. \A i \in DOMAIN pointer.listed :
         /\ pointer.listed[i] \in Ids /\ pointer.listed[i] <= fresh
         /\ PlaceIn(pointer, i) \in Places /\ dirs[PlaceIn(pointer, i)] # NoDir
  BY <1>2, ListedType, PlaceInType DEF TypeOK, PointerOK, ListedOK, ActiveVerified, Verified, Named
<1>6. DirsOK'
  BY <1>3, <1>4, <1>2 DEF DirsOK, NextPlace, Ids
<1>7. PlansOK'
  BY <1>2, <1>3 DEF PlansOK, Ids
<1>8. KindOK' /\ ListedOK'
  BY <1>2, <1>3, <1>5 DEF PointerOK, KindOK, ListedOK, Ids
<1>9. ActiveVerified'
  <2>1. \A i \in DOMAIN pointer.listed : dirs'[PlaceIn(pointer, i)] = dirs[PlaceIn(pointer, i)]
    BY <1>3, <1>5
  <2>2. \A i \in DOMAIN pointer.listed :
           /\ dirs'[PlaceIn(pointer, i)] # NoDir /\ dirs'[PlaceIn(pointer, i)].named
           /\ dirs'[PlaceIn(pointer, i)].id = pointer.listed[i]
    BY <1>2, <2>1 DEF PointerOK, ActiveVerified, Verified, Named
  <2> QED BY <1>3, <2>2 DEF ActiveVerified, Verified, Named, PlaceIn
<1>10. LeavesOK'
  <2> SUFFICES ASSUME pointer.kind = "replaceable" PROVE LeavesOK'
    BY <1>3 DEF LeavesOK
  <2>1. Active' = Active /\ Active \in Ids /\ Active <= fresh
    BY <1>2, <1>3, <1>5, ActiveIs DEF TypeOK, PointerOK, Active
  <2>2. place = <<"leaves", id>>
    BY <1>3
  <2>3. \A other \in Ids \ {id} : dirs'[<<"leaves", other>>] = dirs[<<"leaves", other>>]
    BY ZenonT(30), <1>3, <2>2, PlaceType, PlacesDiffer
  <2>4. id >= Active
    BY <1>3, <2>1 DEF Ids
  <2> QED BY <1>2, <1>3, <2>1, <2>3, <2>4 DEF PointerOK, LeavesOK
<1>11. IterationsOK'
  <2>1. ReadyToCreate(p) /\ pointer.listed \in Seq(Ids)
    BY <1>2 DEF Create, RootInv, CallOK, StageOK, TypeOK, DiskTypes, Pointers
  <2>2. CASE place = <<"leaves", id>>
    <3>1. \A n \in Ids : dirs'[<<"iteration", n>>] = dirs[<<"iteration", n>>]
      BY ZenonT(30), <1>3, <2>2, PlaceType, PlacesDiffer
    <3>2. pointer.kind # "versioned"
      BY <1>3, <2>2 DEF NextPlace
    <3> QED BY <1>2, <1>3, <3>1, <3>2 DEF PointerOK, IterationsOK
  <2>3. CASE place = NextPlace
    <3>1. \A n \in Ids : n # Len(pointer.listed) + 1 => dirs'[<<"iteration", n>>] = dirs[<<"iteration", n>>]
      <4>1. \A n \in Ids : n # Len(pointer.listed) + 1 => <<"iteration", n>> # place
        BY <2>3, PlacesDiffer DEF NextPlace
      <4> QED BY <1>3, <4>1, PlaceType
    <3>2. Len(pointer.listed) \in Nat
      BY <2>1
    <3>3. CASE pointer.kind # "versioned"
      <4>1. pointer.kind = "none" /\ Len(pointer.listed) = 0
        BY <1>2, <1>3, <2>3, <3>3 DEF NextPlace, PointerOK, KindOK, TypeOK, DiskTypes, Pointers
      <4> QED BY <1>2, <1>3, <3>1, <3>3, <4>1 DEF PointerOK, IterationsOK, Ids
    <3>4. CASE pointer.kind = "versioned"
      <4>1. \A n \in Ids : n > 1 /\ n > Len(pointer.listed) + 1 => dirs'[<<"iteration", n>>] = NoDir
        BY <1>2, <3>1, <3>2 DEF PointerOK, IterationsOK, Ids
      <4>2. \A i \in DOMAIN pointer.listed : pointer.listed[i] < id /\ planOf'[pointer.listed[i]] # planOf'[id]
        <5>1. IndexOf(job[p].plan) = {}
          BY <2>1, <3>4 DEF ReadyToCreate
        <5> QED BY <1>3, <1>5, <5>1 DEF IndexOf, Ids
      <4> QED BY <1>3, <2>3, <3>4, <4>1, <4>2 DEF IterationsOK, NextPlace
    <3> QED BY <3>3, <3>4
  <2> QED BY <1>3, <2>2, <2>3
<1> QED BY <1>6, <1>7, <1>8, <1>9, <1>10, <1>11 DEF DiskInv, PointerOK

LEMMA CopyDisk ==
    ASSUME RootAssumption, RootInv, NEW p \in Procs, Copy(p)
    PROVE  DiskInv'
<1>1. /\ pc[p] = "copy" /\ pointer.kind = "replaceable" /\ TypeOK /\ PointerOK /\ DirsOK /\ PlansOK
      /\ UNCHANGED <<pointer, planOf, fresh>>
  BY DEF Copy, RootInv, CallOK, StageOK
<1>2. /\ Active \in Ids /\ Active <= fresh /\ Iteration1 \in Places
      /\ \A i \in DOMAIN pointer.listed : PlaceIn(pointer, i) \in Places /\ PlaceIn(pointer, i) # Iteration1
  BY <1>1, ActiveIs, PlaceType, PlaceInType DEF TypeOK, PointerOK, ListedOK, PlaceIn, Iteration1, Active, Ids
<1>3. \A place \in Places \ {Iteration1} : dirs'[place] = dirs[place]
  BY <1>1, <1>2 DEF Copy, TypeOK, DiskTypes
<1>4. \A i \in DOMAIN pointer.listed : dirs'[PlaceIn(pointer, i)] # NoDir /\ dirs'[PlaceIn(pointer, i)].named
  BY <1>1, <1>2, <1>3 DEF PointerOK, ActiveVerified, Verified, Named
<1>5. CASE dirs[Iteration1] # NoDir
  <2>1. dirs[Iteration1] \in Leaf /\ dirs'[Iteration1].id = dirs[Iteration1].id
    BY <1>1, <1>2, <1>5, LeafType DEF Copy, TypeOK, DiskTypes, Leaf
  <2>2. \A place \in Places : dirs'[place] # NoDir => dirs[place] # NoDir /\ dirs'[place].id = dirs[place].id
    BY <1>3, <1>5, <2>1
  <2> QED BY <1>1, <1>4, <2>2, KeptDirs
<1>6. CASE dirs[Iteration1] = NoDir
  <2>1. dirs'[Iteration1].id = Active
    BY <1>1, <1>2, <1>6 DEF Copy, TypeOK, DiskTypes
  <2>2. DirsOK' /\ PlansOK' /\ KindOK' /\ ListedOK'
    BY <1>1, <1>2, <1>3, <2>1 DEF DirsOK, PlansOK, PointerOK, KindOK, ListedOK, Iteration1
  <2>3. \A n \in Ids : dirs'[<<"leaves", n>>] = dirs[<<"leaves", n>>]
    BY <1>3, PlaceType, PlacesDiffer DEF Iteration1
  <2>4. \A n \in Ids : n > 1 => dirs'[<<"iteration", n>>] = dirs[<<"iteration", n>>]
    <3>1. \A n \in Ids : n > 1 => <<"iteration", n>> # Iteration1
      BY PlacesDiffer DEF Iteration1, Ids
    <3> QED BY <1>3, <3>1, PlaceType
  <2>5. LeavesOK' /\ IterationsOK'
    BY <1>1, <2>3, <2>4 DEF PointerOK, LeavesOK, IterationsOK, Active
  <2>6. ActiveVerified'
    BY <1>1, <1>2, <1>3 DEF PointerOK, ActiveVerified, Verified, Named, PlaceIn
  <2> QED BY <2>2, <2>5, <2>6 DEF DiskInv, PointerOK
<1> QED BY <1>5, <1>6

LEMMA UnlinkDisk ==
    ASSUME RootAssumption, RootInv, NEW p \in Procs, Unlink(p) \/ RemoveRetired(p)
    PROVE  DiskInv'
<1>1. /\ pc[p] \in Maintaining /\ pc[p] = "unlink" /\ TypeOK /\ PointerOK
      /\ dirs[RetiredPlace] # NoDir /\ UNCHANGED <<pointer, planOf, fresh>>
  BY DEF Unlink, RemoveRetired, Maintaining, RootInv, CallOK, MaintainOK
<1>2. RetiredPlace \in Places /\ \A i \in DOMAIN pointer.listed : PlaceIn(pointer, i) # RetiredPlace
  BY <1>1, RetiredIs
<1>3. \A place \in Places \ {RetiredPlace} : dirs'[place] = dirs[place]
  BY <1>1, <1>2 DEF Unlink, RemoveRetired, TypeOK, DiskTypes
<1>4. \A i \in DOMAIN pointer.listed : dirs'[PlaceIn(pointer, i)] # NoDir /\ dirs'[PlaceIn(pointer, i)].named
  BY <1>1, <1>2, <1>3, PlaceInType DEF TypeOK, PointerOK, ActiveVerified, Verified, Named
<1>5. dirs[RetiredPlace] \in Leaf
  BY <1>1, <1>2, LeafType DEF TypeOK
<1>6. dirs'[RetiredPlace] # NoDir => dirs'[RetiredPlace].id = dirs[RetiredPlace].id
  <2>1. CASE dirs' = [dirs EXCEPT ![RetiredPlace].named = FALSE]
    BY <1>1, <1>2, <1>5, <2>1 DEF TypeOK, DiskTypes, Leaf
  <2>2. CASE dirs' = [dirs EXCEPT ![RetiredPlace].evidence = FALSE]
    BY <1>1, <1>2, <1>5, <2>2 DEF TypeOK, DiskTypes, Leaf
  <2>3. CASE dirs' = [dirs EXCEPT ![RetiredPlace] = NoDir]
    BY <1>1, <1>2, <2>3 DEF TypeOK, DiskTypes
  <2> QED BY <2>1, <2>2, <2>3 DEF Unlink, RemoveRetired
<1>7. \A place \in Places : dirs'[place] # NoDir => dirs[place] # NoDir /\ dirs'[place].id = dirs[place].id
  BY <1>1, <1>3, <1>6
<1> QED BY <1>1, <1>4, <1>7, KeptDirs

LEMMA WriteDisk ==
    ASSUME RootAssumption, RootInv, NEW p \in Procs, WriteEvidence(p)
    PROVE  DiskInv'
<1>1. TypeOK /\ PointerOK /\ Bound(p) /\ run[p] \in Runs /\ UNCHANGED <<pointer, planOf, fresh>>
  BY OldTypes DEF WriteEvidence, RootInv, CallOK, RunOK, Bound
<1>2. dirs' = [dirs EXCEPT ![run[p].place].evidence = TRUE] /\ run[p].place \in Places
  BY <1>1 DEF WriteEvidence, Runs
<1>3. dirs[run[p].place] # NoDir
  BY <1>1 DEF Bound, PointerOK, ActiveVerified, Verified, Named
<1>4. dirs[run[p].place] \in Leaf
  BY <1>1, <1>2, <1>3, LeafType DEF TypeOK
<1>5. /\ dirs'[run[p].place].id = dirs[run[p].place].id /\ dirs'[run[p].place].named = dirs[run[p].place].named
      /\ dirs'[run[p].place] \in Leaf /\ \A place \in Places \ {run[p].place} : dirs'[place] = dirs[place]
  BY <1>1, <1>2, <1>4 DEF TypeOK, DiskTypes, Leaf
<1>6. dirs'[run[p].place] # NoDir
  BY <1>5 DEF RootAssumption, Leaf
<1>7. \A place \in Places : dirs'[place] # NoDir => dirs[place] # NoDir /\ dirs'[place].id = dirs[place].id
  BY <1>3, <1>5
<1>8. \A i \in DOMAIN pointer.listed : dirs'[PlaceIn(pointer, i)] # NoDir /\ dirs'[PlaceIn(pointer, i)].named
  BY <1>1, <1>5, <1>6, PlaceInType DEF TypeOK, PointerOK, ActiveVerified, Verified, Named
<1> QED BY <1>1, <1>7, <1>8, KeptDirs

(* The retired leaf is gone when the pointer forgets it. *)
LEMMA ClearedDisk ==
    ASSUME RootAssumption, RootInv, NEW p \in Procs, pc[p] = "tidy",
           pointer' = [pointer EXCEPT !.retired = 0], UNCHANGED <<dirs, planOf, fresh>>
    PROVE  DiskInv'
<1>1. pc[p] \in Maintaining /\ TypeOK /\ DirsOK /\ PlansOK /\ PointerOK /\ dirs[RetiredPlace] = NoDir
  BY DEF Maintaining, RootInv, CallOK, MaintainOK
<1>2. pointer.kind # "none"
  BY <1>1, RetiredIs
<1>3. pointer'.kind = pointer.kind /\ pointer'.listed = pointer.listed /\ pointer'.retired = 0
  BY <1>1 DEF TypeOK, DiskTypes, Pointers
<1>4. Active \in Ids
  BY <1>1, <1>2, ActiveIs DEF TypeOK, PointerOK
<1>5. LeavesOK'
  BY <1>1, <1>3, <1>4 DEF PointerOK, LeavesOK, RetiredPlace, Active, Ids
<1>6. ActiveVerified'
  BY <1>1, <1>3 DEF PointerOK, ActiveVerified, Verified, Named, PlaceIn
<1>7. DirsOK' /\ PlansOK' /\ KindOK' /\ ListedOK' /\ IterationsOK'
  BY <1>1, <1>2, <1>3 DEF DirsOK, PlansOK, PointerOK, KindOK, ListedOK, IterationsOK
<1> QED BY <1>5, <1>6, <1>7 DEF DiskInv, PointerOK

LEMMA SwapDisk ==
    ASSUME RootAssumption, RootInv, NEW p \in Procs, Swap(p)
    PROVE  DiskInv'
<1>1. /\ TypeOK /\ PointerOK /\ NextOK(p) /\ pointer.retired = 0 /\ pointer' = job[p].next
      /\ UNCHANGED <<dirs, planOf, fresh>> /\ DirsOK /\ PlansOK
  BY SwapIs DEF RootInv
<1>2. job[p].leaf \in Ids
  BY <1>1, NextType DEF PointerOK
<1>3. DirsOK' /\ PlansOK'
  BY <1>1 DEF DirsOK, PlansOK
<1>4. PointerOK'
  <2>1. CASE FirstNext(p)
    <3>1. /\ pointer'.listed = <<job[p].leaf>> /\ pointer'.retired = 0
          /\ pointer'.kind = IF job[p].versioned THEN "versioned" ELSE "replaceable"
      BY <1>1, <2>1 DEF FirstNext, FirstPointer, Pointer
    <3>2. DOMAIN pointer'.listed = {1} /\ pointer'.listed[1] = job[p].leaf /\ Len(pointer'.listed) = 1
      BY <3>1
    <3>3. job[p].leaf <= fresh /\ job[p].leaf >= 1
      <4>1. job[p].leaf <= fresh
        BY <2>1, FirstIs
      <4> QED BY <1>2, <4>1 DEF Ids
    <3>4. KindOK' /\ ListedOK'
      BY <1>1, <3>1, <3>2, <3>3 DEF KindOK, ListedOK
    <3>5. LeavesOK'
      <4> SUFFICES ASSUME ~job[p].versioned PROVE LeavesOK'
        BY <3>1 DEF LeavesOK
      <4>1. \A id \in Ids : id # job[p].leaf => dirs[<<"leaves", id>>] = NoDir
        BY <2>1, FirstIs, PlaceType, PlacesDiffer
      <4> QED BY <1>1, <1>2, <3>1, <3>2, <3>3, <4>1 DEF LeavesOK, Active, Ids
    <3>6. \A n \in Ids : n > 1 => dirs[<<"iteration", n>>] = NoDir
      <4>1. CASE job[p].versioned
        <5>1. \A n \in Ids : n > 1 => <<"iteration", n>> # <<"iteration", 1>>
          BY PlacesDiffer DEF Ids
        <5> QED BY <2>1, <4>1, <5>1, FirstIs, PlaceType
      <4>2. CASE ~job[p].versioned
        BY <2>1, <4>2, FirstIs, PlaceType, PlacesDiffer
      <4> QED BY <4>1, <4>2
    <3>7. IterationsOK'
      BY <1>1, <3>2, <3>6 DEF IterationsOK
    <3>8. ActiveVerified'
      BY <1>1, <2>1, <3>1, <3>2, FirstIs DEF ActiveVerified, Verified, Named, PlaceIn
    <3> QED BY <3>4, <3>5, <3>7, <3>8 DEF PointerOK
  <2>2. CASE ReplaceNext(p)
    <3>1. pointer'.listed = <<job[p].leaf>> /\ pointer'.retired = Active /\ pointer'.kind = "replaceable"
      BY <1>1, <2>2 DEF ReplaceNext, ReplacedBy, Pointer
    <3>2. DOMAIN pointer'.listed = {1} /\ pointer'.listed[1] = job[p].leaf /\ Len(pointer'.listed) = 1
      BY <3>1
    <3>3. /\ <<"leaves", job[p].leaf>> \in Places
          /\ dirs[<<"leaves", job[p].leaf>>] # NoDir /\ dirs[<<"leaves", job[p].leaf>>].named
          /\ Unbound = {job[p].leaf} /\ pointer.kind = "replaceable"
      BY <1>2, <2>2, PlaceType DEF ReplaceNext, Matches, Named
    <3>4. dirs[<<"leaves", job[p].leaf>>].id = job[p].leaf /\ job[p].leaf <= fresh /\ job[p].leaf >= 1
      BY <1>1, <1>2, <3>3 DEF DirsOK, Ids
    <3>5. KindOK' /\ ListedOK'
      BY <1>1, <3>1, <3>2, <3>4 DEF KindOK, ListedOK
    <3>6. job[p].leaf # Active /\ job[p].leaf >= Active /\ Active \in Ids
      BY <1>1, <1>2, <3>3, ActiveIs DEF Unbound, PointerOK, LeavesOK, TypeOK, Ids
    <3>7. \A id \in Ids : dirs[<<"leaves", id>>] # NoDir => id = Active \/ id = job[p].leaf
      BY <3>3 DEF Unbound
    <3>8. LeavesOK'
      BY <1>1, <1>2, <3>1, <3>2, <3>6, <3>7 DEF LeavesOK, Active, Ids
    <3>9. \A n \in Ids : n > 1 => dirs[<<"iteration", n>>] = NoDir
      BY <1>1, <3>3 DEF PointerOK, IterationsOK
    <3>10. IterationsOK'
      BY <1>1, <3>1, <3>2, <3>9 DEF IterationsOK
    <3>11. ActiveVerified'
      BY <1>1, <3>1, <3>2, <3>3, <3>4 DEF ActiveVerified, Verified, Named, PlaceIn
    <3> QED BY <3>5, <3>8, <3>10, <3>11 DEF PointerOK
  <2>3. CASE UpgradeNext(p)
    <3>1. pointer'.listed = <<Active>> /\ pointer'.retired = Active /\ pointer'.kind = "versioned"
      BY <1>1, <2>3 DEF UpgradeNext, Upgraded, Pointer
    <3>2. DOMAIN pointer'.listed = {1} /\ pointer'.listed[1] = Active /\ Len(pointer'.listed) = 1
      BY <3>1
    <3>3. Active \in Ids /\ Active <= fresh /\ Active >= 1
      BY <1>1, <2>3, ActiveIs DEF UpgradeNext, TypeOK, PointerOK, ListedOK, Active
    <3>4. KindOK' /\ ListedOK' /\ LeavesOK'
      BY <1>1, <3>1, <3>2, <3>3 DEF KindOK, ListedOK, LeavesOK
    <3>5. \A n \in Ids : n > 1 => dirs[<<"iteration", n>>] = NoDir
      BY <1>1, <2>3 DEF UpgradeNext, PointerOK, IterationsOK
    <3>6. IterationsOK'
      BY <1>1, <3>1, <3>2, <3>5 DEF IterationsOK
    <3>7. ActiveVerified'
      BY <1>1, <2>3, <3>1, <3>2 DEF UpgradeNext, Iteration1, ActiveVerified, Verified, Named, PlaceIn
    <3> QED BY <3>4, <3>6, <3>7 DEF PointerOK
  <2>4. CASE AppendNext(p)
    <3>1. /\ pointer'.listed = Append(pointer.listed, job[p].leaf) /\ pointer'.retired = 0
          /\ pointer'.kind = "versioned" /\ pointer.kind = "versioned"
      BY <1>1, <2>4 DEF AppendNext, Appended, Pointer
    <3>2. pointer.listed \in Seq(Ids) /\ Len(pointer.listed) \in Nat
      BY <1>1 DEF TypeOK, DiskTypes, Pointers
    <3>3. /\ Len(pointer'.listed) = Len(pointer.listed) + 1
          /\ pointer'.listed[Len(pointer.listed) + 1] = job[p].leaf
          /\ DOMAIN pointer.listed = 1 .. Len(pointer.listed)
          /\ DOMAIN pointer'.listed = 1 .. (Len(pointer.listed) + 1)
          /\ \A i \in DOMAIN pointer.listed : pointer'.listed[i] = pointer.listed[i]
      BY <1>2, <3>1, <3>2
    <3>4. /\ NextPlace \in Places /\ dirs[NextPlace] # NoDir /\ dirs[NextPlace].named
          /\ dirs[NextPlace].id = job[p].leaf
      BY <2>4 DEF AppendNext, Matches, Named
    <3>5. Len(pointer.listed) + 1 \in Ids
      BY <3>4 DEF NextPlace, Places
    <3>6. \A i \in DOMAIN pointer.listed : pointer.listed[i] < job[p].leaf
      BY <1>1, <3>1, <3>4, <3>5 DEF PointerOK, IterationsOK, NextPlace
    <3>7. Len(pointer.listed) + 1 <= job[p].leaf /\ job[p].leaf <= fresh
      <4>1. job[p].leaf <= fresh
        BY <1>1, <3>4 DEF DirsOK
      <4>2. Len(pointer.listed) > 0
        BY <1>1, <3>1 DEF PointerOK, KindOK
      <4>3. Len(pointer.listed) \in DOMAIN pointer.listed
        BY <3>2, <3>3, <4>2
      <4>4. Len(pointer.listed) <= pointer.listed[Len(pointer.listed)]
        BY <1>1, <4>3 DEF PointerOK, ListedOK
      <4>5. pointer.listed[Len(pointer.listed)] \in Ids
        BY <1>1, <4>3, ListedType DEF TypeOK
      <4> QED BY <1>2, <3>2, <3>6, <4>1, <4>3, <4>4, <4>5 DEF Ids
    <3>8. KindOK' /\ LeavesOK'
      BY <3>1, <3>2, <3>3 DEF KindOK, LeavesOK
    <3>9. ListedOK'
      <4>1. \A i \in DOMAIN pointer'.listed : i \in DOMAIN pointer.listed \/ i = Len(pointer.listed) + 1
        BY <3>2, <3>3
      <4>2. \A i \in DOMAIN pointer'.listed : i <= pointer'.listed[i] /\ pointer'.listed[i] <= fresh'
        BY <1>1, <3>3, <3>7, <4>1 DEF PointerOK, ListedOK
      <4>3. ASSUME NEW i \in DOMAIN pointer'.listed, NEW j \in DOMAIN pointer'.listed, i < j
            PROVE  pointer'.listed[i] < pointer'.listed[j]
        <5>1. i \in DOMAIN pointer.listed
          BY <3>2, <3>3, <4>3
        <5>2. CASE j \in DOMAIN pointer.listed
          BY <1>1, <3>3, <4>3, <5>1, <5>2 DEF PointerOK, ListedOK
        <5>3. CASE j = Len(pointer.listed) + 1
          BY <3>3, <3>6, <5>1, <5>3
        <5> QED BY <4>1, <5>2, <5>3
      <4> QED BY <4>2, <4>3 DEF ListedOK
    <3>10. IterationsOK'
      <4>1. \A n \in Ids : n > 1 /\ n > Len(pointer.listed) + 1 => dirs[<<"iteration", n>>] = NoDir
        BY <1>1 DEF PointerOK, IterationsOK
      <4>2. \A n \in Ids : n > Len(pointer.listed) + 1 => dirs[<<"iteration", n>>] = NoDir
        BY <3>2, <4>1 DEF Ids
      <4> QED BY <1>1, <3>1, <3>2, <3>3, <4>2 DEF IterationsOK, Ids
    <3>11. ActiveVerified'
      <4>1. ASSUME NEW i \in DOMAIN pointer'.listed
            PROVE  Verified(PlaceIn(pointer, i), pointer.listed[i])'
        <5>1. CASE i \in DOMAIN pointer.listed
          BY <1>1, <3>1, <3>3, <5>1 DEF PointerOK, ActiveVerified, Verified, Named, PlaceIn
        <5>2. CASE i = Len(pointer.listed) + 1
          BY <1>1, <3>1, <3>3, <3>4, <5>2 DEF Verified, Named, PlaceIn, NextPlace
        <5> QED BY <3>2, <3>3, <5>1, <5>2
      <4> QED BY <4>1 DEF ActiveVerified
    <3> QED BY <3>8, <3>9, <3>10, <3>11 DEF PointerOK
  <2> QED BY <1>1, <2>1, <2>2, <2>3, <2>4 DEF NextOK
<1> QED BY <1>3, <1>4 DEF DiskInv

LEMMA StepDiskInv ==
    ASSUME RootAssumption, RootInv, NEW p \in Procs, Step(p)
    PROVE  DiskInv'
<1>1. DiskInv
  BY DEF RootInv, DiskInv
<1>2. CASE UNCHANGED <<pointer, dirs, planOf, fresh>>
  BY <1>1, <1>2, SameDisk
<1>3. CASE Create(p) \/ Copy(p) \/ Unlink(p) \/ RemoveRetired(p) \/ Swap(p) \/ WriteEvidence(p)
  BY <1>3, CreateDisk, CopyDisk, UnlinkDisk, SwapDisk, WriteDisk
<1>4. CASE ClearRetired(p)
  BY <1>4, ClearedDisk DEF ClearRetired
<1>5. CASE Raise(p) \/ Die(p)
  <2>1. UNCHANGED <<dirs, planOf, fresh>> /\ MayBeCleared(p)
    BY <1>5 DEF Raise, Die
  <2> QED BY <1>2, <2>1, ClearedDisk DEF MayBeCleared
<1>6. CASE Call(p) \/ Lock(p) \/ FindRetired(p) \/ EnterRun(p) \/ EndUse(p)
  BY <1>2, <1>6 DEF Call, Lock, FindRetired, EnterRun, EndUse, diskVars
<1>7. CASE Bind(p) /\ ~Create(p) /\ ~Copy(p) /\ ~Swap(p)
  BY <1>2, <1>7 DEF Bind, RecoverRoot, OpenRoot, ReuseActive, ReplaceActive, AdoptOrphan, UpgradeActive,
     UpgradeCopied, RefuseReplaceable, BindIndexed, NextIteration, AdoptIteration, RefuseVersioned, Copied,
     WriteTemporary, Confirm, ConfirmFails, Deciding, diskVars
<1> QED BY <1>3, <1>4, <1>5, <1>6, <1>7 DEF Step, Maintenance, Use

-----------------------------------------------------------------------------
(* Counting *)

LEMMA WaitingOthers ==
    ASSUME NEW p \in Procs, Others(p)
    PROVE  Waiting' \ {p} = Waiting \ {p}
BY DEF Others, Waiting

LEMMA FewerWait ==
    ASSUME RootAssumption, RootInv, NEW p \in Procs, Others(p), p \in Waiting' => p \in Waiting,
           UNCHANGED <<fresh, calls>>
    PROVE  CountOK'
<1>1. Waiting' \subseteq Waiting /\ IsFiniteSet(Waiting) /\ fresh + Cardinality(Waiting) <= calls
  BY WaitingOthers DEF RootInv, CountOK
<1>2. IsFiniteSet(Waiting') /\ Cardinality(Waiting') <= Cardinality(Waiting)
  BY <1>1, FS_Subset
<1>3. Cardinality(Waiting) \in Nat /\ Cardinality(Waiting') \in Nat
  BY <1>1, <1>2, FS_CardinalityType
<1>4. fresh \in Nat /\ calls \in Nat
  BY DEF RootInv, TypeOK, DiskTypes, NoteTypes, RootAssumption
<1> QED BY <1>1, <1>2, <1>3, <1>4 DEF CountOK

LEMMA CallCount ==
    ASSUME RootAssumption, RootInv, NEW p \in Procs, Call(p)
    PROVE  CountOK'
<1>1. Others(p) /\ IsFiniteSet(Waiting) /\ fresh + Cardinality(Waiting) <= calls
  BY StepOthers DEF RootInv, CountOK, Step
<1>2. p \notin Waiting
  BY DEF Call, Waiting, Maintaining
<1>3. pc'[p] = "lock"
  BY DEF Call, Goto, RootInv, TypeOK, CallTypes
<1>4. Waiting' = Waiting \cup {p}
  BY <1>1, <1>2, <1>3, WaitingOthers DEF Waiting
<1>5. IsFiniteSet(Waiting') /\ Cardinality(Waiting') = Cardinality(Waiting) + 1
  BY <1>1, <1>2, <1>4, FS_AddElement
<1>6. Cardinality(Waiting) \in Nat
  BY <1>1, FS_CardinalityType
<1>7. fresh' = fresh /\ calls' = calls + 1 /\ fresh \in Nat /\ calls \in Nat
  BY DEF Call, diskVars, RootInv, TypeOK, DiskTypes, NoteTypes, RootAssumption
<1> QED BY <1>1, <1>5, <1>6, <1>7 DEF CountOK

LEMMA CreateCount ==
    ASSUME RootAssumption, RootInv, NEW p \in Procs, Create(p)
    PROVE  CountOK'
<1>1. Others(p) /\ IsFiniteSet(Waiting) /\ fresh + Cardinality(Waiting) <= calls
  BY StepOthers DEF RootInv, CountOK, Step, Bind
<1>2. p \in Waiting
  BY DEF Create, Waiting
<1>3. pc'[p] = "publish"
  BY DEF Create, Publish, Goto, RootInv, TypeOK, CallTypes
<1>4. Waiting' = Waiting \ {p}
  BY <1>1, <1>2, <1>3, WaitingOthers DEF Waiting, Maintaining
<1>5. IsFiniteSet(Waiting') /\ Cardinality(Waiting') = Cardinality(Waiting) - 1
  BY <1>1, <1>2, <1>4, FS_RemoveElement
<1>6. Cardinality(Waiting) \in Nat /\ Cardinality(Waiting') \in Nat
  BY <1>1, <1>5, FS_CardinalityType
<1>7. fresh' = fresh + 1 /\ calls' = calls /\ fresh \in Nat /\ calls \in Nat
  BY DEF Create, seenVars, RootInv, TypeOK, DiskTypes, NoteTypes, RootAssumption
<1> QED BY <1>1, <1>5, <1>6, <1>7 DEF CountOK

LEMMA NotWaiting ==
    ASSUME NEW p \in Procs, pc[p] \in {"idle", "use", "copy", "publish", "swap", "confirm"}
    PROVE  p \notin Waiting
BY DEF Waiting, Maintaining

LEMMA NoMoreWaiting ==
    ASSUME NEW p \in Procs, pc'[p] \in {"idle", "use", "copy", "publish", "swap", "confirm"}
    PROVE  p \notin Waiting'
BY DEF Waiting, Maintaining

LEMMA EndCount ==
    ASSUME TypeOK, NEW p \in Procs, NEW how, End(p, how)
    PROVE  p \notin Waiting' /\ UNCHANGED calls
<1>1. pc'[p] = "idle" /\ UNCHANGED calls
  BY DEF End, Goto, TypeOK, CallTypes
<1> QED BY <1>1, NoMoreWaiting

LEMMA SealCount ==
    ASSUME TypeOK, NEW p \in Procs, NEW i, Seal(p, i)
    PROVE  p \notin Waiting' /\ UNCHANGED calls
<1>1. CASE pointer.retired = 0
  BY <1>1, EndCount DEF Seal
<1>2. CASE pointer.retired # 0
  <2>1. pc'[p] = "maintain" /\ job'[p].then = "idle" /\ UNCHANGED calls
    BY <1>2 DEF Seal, Maintain, Goto, seenVars, TypeOK, CallTypes
  <2> QED BY <2>1 DEF Waiting
<1> QED BY <1>1, <1>2

LEMMA StepCount ==
    ASSUME RootAssumption, RootInv, NEW p \in Procs, Step(p)
    PROVE  CountOK'
<1>1. Others(p) /\ TypeOK /\ CallOK(p)
  BY StepOthers DEF RootInv
<1>2. pc[p] \in {"lock", "look", "decide", "create"} => p \in Waiting
  BY DEF Waiting
<1>3. SUFFICES ASSUME ~Call(p), ~Create(p)
               PROVE  (p \in Waiting' => p \in Waiting) /\ UNCHANGED <<fresh, calls>>
  BY <1>1, CallCount, CreateCount, FewerWait
<1>4. CASE Lock(p)
  BY <1>2, <1>4 DEF Lock, diskVars
<1>5. CASE RecoverRoot(p) \/ OpenRoot(p) \/ EnterRun(p)
  <2>1. pc[p] = "look" /\ UNCHANGED fresh
    BY <1>5 DEF RecoverRoot, OpenRoot, EnterRun, diskVars
  <2>2. UNCHANGED calls
    BY <1>1, <1>5, EndCount DEF RecoverRoot, OpenRoot, EnterRun, Refuse, Fails, seenVars
  <2> QED BY <1>2, <2>1, <2>2
<1>6. CASE ReuseActive(p) \/ BindIndexed(p) \/ Confirm(p)
  <2>1. PICK i : Seal(p, i)
    BY <1>6 DEF ReuseActive, BindIndexed, Confirm
  <2>2. UNCHANGED fresh
    BY <1>6 DEF ReuseActive, BindIndexed, Confirm, Deciding, diskVars
  <2> QED BY <1>1, <2>1, <2>2, SealCount
<1>7. CASE \/ ReplaceActive(p) \/ AdoptOrphan(p) \/ UpgradeActive(p) \/ UpgradeCopied(p)
           \/ NextIteration(p) \/ AdoptIteration(p)
  <2>1. pc[p] = "decide" /\ UNCHANGED <<fresh, calls>>
    BY <1>7 DEF ReplaceActive, AdoptOrphan, UpgradeActive, UpgradeCopied, NextIteration, AdoptIteration,
       Deciding, diskVars, seenVars
  <2> QED BY <1>2, <2>1
<1>8. CASE RefuseReplaceable(p) \/ RefuseVersioned(p) \/ ConfirmFails(p) \/ EndUse(p) \/ Raise(p)
  <2>1. UNCHANGED fresh
    BY <1>8 DEF RefuseReplaceable, RefuseVersioned, ConfirmFails, EndUse, Raise, Deciding, diskVars
  <2>2. PICK how : End(p, how)
    BY <1>8 DEF RefuseReplaceable, RefuseVersioned, ConfirmFails, EndUse, Raise, Refuse, Fails
  <2> QED BY <1>1, <2>1, <2>2, EndCount
<1>9. CASE Copy(p) \/ WriteEvidence(p)
  BY <1>1, <1>9 DEF Copy, WriteEvidence, seenVars, Waiting, Maintaining
<1>10. CASE Copied(p) \/ WriteTemporary(p) \/ Swap(p)
  <2>1. pc'[p] \in {"publish", "swap", "confirm"} /\ UNCHANGED <<fresh, calls>>
    BY <1>1, <1>10 DEF Copied, WriteTemporary, Swap, Publish, Goto, diskVars, seenVars, TypeOK, CallTypes
  <2> QED BY <2>1, NoMoreWaiting
<1>11. CASE FindRetired(p)
  <2>1. CASE Refuse(p)
    BY <1>1, <1>11, <2>1, EndCount DEF FindRetired, Refuse, Fails, diskVars
  <2>2. CASE ~Refuse(p)
    BY <1>1, <1>11, <2>2 DEF FindRetired, Goto, diskVars, seenVars, Waiting, Maintaining, TypeOK, CallTypes
  <2> QED BY <2>1, <2>2
<1>12. CASE Unlink(p)
  BY <1>12 DEF Unlink, seenVars, Waiting
<1>13. CASE RemoveRetired(p)
  BY <1>1, <1>13 DEF RemoveRetired, Goto, seenVars, Waiting, Maintaining, TypeOK, CallTypes
<1>14. CASE ClearRetired(p)
  <2>1. CASE job[p].then = "idle"
    BY <1>1, <1>14, <2>1, EndCount DEF ClearRetired
  <2>2. CASE job[p].then # "idle"
    <3>1. /\ pc[p] = "tidy" /\ pc'[p] = job[p].then /\ UNCHANGED <<job, fresh, calls>>
          /\ job[p].then \in {"use", "decide"}
      BY <1>1, <1>14, <2>2 DEF ClearRetired, Goto, seenVars, CallOK, ThenOK, Maintaining, TypeOK, CallTypes
    <3> QED BY <3>1 DEF Waiting, Maintaining
  <2> QED BY <2>1, <2>2
<1>15. CASE Die(p)
  <2>1. pc'[p] = "idle" /\ UNCHANGED <<fresh, calls>>
    BY <1>1, <1>15 DEF Die, Goto, TypeOK, CallTypes
  <2> QED BY <2>1, NoMoreWaiting
<1> QED
  BY <1>3, <1>4, <1>5, <1>6, <1>7, <1>8, <1>9, <1>10, <1>11, <1>12, <1>13, <1>14, <1>15
     DEF Step, Bind, Maintenance, Use

-----------------------------------------------------------------------------
(* What a call that was cut off has left behind *)

LEMMA NoCutOK == ASSUME cut' = NoCut PROVE CutOK'
BY EmptyTypes DEF CutOK

(* Wherever a repeatable call stands, it would accept what is there now. *)
LEMMA StageAccepts ==
    ASSUME RootAssumption, RootInv, NEW p \in Procs, pc[p] \in Repeatable
    PROVE  Accepts(job[p].plan, job[p].versioned) /\ RetiredWhole
<1>1. StageOK(p) /\ TypeOK
  BY DEF RootInv, CallOK
<1>2. job[p].versioned \in BOOLEAN
  BY <1>1 DEF TypeOK, CallTypes
<1>3. CASE pc[p] = "create"
  <2>1. ReadyToCreate(p) /\ pointer.retired = 0
    BY <1>1, <1>3 DEF StageOK
  <2> QED BY <1>2, <2>1 DEF ReadyToCreate, Accepts, RetiredWhole, FreeNext
<1>4. CASE pc[p] = "publish"
  <2>1. NextOK(p) /\ pointer.retired = 0 /\ (pointer.kind = "none" => ~leftover)
    BY <1>1, <1>4 DEF StageOK
  <2>2. CASE FirstNext(p)
    BY <2>1, <2>2 DEF FirstNext, Accepts, RetiredWhole
  <2>3. CASE ReplaceNext(p)
    <3>1. job[p].leaf \in Ids /\ Unbound \ {pointer.retired} = {job[p].leaf}
      BY <2>1, <2>3 DEF ReplaceNext, Unbound, Ids
    <3> QED BY <2>1, <2>3, <3>1 DEF ReplaceNext, Accepts, RetiredWhole
  <2>4. CASE UpgradeNext(p)
    BY <2>1, <2>4 DEF UpgradeNext, Accepts, RetiredWhole
  <2>5. CASE AppendNext(p)
    BY <2>1, <2>5 DEF AppendNext, Accepts, RetiredWhole
  <2> QED BY <2>1, <2>2, <2>3, <2>4, <2>5 DEF NextOK
<1>5. CASE pc[p] = "confirm"
  <2>1. pointer.kind # "none" /\ ConfirmOK(p) /\ RetiredWhole
    BY <1>1, <1>5 DEF StageOK
  <2> QED BY <2>1 DEF ConfirmOK, Accepts, FreeNext
<1> QED BY <1>3, <1>4, <1>5 DEF Repeatable

LEMMA SameAccepts ==
    ASSUME UNCHANGED <<diskVars, cut>>
    PROVE  (CutAccepts => CutAccepts') /\ (RetiredWhole => RetiredWhole')
<1> USE DEF diskVars
<1>1. RetiredWhole => RetiredWhole'
  BY DEF RetiredWhole, RetiredPlace, Verified, Named
<1>2. (\E place \in Places : Recoverable(place, cut.plan, cut.versioned))
      => (\E place \in Places : Recoverable(place, cut.plan, cut.versioned))'
  BY DEF Recoverable, Matches, Named
<1>3. Unbound' = Unbound /\ Active' = Active /\ NextPlace' = NextPlace /\ (NothingThere => NothingThere')
  BY DEF Unbound, Active, NextPlace, NothingThere
<1>4. \A place \in Places : /\ Matches(place, cut.plan) => Matches(place, cut.plan)'
                            /\ Verified(place, Active) => Verified(place, Active)'
  BY <1>3 DEF Matches, Verified, Named
<1>5. \A id \in Ids : Matches(<<"leaves", id>>, cut.plan) => Matches(<<"leaves", id>>, cut.plan)'
  BY DEF Matches, Named
<1>6. CutAccepts => CutAccepts'
  BY <1>2, <1>3, <1>4, <1>5 DEF CutAccepts, Accepts, Iteration1
<1> QED BY <1>1, <1>6

(* A step that keeps disk and note: only its own way on is left to show. *)
LEMMA SameCut ==
    ASSUME RootAssumption, RootInv, NEW p \in Procs, Step(p), UNCHANGED <<diskVars, cut>>,
           exclusive' = {} => exclusive = {},
           Repeating(p)' => \/ exclusive = {}
                            \/ p \in exclusive /\ Repeating(p) /\ (Untouched(p)' => Untouched(p))
    PROVE  CutOK'
<1>1. Others(p) /\ HoldMove(p)
  BY StepOthers DEF RootInv
<1> SUFFICES ASSUME cut.at \in Repeatable
             PROVE  /\ exclusive' = {} => CutAccepts' /\ RetiredWhole'
                    /\ \A q \in exclusive' : Repeating(q)' => CutAccepts' /\ (Untouched(q)' => RetiredWhole')
  BY DEF CutOK
<1>2. (CutAccepts => CutAccepts') /\ (RetiredWhole => RetiredWhole')
  BY SameAccepts
<1>3. CutOK /\ (exclusive = {} => CutAccepts /\ RetiredWhole)
  BY DEF RootInv, CutOK
<1>5. ASSUME NEW q \in exclusive', Repeating(q)'
      PROVE  CutAccepts' /\ (Untouched(q)' => RetiredWhole')
  <2>1. CASE exclusive = {}
    BY <1>2, <1>3, <2>1
  <2>2. CASE q # p
    <3>1. q \in exclusive /\ q \in Procs
      BY <1>1, <2>2 DEF HoldMove, lockVars, RootInv, TypeOK, LockTypes
    <3>2. Repeating(q) /\ (Untouched(q)' => Untouched(q))
      BY <1>1, <1>5, <2>2, <3>1 DEF Others, Repeating, Untouched
    <3> QED BY <1>2, <1>3, <3>1, <3>2 DEF CutOK
  <2>3. CASE q = p /\ exclusive # {}
    BY <1>2, <1>3, <1>5, <2>3 DEF CutOK
  <2> QED BY <2>1, <2>2, <2>3
<1> QED BY <1>2, <1>3, <1>5

(* A step by which the call stops being one that may be refused. *)
LEMMA BusyCut ==
    ASSUME RootAssumption, RootInv, NEW p \in Procs, p \in exclusive, UNCHANGED <<lockVars, cut>>, ~Repeating(p)'
    PROVE  CutOK'
<1>1. exclusive' = {p}
  BY DEF lockVars, RootInv, TypeOK, LockTypes
<1> QED BY <1>1 DEF CutOK

(* Removing the retired leaf takes nothing away that the call would look at. *)
LEMMA MaintainedCut ==
    ASSUME RootAssumption, RootInv, NEW p \in Procs, pc[p] \in Maintaining,
           UNCHANGED <<lockVars, cut, planOf, leftover>>, pc'[p] # "maintain", pc'[p] # "look",
           Repeating(p)' => Repeating(p), dirs' \in [Places -> Leaf \cup {NoDir}],
           \/ /\ UNCHANGED pointer
              /\ \A place \in Places : place # RetiredPlace => dirs'[place] = dirs[place]
           \/ /\ UNCHANGED dirs /\ dirs[RetiredPlace] = NoDir
              /\ pointer' = [pointer EXCEPT !.retired = 0]
    PROVE  CutOK'
<1>1. /\ TypeOK /\ KindOK /\ pointer.kind # "none" /\ pointer.retired \in Ids
      /\ HoldOK(p) /\ JobOK(p) /\ ThenOK(p) /\ CutOK
  BY RetiredIs DEF RootInv, PointerOK, CallOK
<1>2. p \in exclusive /\ exclusive' = {p}
  BY <1>1 DEF HoldOK, JobOK, Maintaining, lockVars, TypeOK, LockTypes
<1>3. ~Untouched(p)'
  BY DEF Untouched
<1>4. pointer'.kind = pointer.kind /\ pointer'.listed = pointer.listed
  BY <1>1 DEF TypeOK, DiskTypes, Pointers
<1>5. Active' = Active /\ NextPlace' = NextPlace
  BY <1>4 DEF Active, NextPlace
<1>6. \A id \in Ids : id # pointer.retired => dirs'[<<"leaves", id>>] = dirs[<<"leaves", id>>]
  BY PlaceType, PlacesDiffer DEF RetiredPlace
<1>7. \A place \in Places : place[1] = "iteration" => dirs'[place] = dirs[place]
  BY DEF RetiredPlace
<1>8. Unbound' \ {pointer'.retired} = Unbound \ {pointer.retired}
  <2>1. CASE UNCHANGED pointer
    BY <1>5, <1>6, <2>1 DEF Unbound
  <2>2. CASE dirs[RetiredPlace] = NoDir /\ UNCHANGED dirs /\ pointer' = [pointer EXCEPT !.retired = 0]
    <3>1. pointer'.retired = 0
      BY <1>1, <2>2 DEF TypeOK, DiskTypes, Pointers
    <3> QED BY <1>1, <1>5, <2>2, <3>1 DEF Unbound, RetiredPlace, Ids
  <2> QED BY <2>1, <2>2
<1>9. CutAccepts => CutAccepts'
  <2> SUFFICES ASSUME CutAccepts PROVE CutAccepts'
    OBVIOUS
  <2>1. CASE pointer.kind = "versioned"
    <3>1. /\ cut.versioned
          /\ \A place \in Places : place = NextPlace => dirs[place] = NoDir \/ Matches(place, cut.plan)
      BY <2>1 DEF CutAccepts, Accepts
    <3>2. \A place \in Places : place = NextPlace => dirs'[place] = NoDir \/ Matches(place, cut.plan)'
      BY <1>7, <3>1 DEF Matches, Named, NextPlace
    <3> QED BY <1>4, <1>5, <2>1, <3>1, <3>2 DEF CutAccepts, Accepts
  <2>2. CASE pointer.kind = "replaceable" /\ cut.versioned
    <3>1. /\ Unbound \subseteq {pointer.retired}
          /\ \A place \in Places : place = Iteration1 => dirs[place] = NoDir \/ Verified(place, Active)
      BY <2>2 DEF CutAccepts, Accepts
    <3>2. Unbound' \subseteq {pointer'.retired}
      BY <1>8, <3>1
    <3>3. \A place \in Places : place = Iteration1 => dirs'[place] = NoDir \/ Verified(place, Active)'
      BY <1>5, <1>7, <3>1 DEF Verified, Named, Iteration1
    <3> QED BY <1>4, <2>2, <3>2, <3>3 DEF CutAccepts, Accepts, Iteration1
  <2>3. CASE pointer.kind = "replaceable" /\ ~cut.versioned
    <3>1. CASE Unbound \subseteq {pointer.retired}
      <4>1. Unbound' \subseteq {pointer'.retired}
        BY <1>8, <3>1
      <4> QED BY <1>4, <2>3, <4>1 DEF CutAccepts, Accepts
    <3>2. CASE ~(Unbound \subseteq {pointer.retired})
      <4>1. PICK id \in Ids : /\ cut.plan # planOf[Active] /\ Unbound \ {pointer.retired} = {id}
                              /\ Matches(<<"leaves", id>>, cut.plan) /\ ~dirs[<<"leaves", id>>].evidence
        BY <2>3, <3>2 DEF CutAccepts, Accepts
      <4>2. dirs'[<<"leaves", id>>] = dirs[<<"leaves", id>>]
        BY <1>6, <4>1
      <4>3. Matches(<<"leaves", id>>, cut.plan)' /\ ~dirs'[<<"leaves", id>>].evidence
        BY <4>1, <4>2 DEF Matches, Named
      <4>4. cut'.plan # planOf'[Active'] /\ Unbound' \ {pointer'.retired} = {id}
        BY <1>5, <1>8, <4>1
      <4> QED BY <1>4, <2>3, <4>3, <4>4 DEF CutAccepts, Accepts
    <3> QED BY <3>1, <3>2
  <2> QED BY <1>1, <2>1, <2>2, <2>3 DEF TypeOK, DiskTypes, Pointers
<1> QED BY <1>1, <1>2, <1>3, <1>9 DEF CutOK

LEMMA EndCut ==
    ASSUME NEW p, NEW how, Fails(p, how) \/ End(p, how)
    PROVE  CutOK'
BY NoCutOK DEF Fails, End

LEMMA DieCut ==
    ASSUME RootAssumption, RootInv, NEW p \in Procs, Die(p)
    PROVE  CutOK'
<1>1. CASE job[p].kind # "bind"
  BY <1>1, NoCutOK DEF Die
<1>2. CASE job[p].kind = "bind"
  <2>1. cut' = [plan |-> job[p].plan, versioned |-> job[p].versioned, at |-> pc[p]]
    BY <1>2 DEF Die
  <2>2. cut'.plan = job[p].plan /\ cut'.versioned = job[p].versioned /\ cut'.at = pc[p]
    BY <2>1
  <2>3. CASE pc[p] \notin Repeatable
    BY <2>2, <2>3 DEF CutOK
  <2>4. CASE pc[p] \in Repeatable
    <3>1. UNCHANGED diskVars
      BY <2>4 DEF Die, MayBeCleared, Repeatable, diskVars
    <3>2. p \in exclusive
      BY <1>2, <2>4 DEF RootInv, CallOK, HoldOK, Repeatable
    <3>3. exclusive' = {}
      BY <3>2 DEF Die, DropLock, RootInv, TypeOK, LockTypes
    <3>4. Accepts(job[p].plan, job[p].versioned) /\ RetiredWhole
      BY <2>4, StageAccepts
    <3>5. UNCHANGED <<pointer, dirs, planOf, leftover>>
      BY <3>1 DEF diskVars
    <3>6. RetiredWhole'
      BY <3>4, <3>5 DEF RetiredWhole, RetiredPlace, Verified, Named
    <3>7. /\ Unbound' = Unbound /\ Active' = Active /\ NextPlace' = NextPlace /\ (NothingThere => NothingThere')
          /\ \A place \in Places : Verified(place, Active) => Verified(place, Active)'
      BY <3>5 DEF Unbound, Active, NextPlace, NothingThere, Verified, Named
    <3>8. CutAccepts'
      BY <2>2, <3>4, <3>5, <3>7 DEF CutAccepts, Accepts, Recoverable, Matches, Named, Iteration1
    <3> QED BY <3>3, <3>6, <3>8 DEF CutOK
  <2> QED BY <2>3, <2>4
<1> QED BY <1>1, <1>2

LEMMA HeldIs ==
    ASSUME RootInv, NEW p \in Procs, pc[p] \in Staged \cup Maintaining
    PROVE  p \in exclusive
BY DEF RootInv, CallOK, JobOK, HoldOK, Staged, Maintaining

LEMMA MaintainCut ==
    ASSUME RootAssumption, RootInv, NEW p \in Procs, Step(p), pc[p] = "look", NEW then,
           Maintain(p, then), UNCHANGED <<diskVars, lockVars, seenVars>>
    PROVE  CutOK'
<1>1. TypeOK /\ HoldOK(p) /\ ThenOK(p) /\ JobOK(p)
  BY DEF RootInv, CallOK
<1>2. /\ job'[p].kind = job[p].kind /\ job'[p].plan = job[p].plan /\ job'[p].versioned = job[p].versioned
      /\ UNCHANGED <<cut, exclusive>>
  BY <1>1 DEF Maintain, seenVars, lockVars, TypeOK, CallTypes
<1>3. Repeating(p)' => p \in exclusive /\ Repeating(p) /\ Untouched(p)
  BY <1>1, <1>2 DEF Repeating, Untouched, HoldOK, ThenOK
<1> QED BY <1>2, <1>3, SameCut

LEMMA SealCut ==
    ASSUME RootAssumption, RootInv, NEW p \in Procs, pc[p] \in {"decide", "confirm"}, NEW i, Seal(p, i)
    PROVE  CutOK'
<1>1. CASE pointer.retired = 0
  BY <1>1, EndCut DEF Seal
<1>2. CASE pointer.retired # 0
  <2>1. job'[p].then = "idle" /\ UNCHANGED <<lockVars, cut>>
    BY <1>2 DEF Seal, Maintain, seenVars, RootInv, TypeOK, CallTypes
  <2> QED BY <2>1, HeldIs, BusyCut DEF Repeating, Staged
<1> QED BY <1>1, <1>2

LEMMA StepCut ==
    ASSUME RootAssumption, RootInv, NEW p \in Procs, Step(p)
    PROVE  CutOK'
<1>1. TypeOK /\ CallOK(p) /\ StageOK(p) /\ TypeOK'
  BY StepType DEF RootInv, CallOK
<1>2. CASE Call(p)
  <2>1. pc'[p] = "lock" /\ UNCHANGED <<diskVars, exclusive, cut>>
    BY <1>1, <1>2 DEF Call, Goto, lockVars, TypeOK, CallTypes
  <2> QED BY <2>1, SameCut DEF Repeating, Maintaining
<1>3. CASE Lock(p)
  <2>1. UNCHANGED <<diskVars, cut>> /\ exclusive = {}
    BY <1>3 DEF Lock, TakeShared, TakeExclusive
  <2> QED BY <2>1, SameCut
<1>4. CASE RecoverRoot(p)
  <2>1. CASE Refuse(p)
    BY <2>1, EndCut DEF Refuse
  <2>2. CASE ~Refuse(p)
    <3>1. pc'[p] \in {"create", "publish"} /\ UNCHANGED <<diskVars, exclusive, cut>>
      BY <1>1, <1>4, <2>2 DEF RecoverRoot, Publish, Goto, lockVars, seenVars, TypeOK, CallTypes
    <3> QED BY <3>1, SameCut DEF Repeating, Maintaining
  <2> QED BY <2>1, <2>2
<1>5. CASE OpenRoot(p)
  BY <1>5, EndCut, MaintainCut DEF OpenRoot, Refuse
<1>6. CASE EnterRun(p)
  <2>1. CASE Refuse(p)
    BY <2>1, EndCut DEF Refuse
  <2>2. CASE ~Refuse(p)
    <3>1. UNCHANGED <<diskVars, lockVars, seenVars>> /\ job'[p].kind = job[p].kind
      BY <1>1, <1>6, <2>2 DEF EnterRun, Maintain, TypeOK, CallTypes
    <3> QED BY <1>6, <3>1, SameCut DEF EnterRun, Repeating, lockVars, seenVars
  <2> QED BY <2>1, <2>2
<1>7. CASE FindRetired(p)
  <2>1. CASE Refuse(p)
    BY <2>1, EndCut DEF Refuse
  <2>2. CASE ~Refuse(p)
    <3>1. pc[p] \in Maintaining /\ pc'[p] \in {"tidy", "unlink"} /\ UNCHANGED <<diskVars, exclusive, cut, job>>
      BY <1>1, <1>7, <2>2 DEF FindRetired, Goto, lockVars, seenVars, Maintaining, TypeOK, CallTypes
    <3>2. Repeating(p)' => p \in exclusive /\ Repeating(p) /\ (Untouched(p)' => Untouched(p))
      BY <3>1, HeldIs DEF Repeating, Untouched, Maintaining
    <3> QED BY <3>1, <3>2, SameCut
  <2> QED BY <2>1, <2>2
<1>8. CASE Unlink(p) \/ RemoveRetired(p)
  <2>1. /\ pc[p] \in Maintaining /\ pc'[p] \in {"unlink", "tidy"}
        /\ UNCHANGED <<lockVars, cut, planOf, leftover, pointer, job>>
    BY <1>1, <1>8 DEF Unlink, RemoveRetired, Goto, seenVars, Maintaining, TypeOK, CallTypes
  <2>2. RetiredPlace \in Places
    BY <2>1, RetiredIs
  <2>3. \A place \in Places : place # RetiredPlace => dirs'[place] = dirs[place]
    BY <1>1, <1>8, <2>2 DEF Unlink, RemoveRetired, TypeOK, DiskTypes
  <2>4. Repeating(p)' => Repeating(p)
    BY <2>1 DEF Repeating, Maintaining
  <2> QED BY <1>1, <2>1, <2>3, <2>4, MaintainedCut DEF TypeOK, DiskTypes
<1>9. CASE ClearRetired(p)
  <2>1. CASE job[p].then = "idle"
    BY <1>9, <2>1, EndCut DEF ClearRetired
  <2>2. CASE job[p].then # "idle"
    <3>1. /\ pc[p] = "tidy" /\ pc'[p] = job[p].then /\ job[p].then \in {"use", "decide"}
          /\ UNCHANGED <<lockVars, cut, planOf, leftover, dirs, job>>
          /\ pointer' = [pointer EXCEPT !.retired = 0] /\ dirs[RetiredPlace] = NoDir
      BY <1>1, <1>9, <2>2 DEF ClearRetired, Goto, seenVars, CallOK, ThenOK, MaintainOK, Maintaining, TypeOK,
         CallTypes
    <3>2. Repeating(p)' => Repeating(p)
      BY <3>1 DEF Repeating, Maintaining
    <3> QED BY <1>1, <3>1, <3>2, MaintainedCut DEF Maintaining, TypeOK, DiskTypes
  <2> QED BY <2>1, <2>2
<1>10. CASE ReuseActive(p) \/ BindIndexed(p) \/ Confirm(p)
  BY <1>10, SealCut DEF ReuseActive, BindIndexed, Confirm, Deciding
<1>11. CASE \/ ReplaceActive(p) \/ AdoptOrphan(p) \/ UpgradeActive(p) \/ UpgradeCopied(p) \/ Copied(p)
            \/ NextIteration(p) \/ AdoptIteration(p) \/ Create(p) \/ Copy(p) \/ WriteTemporary(p) \/ Swap(p)
  <2>1. pc[p] \in Staged /\ pc'[p] \in {"create", "copy", "publish", "swap", "confirm"} /\ UNCHANGED <<lockVars, cut>>
    BY <1>1, <1>11 DEF ReplaceActive, AdoptOrphan, UpgradeActive, UpgradeCopied, Copied, NextIteration,
       AdoptIteration, Create, Copy, WriteTemporary, Swap, CopyFirst, Publish, Goto, Deciding, seenVars, Staged,
       TypeOK, CallTypes
  <2> QED BY <2>1, HeldIs, BusyCut DEF Repeating, Maintaining
<1>12. CASE RefuseReplaceable(p) \/ RefuseVersioned(p) \/ ConfirmFails(p) \/ EndUse(p) \/ Raise(p)
  BY <1>12, EndCut DEF RefuseReplaceable, RefuseVersioned, ConfirmFails, EndUse, Raise, Refuse
<1>13. CASE WriteEvidence(p)
  <2>1. job[p].kind = "write" /\ pc[p] = "use" /\ UNCHANGED <<job, lockVars, cut>> /\ p \in exclusive
    BY <1>1, <1>13 DEF WriteEvidence, CallOK, HoldOK
  <2> QED BY <2>1, BusyCut DEF Repeating
<1> QED
  BY DieCut, <1>2, <1>3, <1>4, <1>5, <1>6, <1>7, <1>8, <1>9, <1>10, <1>11, <1>12, <1>13
     DEF Step, Bind, Maintenance, Use

-----------------------------------------------------------------------------
(* Induction *)

LEMMA InitInv ==
    ASSUME RootAssumption, Init
    PROVE  RootInv
<1>1. TypeOK
  <2>1. DiskTypes
    <3>1. pointer \in Pointers
      BY EmptyTypes DEF Init
    <3>2. dirs \in [Places -> Leaf \cup {NoDir}] /\ planOf \in [Ids -> Plans \cup {NoPlan}]
      BY DEF Init
    <3>3. leftover \in BOOLEAN /\ fresh = 0
      BY DEF Init
    <3>4. MaxCalls \in Nat
      BY DEF RootAssumption
    <3>5. fresh \in 0 .. MaxCalls
      BY <3>3, <3>4
    <3> QED BY <3>1, <3>2, <3>3, <3>5 DEF DiskTypes
  <2>2. CallTypes
    <3>1. job \in [Procs -> Calls]
      BY EmptyTypes DEF Init
    <3> QED BY <3>1 DEF Init, CallTypes, Calls, Runs
  <2>3. LockTypes /\ NoteTypes
    BY DEF Init, RootAssumption, LockTypes, NoteTypes, NoCut
  <2> QED BY <2>1, <2>2, <2>3 DEF TypeOK
<1>2. \A p \in Procs : CallOK(p)
  BY DEF Init, NoJob, CallOK, JobOK, ThenOK, HoldOK, FoundOK, RunOK, MaintainOK, StageOK, Maintaining, Staged
<1>3. DirsOK /\ PlansOK
  <2>1. \A id \in Ids : ~(id <= fresh)
    BY DEF Init, Ids
  <2> QED BY <2>1 DEF Init, DirsOK, PlansOK
<1>4. PointerOK
  <2>1. pointer.kind = "none" /\ pointer.listed = <<>> /\ pointer.retired = 0
    BY DEF Init, NoPointer
  <2>2. \A n \in Ids : dirs[<<"iteration", n>>] = NoDir
    BY PlaceType DEF Init
  <2> QED BY <2>1, <2>2 DEF PointerOK, KindOK, ListedOK, LeavesOK, IterationsOK, ActiveVerified
<1>5. CountOK
  <2>1. Waiting = {}
    BY DEF Init, Waiting, Maintaining
  <2> QED BY <2>1, FS_EmptySet DEF Init, CountOK
<1>6. CutOK
  BY EmptyTypes DEF Init, CutOK
<1> QED BY <1>1, <1>2, <1>3, <1>4, <1>5, <1>6 DEF RootInv

LEMMA StutterInv ==
    ASSUME RootInv, UNCHANGED vars
    PROVE  RootInv'
<1>1. UNCHANGED <<diskVars, lockVars, seenVars, pc, job, run>>
  BY DEF vars
<1> USE <1>1
<1>2. TypeOK'
  BY DEF diskVars, lockVars, seenVars, RootInv, TypeOK, DiskTypes, LockTypes, CallTypes, NoteTypes
<1>3. \A p \in Procs : CallOK(p)'
  BY SameOK DEF lockVars, seenVars, RootInv
<1>4. DiskInv'
  BY SameDisk DEF diskVars, RootInv, DiskInv
<1>5. CountOK'
  BY DEF diskVars, seenVars, RootInv, CountOK, Waiting
<1>6. CutOK'
  <2>1. (CutAccepts => CutAccepts') /\ (RetiredWhole => RetiredWhole')
    BY SameAccepts DEF seenVars
  <2> QED BY <2>1 DEF lockVars, seenVars, RootInv, CutOK, Repeating, Untouched
<1> QED BY <1>2, <1>3, <1>4, <1>5, <1>6 DEF RootInv, DiskInv

LEMMA NextInv == RootAssumption /\ RootInv /\ [Next]_vars => RootInv'
<1> SUFFICES ASSUME RootAssumption, RootInv, [Next]_vars PROVE RootInv'
  OBVIOUS
<1>1. CASE UNCHANGED vars
  BY <1>1, StutterInv
<1>2. ASSUME NEW p \in Procs, Step(p)
      PROVE  RootInv'
  BY <1>2, StepType, StepCalls, StepDiskInv, StepCount, StepCut DEF RootInv, DiskInv
<1> QED BY <1>1, <1>2 DEF Next, Step

THEOREM RootCorrect == Spec => []RootInv
<1>1. Init => RootInv
  BY RootAssumption, InitInv
<1>2. RootInv /\ [Next]_vars => RootInv'
  BY RootAssumption, NextInv
<1> QED BY <1>1, <1>2, PTL DEF Spec

(* TypeOK: the pointer, the leaves, the lock and every call keep their form; *)
(* in particular one process at most holds the lock exclusively, and none    *)
(* then shares it.                                                           *)
THEOREM RootTypes == Spec => []TypeOK
<1>1. RootInv => TypeOK
  BY DEF RootInv
<1> QED BY <1>1, RootCorrect, PTL

(* After any step, also one that a process died in, workspace.json lists only *)
(* leaves that are there and identify themselves, and the active one does not *)
(* await its removal.                                                         *)
THEOREM RootListed == Spec => []ListedIntact
<1>1. RootInv => ListedIntact
  BY DEF RootInv, PointerOK, LeavesOK, ListedIntact
<1> QED BY <1>1, RootCorrect, PTL

(* A process that uses its Run looks at the leaf the Run was bound to, listed *)
(* and verified at the place it looks in, whatever the others have replaced,  *)
(* upgraded or removed since.                                                 *)
THEOREM RootRunsBound == Spec => []RunStaysBound
<1>1. RootInv => RunStaysBound
  <2> SUFFICES ASSUME RootInv, NEW p \in Procs, pc[p] = "use"
               PROVE  \E i \in DOMAIN pointer.listed :
                         /\ pointer.listed[i] = run[p].leaf
                         /\ PlaceIn(pointer, i) = run[p].place /\ Verified(run[p].place, run[p].leaf)
    BY DEF RunStaysBound
  <2>1. Bound(p) /\ ActiveVerified
    BY DEF RootInv, CallOK, RunOK, PointerOK
  <2>2. PICK i \in DOMAIN pointer.listed :
            pointer.listed[i] = run[p].leaf /\ PlaceIn(pointer, i) = run[p].place
    BY <2>1 DEF Bound
  <2>3. Verified(PlaceIn(pointer, i), pointer.listed[i])
    BY <2>1 DEF ActiveVerified
  <2> QED BY <2>2, <2>3
<1> QED BY <1>1, RootCorrect, PTL

-----------------------------------------------------------------------------
(* What a call reports *)

LEMMA MaintenanceKeeps ==
    ASSUME TypeOK, NEW p \in Procs, MayBeCleared(p)
    PROVE  pointer'.listed = pointer.listed /\ pointer'.kind = pointer.kind
BY DEF MayBeCleared, TypeOK, DiskTypes, Pointers

LEMMA EndReports ==
    ASSUME TypeOK, NEW p \in Procs, NEW how, End(p, how)
    PROVE  outcome'[p] = how
BY DEF End, TypeOK, NoteTypes

(* A call that gives up before its Plan is sealed has changed nothing; one   *)
(* that gives up after it has its Run.                                       *)
Reported(p) ==
    /\ outcome'[p] \in {"refused", "failed"} => pointer'.listed = found[p]
    /\ outcome'[p] = "sealed" =>
          run'[p].plan = job[p].plan /\ Contains(pointer'.listed, run'[p].leaf)
    /\ outcome'[p] = "indeterminate" => Contains(pointer'.listed, job[p].leaf)

LEMMA ListedContains ==
    ASSUME DiskTypes, NEW i \in DOMAIN pointer.listed
    PROVE  Contains(pointer.listed, pointer.listed[i])
<1>1. pointer.listed \in Seq(Ids)
  BY DEF DiskTypes, Pointers
<1>2. i \in 1 .. Len(pointer.listed)
  BY <1>1
<1> QED BY <1>2 DEF Contains

LEMMA FailsReports ==
    ASSUME RootInv, NEW p \in Procs, NEW how \in {"refused", "failed"}, Fails(p, how), UNCHANGED run,
           pointer'.listed = pointer.listed, pc[p] \notin {"idle", "lock", "confirm", "use"}
    PROVE  Reported(p)
<1>1. TypeOK /\ FoundOK(p) /\ RunOK(p) /\ ThenOK(p)
  BY DEF RootInv, CallOK
<1>2. CASE job[p].then = "idle"
  <2>1. outcome'[p] = "sealed"
    BY <1>1, <1>2, EndReports DEF Fails
  <2>2. pc[p] \in Maintaining
    <3>1. pc[p] \in {"look"} \cup Staged \cup Maintaining
      BY <1>1 DEF TypeOK, CallTypes, Labels, Staged, Maintaining
    <3> QED BY <1>1, <1>2, <3>1 DEF ThenOK
  <2>3. Bound(p) /\ run[p].plan = job[p].plan
    BY <1>1, <1>2, <2>2 DEF RunOK
  <2>4. Contains(pointer.listed, run[p].leaf)
    BY <1>1, <2>3, ListedContains DEF Bound, TypeOK
  <2> QED BY <2>1, <2>3, <2>4 DEF Reported
<1>3. CASE job[p].then # "idle"
  <2>1. outcome'[p] = how /\ pointer.listed = found[p]
    BY <1>1, <1>3, EndReports DEF Fails, FoundOK, Settled
  <2> QED BY <2>1 DEF Reported
<1> QED BY <1>2, <1>3

LEMMA SealReports ==
    ASSUME RootInv, NEW p \in Procs, pc[p] \in {"decide", "confirm"}, NEW i \in DOMAIN pointer.listed,
           Seal(p, i), UNCHANGED diskVars, outcome'[p] # outcome[p]
    PROVE  Reported(p)
<1>1. TypeOK
  BY DEF RootInv
<1>2. End(p, "sealed")
  BY DEF Seal, seenVars
<1>3. outcome'[p] = "sealed" /\ UNCHANGED pointer
  BY <1>1, <1>2, EndReports DEF diskVars
<1>4. run'[p].plan = job[p].plan /\ run'[p].leaf = pointer.listed[i]
  BY <1>1 DEF Seal, TypeOK, CallTypes
<1> QED BY <1>1, <1>3, <1>4, ListedContains DEF Reported, TypeOK

LEMMA StepReports ==
    ASSUME RootAssumption, RootInv, NEW p \in Procs, Step(p), outcome'[p] # outcome[p],
           outcome'[p] # "none"
    PROVE  Reported(p)
<1>1. TypeOK /\ CallOK(p)
  BY DEF RootInv
<1>2. CASE Call(p)
  BY <1>1, <1>2 DEF Call, TypeOK, NoteTypes, Reported
<1>3. CASE RecoverRoot(p) \/ OpenRoot(p) \/ FindRetired(p) \/ RefuseReplaceable(p) \/ RefuseVersioned(p)
  <2>1. Refuse(p) /\ UNCHANGED <<run, pointer>>
    BY <1>3 DEF RecoverRoot, OpenRoot, FindRetired, RefuseReplaceable, RefuseVersioned, Deciding, diskVars,
       seenVars
  <2>2. pc[p] \notin {"idle", "lock", "confirm", "use"}
    BY <1>3 DEF RecoverRoot, OpenRoot, FindRetired, RefuseReplaceable, RefuseVersioned, Deciding
  <2> QED BY <2>1, <2>2, FailsReports DEF Refuse
<1>4. CASE EnterRun(p)
  <2>1. Refuse(p) /\ UNCHANGED <<run, pointer>>
    BY <1>4 DEF EnterRun, diskVars, seenVars
  <2>2. pc[p] = "look"
    BY <1>4 DEF EnterRun
  <2> QED BY <2>1, <2>2, FailsReports DEF Refuse
<1>5. CASE ReuseActive(p)
  <2>1. pointer.kind # "none" /\ pc[p] = "decide" /\ UNCHANGED diskVars /\ Seal(p, 1)
    BY <1>5 DEF ReuseActive, Deciding
  <2>2. 1 \in DOMAIN pointer.listed
    BY <2>1, ActiveIs DEF RootInv, TypeOK, PointerOK
  <2> QED BY <2>1, <2>2, SealReports
<1>6. CASE BindIndexed(p) \/ Confirm(p)
  BY <1>6, SealReports DEF BindIndexed, Confirm, Deciding, IndexOf
<1>7. CASE ConfirmFails(p)
  <2>1. outcome'[p] = "indeterminate" /\ UNCHANGED pointer
    BY <1>1, <1>7, EndReports DEF ConfirmFails, CommitIndeterminate, diskVars
  <2>2. Contains(pointer.listed, job[p].leaf)
    BY <1>1, <1>7 DEF ConfirmFails, CallOK, StageOK, ConfirmOK
  <2> QED BY <2>1, <2>2 DEF Reported
<1>8. CASE ClearRetired(p)
  <2>1. End(p, "sealed") /\ job[p].then = "idle" /\ pc[p] \in Maintaining /\ UNCHANGED run
    BY <1>8 DEF ClearRetired, seenVars, Maintaining
  <2>2. outcome'[p] = "sealed" /\ Bound(p) /\ run[p].plan = job[p].plan
    BY <1>1, <2>1, EndReports DEF CallOK, RunOK
  <2>3. pointer'.listed = pointer.listed
    BY <1>1, <1>8 DEF ClearRetired, TypeOK, DiskTypes, Pointers
  <2>4. Contains(pointer.listed, run[p].leaf)
    BY <1>1, <2>2, ListedContains DEF Bound, TypeOK
  <2> QED BY <2>1, <2>2, <2>3, <2>4 DEF Reported
<1>9. CASE EndUse(p)
  <2>1. outcome'[p] = "done"
    BY <1>1, <1>9, EndReports DEF EndUse
  <2> QED BY <2>1 DEF Reported
<1>10. CASE Raise(p)
  <2>1. pc[p] \notin {"idle", "lock", "confirm", "use"}
    <3>1. "idle" \notin FailAt
      BY DEF RootAssumption, Labels
    <3> QED BY <1>10, <3>1 DEF Raise
  <2>2. Fails(p, "failed") /\ UNCHANGED run /\ pointer'.listed = pointer.listed
    BY <1>1, <1>10, MaintenanceKeeps DEF Raise
  <2> QED BY <2>1, <2>2, FailsReports
<1>11. CASE UNCHANGED outcome
  BY <1>11
<1>12. CASE \/ Lock(p) \/ ReplaceActive(p) \/ AdoptOrphan(p) \/ UpgradeActive(p) \/ UpgradeCopied(p)
            \/ NextIteration(p) \/ AdoptIteration(p) \/ Create(p) \/ Copy(p) \/ Copied(p)
            \/ WriteTemporary(p) \/ Swap(p) \/ Unlink(p) \/ RemoveRetired(p) \/ WriteEvidence(p) \/ Die(p)
  <2>1. UNCHANGED outcome
    BY <1>12 DEF Lock, ReplaceActive, AdoptOrphan, UpgradeActive, UpgradeCopied, NextIteration,
       AdoptIteration, Create, Copy, Copied, WriteTemporary, Swap, Unlink, RemoveRetired, WriteEvidence, Die,
       seenVars
  <2> QED BY <2>1
<1> QED
  BY <1>2, <1>3, <1>4, <1>5, <1>6, <1>7, <1>8, <1>9, <1>10, <1>12 DEF Step, Bind, Maintenance, Use

(* A call that refuses or fails leaves the topology it found when it took    *)
(* the lock; a sealed Plan, confirmed or not, has its leaf listed.           *)
THEOREM RootTruthful == Spec => OutcomeTruthful
<1>1. RootInv /\ [Next]_vars =>
         [\A p \in Procs : outcome'[p] # outcome[p] =>
             /\ outcome'[p] \in {"refused", "failed"} => pointer'.listed = found[p]
             /\ outcome'[p] = "sealed" =>
                   run'[p].plan = job[p].plan /\ Contains(pointer'.listed, run'[p].leaf)
             /\ outcome'[p] = "indeterminate" => Contains(pointer'.listed, job[p].leaf)]_vars
  <2> SUFFICES ASSUME RootInv, Next, NEW p \in Procs, outcome'[p] # outcome[p]
               PROVE  Reported(p)
    BY DEF Reported
  <2>1. PICK q \in Procs : Step(q)
    BY DEF Next, Step
  <2>2. Others(q)
    BY <2>1, StepOthers DEF RootInv
  <2>3. p = q
    BY <2>2 DEF Others
  <2>4. CASE outcome'[p] = "none"
    BY <2>4 DEF Reported
  <2>5. CASE outcome'[p] # "none"
    BY <2>1, <2>3, <2>5, StepReports, RootAssumption
  <2> QED BY <2>4, <2>5
<1> QED BY <1>1, RootCorrect, PTL DEF Spec, OutcomeTruthful

-----------------------------------------------------------------------------
(* Repeating a call that was cut off *)

LEMMA RepeatedAccepts ==
    ASSUME RootInv, NEW p \in Procs, pc[p] \in {"look", "decide"} \cup Maintaining,
           job[p].kind = "bind", job[p].then # "idle", cut.at \in Repeatable,
           cut.plan = job[p].plan, cut.versioned = job[p].versioned
    PROVE  CutAccepts /\ (Untouched(p) => RetiredWhole)
<1>1. HoldOK(p) /\ CutOK
  BY DEF RootInv, CallOK
<1>2. p \in exclusive
  BY <1>1 DEF HoldOK, Maintaining
<1>3. Repeating(p)
  BY DEF Repeating
<1> QED BY <1>1, <1>2, <1>3 DEF CutOK

(* Where a call is refused. *)
LEMMA StepRefuses ==
    ASSUME TypeOK, NEW p \in Procs, Step(p), job[p].kind = "bind",
           outcome'[p] # outcome[p], outcome'[p] = "refused"
    PROVE  Refuse(p) /\ (RecoverRoot(p) \/ OpenRoot(p) \/ FindRetired(p) \/ RefuseReplaceable(p) \/ RefuseVersioned(p))
<1>1. CASE RecoverRoot(p) \/ OpenRoot(p) \/ FindRetired(p) \/ RefuseReplaceable(p) \/ RefuseVersioned(p)
  BY <1>1 DEF RecoverRoot, OpenRoot, FindRetired, RefuseReplaceable, RefuseVersioned, seenVars
<1>2. ASSUME NEW i, Seal(p, i)
      PROVE  FALSE
  BY <1>2, EndReports DEF Seal, seenVars
<1>3. CASE ReuseActive(p) \/ BindIndexed(p) \/ Confirm(p)
  BY <1>2, <1>3 DEF ReuseActive, BindIndexed, Confirm
<1>4. CASE ConfirmFails(p) \/ ClearRetired(p) \/ EndUse(p)
  BY <1>4, EndReports DEF ConfirmFails, CommitIndeterminate, ClearRetired, EndUse, seenVars
<1>5. CASE Raise(p)
  BY <1>5, EndReports DEF Raise, Fails
<1>6. CASE Call(p) \/ EnterRun(p)
  BY <1>6 DEF Call, EnterRun, TypeOK, NoteTypes
<1>7. CASE \/ Lock(p) \/ ReplaceActive(p) \/ AdoptOrphan(p) \/ UpgradeActive(p) \/ UpgradeCopied(p)
           \/ NextIteration(p) \/ AdoptIteration(p) \/ Create(p) \/ Copy(p) \/ Copied(p)
           \/ WriteTemporary(p) \/ Swap(p) \/ Unlink(p) \/ RemoveRetired(p) \/ WriteEvidence(p) \/ Die(p)
  BY <1>7 DEF Lock, ReplaceActive, AdoptOrphan, UpgradeActive, UpgradeCopied, NextIteration,
     AdoptIteration, Create, Copy, Copied, WriteTemporary, Swap, Unlink, RemoveRetired, WriteEvidence, Die,
     seenVars
<1> QED
  BY <1>1, <1>3, <1>4, <1>5, <1>6, <1>7 DEF Step, Bind, Maintenance, Use

(* Where a Run is refused. *)
LEMMA RunRefuses ==
    ASSUME RootInv, NEW p \in Procs, Step(p), job[p].kind \in {"write", "read"},
           outcome'[p] # outcome[p], outcome'[p] = "refused"
    PROVE  Refuse(p) /\ (EnterRun(p) \/ FindRetired(p))
<1>1. TypeOK /\ JobOK(p) /\ pc[p] \notin Staged
  BY DEF RootInv, CallOK, JobOK
<1>2. CASE EnterRun(p) \/ FindRetired(p)
  BY <1>2 DEF EnterRun, FindRetired, seenVars
<1>3. CASE ClearRetired(p) \/ EndUse(p)
  BY <1>1, <1>3, EndReports DEF ClearRetired, EndUse, seenVars
<1>4. CASE Raise(p)
  BY <1>1, <1>4, EndReports DEF Raise, Fails
<1>5. CASE Call(p)
  BY <1>1, <1>5 DEF Call, TypeOK, NoteTypes
<1>6. CASE Lock(p) \/ Unlink(p) \/ RemoveRetired(p) \/ WriteEvidence(p) \/ Die(p)
  BY <1>6 DEF Lock, Unlink, RemoveRetired, WriteEvidence, Die, seenVars
<1>7. CASE Bind(p)
  BY <1>1, <1>7 DEF Bind, RecoverRoot, OpenRoot, ReuseActive, ReplaceActive, AdoptOrphan, UpgradeActive,
     UpgradeCopied, RefuseReplaceable, BindIndexed, NextIteration, AdoptIteration, RefuseVersioned, Create,
     Copy, Copied, WriteTemporary, Swap, Confirm, ConfirmFails, Deciding, Staged
<1> QED
  BY <1>2, <1>3, <1>4, <1>5, <1>6, <1>7 DEF Step, Maintenance, Use

LEMMA RunRefused ==
    ASSUME RootInv, NEW p \in Procs, Step(p), job[p].kind \in {"write", "read"},
           outcome'[p] # outcome[p], outcome'[p] = "refused"
    PROVE  ~Contains(pointer.listed, run[p].leaf) \/ (job[p].kind = "write" /\ HalfRemoved)
<1>1. TypeOK /\ CallOK(p) /\ PointerOK /\ DirsOK
  BY DEF RootInv
<1>2. /\ Refuse(p) /\ pc'[p] = "idle"
      /\ EnterRun(p) \/ FindRetired(p)
  BY <1>1, RunRefuses DEF Refuse, Fails, End, Goto, TypeOK, CallTypes
<1>3. CASE EnterRun(p)
  <2> SUFFICES ASSUME Contains(pointer.listed, run[p].leaf) PROVE FALSE
    BY DEF HalfRemoved
  <2>1. PICK i \in DOMAIN pointer.listed : pointer.listed[i] = run[p].leaf
    <3>1. pointer.listed \in Seq(Ids)
      BY <1>1 DEF TypeOK, DiskTypes, Pointers
    <3> QED BY <3>1 DEF Contains
  <2>2. i \in OwnIndex(p) /\ Verified(PlaceIn(pointer, i), pointer.listed[i]) /\ ActiveVerified
    BY <1>1, <2>1 DEF OwnIndex, PointerOK, ActiveVerified
  <2>3. \/ Goto(p, "use")
        \/ Maintain(p, "use")
    BY <1>3, <2>2 DEF EnterRun
  <2> QED BY <1>1, <1>2, <2>3 DEF Maintain, Goto, TypeOK, CallTypes
<1>4. CASE FindRetired(p)
  <2>1. pc[p] = "maintain" /\ pointer.retired # 0 /\ job[p].kind = "write"
    BY <1>1, <1>4 DEF FindRetired, CallOK, JobOK, MaintainOK, Maintaining
  <2>2. ~(pointer.kind = "replaceable" /\ pointer.retired = Active)
    BY <1>1 DEF PointerOK, LeavesOK
  <2>3. dirs[RetiredPlace] # NoDir /\ ~Verified(RetiredPlace, pointer.retired)
    BY <1>1, <1>2, <1>4, <2>2 DEF FindRetired, Goto, TypeOK, CallTypes
  <2>4. dirs[RetiredPlace].id = pointer.retired
    <3>1. pointer.retired \in Ids
      BY <1>1, <2>1 DEF TypeOK, DiskTypes, Pointers
    <3>2. RetiredPlace \in Places /\ RetiredPlace[1] = "leaves" /\ RetiredPlace[2] = pointer.retired
      BY <3>1, PlaceType DEF RetiredPlace
    <3> QED BY <1>1, <2>3, <3>2 DEF DirsOK
  <2> QED BY <2>1, <2>3, <2>4 DEF HalfRemoved, Verified, Named
<1> QED BY <1>2, <1>3, <1>4

LEMMA StepAccepted ==
    ASSUME RootAssumption, RootInv, NEW p \in Procs, Step(p), job[p].kind = "bind",
           cut.at \in Repeatable, cut.plan = job[p].plan, cut.versioned = job[p].versioned,
           outcome'[p] # outcome[p]
    PROVE  outcome'[p] # "refused"
<1> SUFFICES ASSUME outcome'[p] = "refused" PROVE FALSE
  OBVIOUS
<1>1. TypeOK /\ CallOK(p) /\ PointerOK
  BY DEF RootInv
<1>2. /\ Refuse(p)
      /\ RecoverRoot(p) \/ OpenRoot(p) \/ FindRetired(p) \/ RefuseReplaceable(p) \/ RefuseVersioned(p)
  BY <1>1, StepRefuses
<1>3. job[p].then # "idle"
  BY <1>1, <1>2, EndReports DEF Refuse, Fails
<1>4. CASE RecoverRoot(p)
  <2>1. CutAccepts /\ pointer.kind = "none" /\ pc[p] = "look"
    BY <1>3, <1>4, RepeatedAccepts DEF RecoverRoot
  <2>2. pc'[p] = "idle"
    BY <1>1, <1>2 DEF Refuse, Fails, End, Goto, TypeOK, CallTypes
  <2>3. ~(~leftover /\ \A place \in Places : dirs[place] = NoDir)
    BY <1>1, <1>4, <2>2 DEF RecoverRoot, Goto, TypeOK, CallTypes
  <2>4. ~(~leftover /\ \E place \in Places : Recoverable(place, job[p].plan, job[p].versioned))
    BY <1>1, <1>4, <2>2, <2>3 DEF RecoverRoot, Publish, Goto, TypeOK, CallTypes
  <2> QED BY <2>1, <2>3, <2>4 DEF CutAccepts, Accepts, NothingThere
<1>5. CASE OpenRoot(p)
  <2>1. ActiveVerified /\ pc'[p] = "idle"
    BY <1>1, <1>2 DEF PointerOK, Refuse, Fails, End, Goto, TypeOK, CallTypes
  <2> QED BY <1>1, <1>5, <2>1 DEF OpenRoot, Maintain, Goto, TypeOK, CallTypes
<1>6. CASE FindRetired(p)
  <2>1. pc[p] = "maintain" /\ pc'[p] = "idle" /\ pointer.retired # 0
    BY <1>1, <1>2, <1>6 DEF FindRetired, CallOK, MaintainOK, Maintaining, Refuse, Fails, End, Goto, TypeOK,
       CallTypes
  <2>2. RetiredWhole
    BY <1>3, <2>1, RepeatedAccepts DEF Untouched, Maintaining
  <2>3. ~(pointer.kind = "replaceable" /\ pointer.retired = Active)
    BY <1>1 DEF PointerOK, LeavesOK
  <2> QED BY <1>1, <1>6, <2>1, <2>2, <2>3 DEF FindRetired, RetiredWhole, Goto, TypeOK, CallTypes
<1>7. CASE RefuseReplaceable(p)
  <2>1. pc[p] = "decide" /\ pointer.kind = "replaceable" /\ pointer.retired = 0
    BY <1>1, <1>7 DEF RefuseReplaceable, Deciding, CallOK, StageOK
  <2>2. CutAccepts /\ job[p].versioned \in BOOLEAN
    BY <1>1, <1>3, <2>1, RepeatedAccepts DEF TypeOK, CallTypes
  <2>3. Unbound \subseteq Ids /\ 0 \notin Ids
    BY DEF Unbound, Ids
  <2>4. Unbound \ {pointer.retired} = Unbound /\ (Unbound \subseteq {pointer.retired} => Unbound = {})
    BY <2>1, <2>3
  <2>5. CASE job[p].versioned
    <3>1. Iteration1 \in Places
      <4>1. Active \in Ids /\ MaxCalls \in Nat
        BY <1>1, <2>1, ActiveIs DEF TypeOK, PointerOK, RootAssumption
      <4>2. 1 \in Ids
        BY <4>1 DEF Ids
      <4> QED BY <4>2, PlaceType DEF Iteration1
    <3>2. Unbound = {} /\ (dirs[Iteration1] = NoDir \/ Verified(Iteration1, Active))
      BY <2>1, <2>2, <2>4, <2>5, <3>1 DEF CutAccepts, Accepts
    <3> QED BY <1>7, <2>5, <3>2 DEF RefuseReplaceable
  <2>6. CASE ~job[p].versioned
    BY <1>7, <2>1, <2>2, <2>4, <2>6 DEF RefuseReplaceable, CutAccepts, Accepts
  <2> QED BY <2>2, <2>5, <2>6
<1>8. CASE RefuseVersioned(p)
  <2>1. pc[p] = "decide" /\ pointer.kind = "versioned"
    BY <1>8 DEF RefuseVersioned, Deciding
  <2>2. CutAccepts
    BY <1>3, <2>1, RepeatedAccepts
  <2>3. NextPlace \in Places
    BY <2>1, Room DEF Waiting
  <2> QED BY <1>8, <2>1, <2>2, <2>3 DEF RefuseVersioned, CutAccepts, Accepts
<1> QED BY <1>2, <1>4, <1>5, <1>6, <1>7, <1>8

(* A bind that died between creating a leaf and confirming its pointer can be *)
(* repeated: the next call with the same arguments is not refused, whatever   *)
(* was left behind.                                                           *)
THEOREM RootRetries == Spec => RetryAccepted
<1>1. RootInv /\ [Next]_vars =>
         [\A p \in Procs :
             /\ job[p].kind = "bind"
             /\ cut.at \in {"create", "publish", "confirm"}
             /\ cut.plan = job[p].plan /\ cut.versioned = job[p].versioned
             => ~(outcome[p] # outcome'[p] /\ outcome'[p] = "refused")]_vars
  <2> SUFFICES ASSUME RootInv, Next, NEW p \in Procs, job[p].kind = "bind", cut.at \in Repeatable,
                      cut.plan = job[p].plan, cut.versioned = job[p].versioned, outcome'[p] # outcome[p]
               PROVE  outcome'[p] # "refused"
    BY DEF Repeatable
  <2>1. PICK q \in Procs : Step(q)
    BY DEF Next, Step
  <2>2. p = q
    BY <2>1, StepOthers DEF RootInv, Others
  <2> QED BY <2>1, <2>2, StepAccepted, RootAssumption
<1> QED BY <1>1, RootCorrect, PTL DEF Spec, RetryAccepted

(* A Run is refused only when its leaf is not listed any more; a writer's also *)
(* when a removal of another leaf was cut half way, which it tries again.      *)
THEOREM RootRefusals == Spec => RunRefusedForCause
<1>1. RootInv /\ [Next]_vars =>
         [\A p \in Procs :
             job[p].kind \in {"write", "read"} /\ outcome[p] # outcome'[p] /\ outcome'[p] = "refused" =>
                \/ ~Contains(pointer.listed, run[p].leaf)
                \/ job[p].kind = "write" /\ HalfRemoved]_vars
  <2> SUFFICES ASSUME RootInv, Next, NEW p \in Procs, job[p].kind \in {"write", "read"},
                      outcome'[p] # outcome[p], outcome'[p] = "refused"
               PROVE  ~Contains(pointer.listed, run[p].leaf) \/ (job[p].kind = "write" /\ HalfRemoved)
    OBVIOUS
  <2>1. PICK q \in Procs : Step(q)
    BY DEF Next, Step
  <2>2. p = q
    BY <2>1, StepOthers DEF RootInv, Others
  <2> QED BY <2>1, <2>2, RunRefused
<1> QED BY <1>1, RootCorrect, PTL DEF Spec, RunRefusedForCause

-----------------------------------------------------------------------------
(* The root implements a history of topologies *)

LEMMA TopologiesAre ==
    ASSUME DiskTypes
    PROVE  /\ DOMAIN Topologies = DOMAIN pointer.listed
           /\ \A i \in DOMAIN pointer.listed :
                 /\ Topologies[i].leaf = pointer.listed[i]
                 /\ Topologies[i].plan = planOf[pointer.listed[i]]
           /\ Topologies = [i \in 1 .. Len(pointer.listed) |-> Topologies[i]]
<1>1. DOMAIN pointer.listed = 1 .. Len(pointer.listed)
  BY DEF DiskTypes, Pointers
<1> QED BY <1>1 DEF Topologies

(* Plans of leaves that have been created do not change. *)
LEMMA StepKeeps ==
    ASSUME RootAssumption, RootInv, NEW p \in Procs, Step(p), ~Swap(p)
    PROVE  UNCHANGED <<pointer.kind, Topologies>>
<1>1. TypeOK /\ ListedOK
  BY DEF RootInv, PointerOK
<1>2. pointer'.kind = pointer.kind /\ pointer'.listed = pointer.listed
  <2>1. CASE ClearRetired(p)
    BY <1>1, <2>1 DEF ClearRetired, TypeOK, DiskTypes, Pointers
  <2>2. CASE Raise(p) \/ Die(p)
    BY <1>1, <2>2, MaintenanceKeeps DEF Raise, Die
  <2>3. CASE ~(ClearRetired(p) \/ Raise(p) \/ Die(p))
    <3>1. UNCHANGED pointer
      BY <2>3 DEF Step, Bind, Maintenance, Use, Call, Lock, RecoverRoot, OpenRoot, ReuseActive, ReplaceActive,
         AdoptOrphan, UpgradeActive, UpgradeCopied, RefuseReplaceable, BindIndexed, NextIteration,
         AdoptIteration, RefuseVersioned, Create, Copy, Copied, WriteTemporary, Confirm, ConfirmFails,
         FindRetired, Unlink, RemoveRetired, EnterRun, WriteEvidence, EndUse, Deciding, diskVars
    <3> QED BY <3>1
  <2> QED BY <2>1, <2>2, <2>3
<1>3. \A i \in DOMAIN pointer.listed : planOf'[pointer.listed[i]] = planOf[pointer.listed[i]]
  <2>1. CASE Create(p)
    <3>1. planOf' = [planOf EXCEPT ![fresh + 1] = job[p].plan]
      BY <2>1 DEF Create
    <3>2. \A i \in DOMAIN pointer.listed : pointer.listed[i] \in Ids /\ pointer.listed[i] # fresh + 1
      BY <1>1, ListedType DEF ListedOK, TypeOK, DiskTypes, Ids
    <3> QED BY <1>1, <3>1, <3>2 DEF TypeOK, DiskTypes
  <2>2. CASE ~Create(p)
    <3>1. UNCHANGED planOf
      BY <2>2 DEF Step, Bind, Maintenance, Use, Call, Lock, RecoverRoot, OpenRoot, ReuseActive, ReplaceActive,
         AdoptOrphan, UpgradeActive, UpgradeCopied, RefuseReplaceable, BindIndexed, NextIteration,
         AdoptIteration, RefuseVersioned, Copy, Copied, WriteTemporary, Swap, Confirm, ConfirmFails,
         FindRetired, Unlink, RemoveRetired, ClearRetired, EnterRun, WriteEvidence, EndUse, Raise, Die,
         Deciding, diskVars
    <3> QED BY <3>1
  <2> QED BY <2>1, <2>2
<1>4. Topologies' = Topologies
  BY <1>2, <1>3 DEF Topologies
<1> QED BY <1>2, <1>4

LEMMA SwapRefines ==
    ASSUME RootAssumption, RootInv, NEW p \in Procs, Swap(p)
    PROVE  History!HistoryNext
<1>1. /\ TypeOK /\ PointerOK /\ NextOK(p) /\ pointer' = job[p].next /\ UNCHANGED <<dirs, planOf>>
      /\ DirsOK /\ PlansOK
  BY SwapIs DEF RootInv
<1>2. job[p].leaf \in Ids /\ pointer' \in Pointers
  BY <1>1, NextType DEF PointerOK
<1>3. DiskTypes /\ DiskTypes'
  BY <1>1, <1>2 DEF Swap, TypeOK, DiskTypes
<1> DEFINE top == [leaf |-> job[p].leaf, plan |-> planOf[job[p].leaf]]
<1>4. CASE FirstNext(p)
  <2>1. /\ pointer'.kind \in {"replaceable", "versioned"} /\ pointer'.listed = <<job[p].leaf>>
        /\ pointer.kind = "none"
    BY <1>1, <1>4 DEF FirstNext, FirstPointer, Pointer
  <2>2. planOf[job[p].leaf] \in Plans
    BY <1>1, <1>2, <1>4, FirstIs DEF PlansOK
  <2>3. Topologies' = <<top>>
    BY <1>1, <2>1 DEF Topologies
  <2>4. top \in History!Topology
    BY <1>2, <2>2 DEF History!Topology
  <2>5. History!Found
    BY <2>1, <2>3, <2>4 DEF History!Found
  <2> QED BY <2>5 DEF History!HistoryNext
<1>5. CASE ReplaceNext(p)
  <2>1. pointer'.kind = "replaceable" /\ pointer'.listed = <<job[p].leaf>> /\ pointer.kind = "replaceable"
    BY <1>1, <1>5 DEF ReplaceNext, ReplacedBy, Pointer
  <2>2. /\ dirs[<<"leaves", job[p].leaf>>] # NoDir /\ dirs[<<"leaves", job[p].leaf>>].id = job[p].leaf
        /\ planOf[dirs[<<"leaves", job[p].leaf>>].id] = job[p].plan /\ job[p].leaf # Active
        /\ dirs[<<"leaves", job[p].leaf>>].id <= fresh
    BY <1>1, <1>2, <1>5, PlaceType DEF ReplaceNext, Matches, Named, Unbound, DirsOK
  <2>3. planOf[job[p].leaf] = job[p].plan /\ job[p].plan \in Plans /\ job[p].plan # planOf[Active]
    BY <1>1, <1>2, <1>5, <2>2 DEF ReplaceNext, PlansOK
  <2>4. 1 \in DOMAIN pointer.listed /\ Active \in Ids
    BY <1>1, <1>3, <2>1, ActiveIs DEF PointerOK
  <2>5. job[p].leaf > Active
    <3>1. Unbound = {job[p].leaf} /\ pointer.retired = 0
      BY <1>5, SwapIs DEF ReplaceNext
    <3>2. job[p].leaf >= Active
      BY <1>1, <1>2, <2>1, <2>2, <3>1 DEF PointerOK, LeavesOK, Ids
    <3> QED BY <1>2, <2>2, <2>4, <3>2 DEF Ids
  <2>6. Topologies[1].leaf = Active /\ Topologies[1].plan = planOf[Active]
    BY <1>3, <2>4, TopologiesAre DEF Active
  <2>7. Topologies' = <<top>> /\ top \in History!Topology
    BY <1>1, <1>2, <2>1, <2>3 DEF Topologies, History!Topology
  <2>8. History!Replace
    BY <2>1, <2>3, <2>5, <2>6, <2>7 DEF History!Replace
  <2> QED BY <2>8 DEF History!HistoryNext
<1>6. CASE UpgradeNext(p)
  <2>1. pointer'.kind = "versioned" /\ pointer'.listed = <<Active>> /\ pointer.kind = "replaceable"
    BY <1>1, <1>6 DEF UpgradeNext, Upgraded, Pointer
  <2>2. pointer.listed = <<Active>>
    <3>1. pointer.listed \in Seq(Ids) /\ Len(pointer.listed) = 1
      BY <1>1, <1>3, <2>1 DEF DiskTypes, Pointers, PointerOK, KindOK
    <3> QED BY <3>1 DEF Active
  <2>3. Topologies' = Topologies
    BY <1>1, <2>1, <2>2 DEF Topologies
  <2> QED BY <2>1, <2>3 DEF History!HistoryNext, History!Upgrade
<1>7. CASE AppendNext(p)
  <2>1. /\ pointer'.kind = "versioned" /\ pointer'.listed = Append(pointer.listed, job[p].leaf)
        /\ pointer.kind = "versioned"
    BY <1>1, <1>7 DEF AppendNext, Appended, Pointer
  <2>2. PICK place \in Places : place = NextPlace /\ Matches(place, job[p].plan) /\ dirs[place].id = job[p].leaf
    BY <1>7 DEF AppendNext
  <2>3. /\ dirs[place] # NoDir /\ planOf[job[p].leaf] = job[p].plan /\ job[p].leaf <= fresh
    BY <1>1, <2>2 DEF Matches, Named, DirsOK
  <2>4. planOf[job[p].leaf] \in Plans
    BY <1>1, <1>2, <2>3 DEF PlansOK
  <2>5. \A i \in DOMAIN pointer.listed :
            pointer.listed[i] < job[p].leaf /\ planOf[pointer.listed[i]] # planOf[job[p].leaf]
    <3>1. Len(pointer.listed) + 1 \in Ids /\ place = <<"iteration", Len(pointer.listed) + 1>>
      BY <2>2 DEF NextPlace, Places
    <3> QED BY <1>1, <2>1, <2>2, <2>3, <3>1 DEF PointerOK, IterationsOK
  <2>6. top \in History!Topology
    BY <1>2, <2>4 DEF History!Topology
  <2>7. Topologies' = Append(Topologies, top)
    <3>1. pointer.listed \in Seq(Ids)
      BY <1>3 DEF DiskTypes, Pointers
    <3>2. PICK n \in Nat : n = Len(pointer.listed) /\ DOMAIN pointer.listed = 1 .. n
      BY <3>1
    <3> DEFINE AnyTopology == [leaf : Ids, plan : Plans \cup {NoPlan}]
    <3>3. Topologies = [i \in 1 .. n |-> [leaf |-> pointer.listed[i], plan |-> planOf[pointer.listed[i]]]]
      BY <3>2 DEF Topologies
    <3>4. \A i \in 1 .. n : [leaf |-> pointer.listed[i], plan |-> planOf[pointer.listed[i]]] \in AnyTopology
      BY <1>3, <3>2, ListedType DEF DiskTypes
    <3>5. Topologies \in Seq(AnyTopology) /\ Len(Topologies) = n
      <4>1. Topologies \in [1 .. n -> AnyTopology]
        BY <3>3, <3>4
      <4> HIDE DEF AnyTopology
      <4> QED BY <3>2, <4>1
    <3>6. top \in AnyTopology
      BY <1>2, <2>4
    <3>7. DOMAIN pointer'.listed = 1 .. n + 1 /\ pointer'.listed[n + 1] = job[p].leaf
          /\ \A i \in 1 .. n : pointer'.listed[i] = pointer.listed[i]
      BY <1>2, <2>1, <3>1, <3>2
    <3>8. Topologies' = [i \in 1 .. n + 1 |-> IF i <= n THEN Topologies[i] ELSE top]
      BY <1>1, <3>2, <3>3, <3>7 DEF Topologies
    <3>9. Append(Topologies, top) \in Seq(AnyTopology) /\ Len(Append(Topologies, top)) = n + 1
          /\ \A i \in 1 .. n + 1 : Append(Topologies, top)[i] = IF i <= n THEN Topologies[i] ELSE top
      BY <3>2, <3>5, <3>6, AppendProperties
    <3>10. Topologies' \in Seq(AnyTopology) /\ Len(Topologies') = n + 1
      BY <3>2, <3>3, <3>4, <3>6, <3>8
    <3> QED BY <3>8, <3>9, <3>10, SeqEqual
  <2>8. \A i \in DOMAIN Topologies : top.leaf > Topologies[i].leaf /\ top.plan # Topologies[i].plan
    BY <1>2, <1>3, <2>5, TopologiesAre, ListedType DEF Ids
  <2> QED BY <2>1, <2>6, <2>7, <2>8 DEF History!HistoryNext, History!Extend
<1> QED BY <1>1, <1>4, <1>5, <1>6, <1>7 DEF NextOK

LEMMA NextRefines == RootAssumption /\ RootInv /\ [Next]_vars => [History!HistoryNext]_(History!history)
<1> SUFFICES ASSUME RootAssumption, RootInv, [Next]_vars PROVE [History!HistoryNext]_(History!history)
  OBVIOUS
<1>1. CASE UNCHANGED vars
  BY <1>1 DEF vars, diskVars, History!history, Topologies
<1>2. ASSUME NEW p \in Procs, Step(p)
      PROVE  [History!HistoryNext]_(History!history)
  <2>1. CASE Swap(p)
    BY <2>1, SwapRefines
  <2>2. CASE ~Swap(p)
    BY <1>2, <2>2, StepKeeps DEF History!history
  <2> QED BY <2>1, <2>2
<1> QED BY <1>1, <1>2 DEF Next, Step

LEMMA InitRefines == Init => History!HistoryInit
BY DEF Init, NoPointer, History!HistoryInit, Topologies

(* Leaves, orphans, copies, pointers and crashes together are a history of   *)
(* topologies: one replaced by a younger one of another Plan, or a sequence   *)
(* that only grows, each Plan once; every other step of a call is a stutter.  *)
THEOREM RootRefines == Spec => ImplementsHistory
<1>1. Init => History!HistoryInit
  BY InitRefines
<1>2. RootInv /\ [Next]_vars => [History!HistoryNext]_(History!history)
  BY RootAssumption, NextRefines
<1> QED BY <1>1, <1>2, RootCorrect, PTL DEF Spec, ImplementsHistory, History!HistorySpec
=============================================================================
