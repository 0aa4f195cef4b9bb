----------------------- MODULE WorkspaceRootProperties -----------------------
(* What a workspace root must guarantee, over the states of WorkspaceRoot. *)
EXTENDS WorkspaceRoot

Leaf == [id : Ids, named : BOOLEAN, evidence : BOOLEAN]

Pointers == [kind : {"none", "replaceable", "versioned"}, listed : Seq(Ids), retired : {0} \cup Ids]

DiskTypes ==
    /\ pointer \in Pointers
    /\ dirs \in [Places -> Leaf \cup {NoDir}]
    /\ leftover \in BOOLEAN
    /\ planOf \in [Ids -> Plans \cup {NoPlan}]
    /\ fresh \in 0 .. MaxCalls

LockTypes ==
    /\ exclusive \subseteq Procs /\ \A p, q \in exclusive : p = q
    /\ shared \subseteq Procs /\ (exclusive = {} \/ shared = {})

CallTypes ==
    /\ pc \in [Procs -> Labels \cup {"idle"}]
    /\ job \in [Procs -> [kind : {"none", "bind", "write", "read"}, plan : Plans \cup {NoPlan},
                          versioned : BOOLEAN, next : Pointers, leaf : {0} \cup Ids,
                          then : {"look", "decide", "use", "idle"}]]
    /\ run \in [Procs -> [leaf : Ids, place : Places, plan : Plans] \cup {NoRun}]

NoteTypes ==
    /\ outcome \in [Procs -> {"none", "sealed", "indeterminate", "refused", "failed", "done"}]
    /\ found \in [Procs -> Seq(Ids)]
    /\ written \subseteq Ids
    /\ cut \in [plan : Plans \cup {NoPlan}, versioned : BOOLEAN, at : Labels \cup {"idle"}]
    /\ calls \in 0 .. MaxCalls

TypeOK == DiskTypes /\ LockTypes /\ CallTypes /\ NoteTypes

-----------------------------------------------------------------------------
(* Whatever step was the last one, everything workspace.json lists is there   *)
(* and identifies itself, and no listed leaf is waiting for removal from the  *)
(* place it is listed at.  It speaks of listed leaves only: a root that lists *)
(* intact leaves may still be refused, as the next property says.             *)
ListedIntact ==
    /\ ActiveVerified
    /\ pointer.kind = "replaceable" => pointer.retired # Active

(* Between two steps of a process that uses its Run, the leaf is the one the  *)
(* Run was bound to, still listed and at the place the process looks in:      *)
(* replacement, revival of the same Plan (A, B, A) and upgrades by others     *)
(* never show through (WorkspaceBinding.assert_current under the lock).       *)
RunStaysBound ==
    \A p \in Procs : pc[p] = "use" =>
        \E i \in DOMAIN pointer.listed :
            /\ pointer.listed[i] = run[p].leaf
            /\ PlaceIn(pointer, i) = run[p].place /\ Verified(run[p].place, run[p].leaf)

(* A retired leaf whose identity is gone while the rest of it is there: the   *)
(* removal was cut short inside rmtree.                                       *)
HalfRemoved ==
    pointer.retired # 0 /\ dirs[RetiredPlace] # NoDir /\ ~dirs[RetiredPlace].named

(* A Run of a listed leaf is only ever refused by one thing: a removal of     *)
(* another leaf that was cut half way, which every later writer tries again   *)
(* in vain (_finish_root_maintenance, _recover_leaf).  Readers do not try,    *)
(* and are refused when their leaf is not listed any more, and only then.     *)
RunRefusedForCause ==
    [][\A p \in Procs : job[p].kind \in {"write", "read"} /\ outcome[p] # outcome'[p]
                         /\ outcome'[p] = "refused" =>
           \/ ~Contains(pointer.listed, run[p].leaf)
           \/ job[p].kind = "write" /\ HalfRemoved]_vars

(* The outcome of bind_workspace is the truth: a call that refuses or fails   *)
(* has changed no topology, and one that seals the Plan, also when it cannot  *)
(* confirm it, has its leaf listed.                                           *)
OutcomeTruthful ==
    [][\A p \in Procs : outcome'[p] # outcome[p] =>
           /\ outcome'[p] \in {"refused", "failed"} => pointer'.listed = found[p]
           /\ outcome'[p] = "sealed" =>
                 run'[p].plan = job[p].plan /\ Contains(pointer'.listed, run'[p].leaf)
           /\ outcome'[p] = "indeterminate" => Contains(pointer'.listed, job[p].leaf)]_vars

(* A bind that died between creating a leaf and confirming its pointer can be *)
(* repeated: the next call with the same arguments is not refused, whatever   *)
(* was left behind.  (Not so after a death inside copytree or rmtree, nor     *)
(* with a temporary file in a root that has no pointer yet.)                  *)
RetryAccepted ==
    [][\A p \in Procs :
           /\ job[p].kind = "bind"
           /\ cut.at \in {"create", "publish", "confirm"}
           /\ cut.plan = job[p].plan /\ cut.versioned = job[p].versioned
           => ~(outcome[p] # outcome'[p] /\ outcome'[p] = "refused")]_vars

-----------------------------------------------------------------------------
Topologies ==
    [i \in DOMAIN pointer.listed |-> [leaf |-> pointer.listed[i], plan |-> planOf[pointer.listed[i]]]]

History == INSTANCE TopologyHistory WITH
    Leaves <- Ids,
    kind <- pointer.kind,
    topologies <- Topologies

(* Leaves, orphans, copies, pointers and crashes together are a history of    *)
(* topologies: each Plan once, none lost, each call one step or none.         *)
ImplementsHistory == History!HistorySpec

-----------------------------------------------------------------------------
(* A Run is bound to the leaf of the Plan it seals: "Reopening the same Plan  *)
(* reuses its existing iteration; only a new Plan identity allocates the next *)
(* ordinal" (docs/implementation/workspace-attempts-and-artifacts.qmd).       *)
BoundToOwnPlan == \A p \in Procs : run[p] # NoRun => run[p].plan = planOf[run[p].leaf]

(* Evidence that a Run has written stays with its leaf as long as the leaf is *)
(* listed, also through an upgrade (docs/v1-runtime-contract.qmd:275-277).    *)
EvidenceKept ==
    \A i \in DOMAIN pointer.listed :
        pointer.listed[i] \in written => dirs[PlaceIn(pointer, i)].evidence
=============================================================================
