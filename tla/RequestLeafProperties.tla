------------------------ MODULE RequestLeafProperties ------------------------
(* What the evidence of one request must guarantee, over RequestLeaf. *)
EXTENDS RequestLeaf

FileTypes ==
    /\ kind \in Kinds
    /\ request \in [dir : BOOLEAN, json : BOOLEAN, anchor : BOOLEAN,
                    root : {"none", "bare", "indexed"}, entries : Nat, points : Nat, stage : BOOLEAN]
    /\ baseline \in Nat
    /\ stray \in BOOLEAN

AttemptTypes ==
    /\ finals \in Seq(Attempt)
    /\ staging \in Attempt \cup {NoAttempt}

ProcessTypes ==
    /\ owner \in Procs \cup {NoProc}
    /\ pc \in [Procs -> Labels \cup {"idle"}]
    /\ child \in {"none", "baseline", "replay", "evolve", "ended"}
    /\ orphan \in BOOLEAN
    /\ outcome \in [Procs -> Verdicts \cup {"reused", "integrity", "raised", "exists", "stopped"}]
    /\ fresh \in Nat
    /\ calls \in 0 .. MaxCalls

(* A process past the lock is the owner, and past the allocation it works on *)
(* the newest attempt.                                                       *)
OwnerTypes ==
    \A p \in Procs :
        /\ pc[p] \notin {"idle", "look", "prepare", "wait"} => owner = p
        /\ pc[p] \in {"launch", "seal", "run", "point", "stage", "list", "validate", "fail", "promote"} =>
               staging # NoAttempt /\ staging.id = fresh

TypeOK == FileTypes /\ AttemptTypes /\ ProcessTypes /\ OwnerTypes

-----------------------------------------------------------------------------
(* "sealing competing successes" is what the lock is there to avoid: a        *)
(* request has at most one success and nothing is appended after it, though   *)
(* two processes may both have looked in vain before they wait for the lock   *)
(* (execute_prepared, the two calls of find_success).                         *)
OneSuccess ==
    \A i \in DOMAIN finals : finals[i].verdict = "success" => i = Len(finals)

(* Two attempts that retain a ledger of the same generation retain the same   *)
(* one, whatever failures and interruptions separate them, so that            *)
(* resume_ledger_sha256 never finds two identities for one generation.        *)
LedgersAgree ==
    \A i, j \in DOMAIN finals :
        Len(finals[i].ledgers) <= Len(finals[j].ledgers) =>
            IsPrefix(finals[i].ledgers, finals[j].ledgers)

(* _verify_attempt, but for the points of the request as they lie there now. *)
VerifiedApart(attempt, prior) ==
    /\ ResumeFound(attempt, prior)
    /\ kind = "sweep" => attempt.points <= request.entries
    /\ kind = "optimize" => BaselineBound(attempt)
    /\ LedgersVerified(attempt, prior)
    /\ attempt.verdict = "success" => Complete(attempt)

(* There is nothing in the request that a later call could lose. *)
NothingSealed == finals = <<>> /\ baseline = 0 /\ request.entries = 0

(* inventory_document does not raise for this request. *)
Inventoried ==
    request.dir =>
        /\ request.json
        /\ kind = "sweep" => PointsReadable
        /\ finals # <<>> \/ baseline # 0 \/ request.entries > 0
        /\ AllVerified

(* The publications that may be cut in half: the point root of a new request   *)
(* (store.py 259-264), and a point that is staged, or in place but not listed  *)
(* (340-362); the next reader comes before the writer that would clean up.     *)
HalfPublished ==
    \/ request.root = "bare" \/ (request.anchor /\ request.root = "none")
    \/ request.stage \/ request.points = request.entries + 1

(* What was verified when an attempt was promoted stays so, also when a later  *)
(* attempt publishes the baseline or more points, and whatever is cut short:   *)
(* _verify_attempt finds every sealed attempt sound, apart from the points of  *)
(* a sweep that was cut half-way.  inventory_document does refuse a directory  *)
(* without request.json (store.py 628) and a request with neither attempt nor  *)
(* checkpoint (645-661), but never one in which something is sealed, unless    *)
(* its points are half published.                                              *)
HistoryReadable ==
    /\ \A i \in DOMAIN finals : VerifiedApart(finals[i], SubSeq(finals, 1, i - 1))
    /\ ~Inventoried => HalfPublished \/ NothingSealed

(* A generation sealed in any earlier attempt is never evaluated again: the   *)
(* child of a retry only adds generations above the highest one sealed.       *)
NoGenerationTwice ==
    [][\A i \in DOMAIN finals :
           /\ staging # NoAttempt /\ staging' # NoAttempt
           /\ Len(staging'.ledgers) > Len(staging.ledgers)
           /\ staging'.ledgers[Len(staging'.ledgers)] = staging.id
           => Len(finals[i].ledgers) < Len(staging'.ledgers)]_vars

(* What a cut leaves behind makes a call raise EvidenceIntegrityError in four  *)
(* cases only: points half published, a temporary ledger of the child that is  *)
(* interrupted, new or replayed (result_artifacts.jl 7-14), an orphan that     *)
(* makes its directory again, and an attempt.json that is written but not      *)
(* known to the caller (store.py 515-520).  A directory without request.json   *)
(* makes ensure_request raise FileExistsError, in this and in every later      *)
(* call (store.py 256), but then nothing was ever sealed in it.                *)
IntegrityErrorsKnown ==
    [][\A p \in Procs :
           /\ outcome[p] # "integrity" /\ outcome'[p] = "integrity" =>
                  \/ HalfPublished
                  \/ pc[p] = "run" /\ staging.cut
                  \/ pc[p] = "allocate" /\ stray
                  \/ pc[p] = "seal"
           /\ outcome[p] # "exists" /\ outcome'[p] = "exists" => NothingSealed]_vars

(* inventory_document: the status of the request *)
Status ==
    CASE Succeeded -> "succeeded"
      [] finals = <<>> /\ baseline = 0 /\ request.entries = 0 -> "none"
      [] finals = <<>> /\ ~(baseline = 0 /\ request.entries = 0) -> "partial"
      [] finals # <<>> /\ ~Succeeded ->
            IF finals[Len(finals)].verdict = "interrupted" THEN "interrupted" ELSE "failed"

Sealed ==
    CASE kind = "sweep"    -> request.entries
      [] kind = "optimize" ->
            IF finals = <<>> THEN 0
            ELSE Len(CHOOSE c \in {finals[i].ledgers : i \in DOMAIN finals} :
                         \A i \in DOMAIN finals : Len(finals[i].ledgers) <= Len(c))
      [] OTHER             -> 0

(* The leaf implements the history its documentation promises. *)
History == INSTANCE RequestHistory WITH
               units <- IF kind = "direct" THEN 0 ELSE Size,
               status <- Status, sealed <- Sealed, tries <- Len(finals)

ImplementsHistory == History!HistorySpec

-----------------------------------------------------------------------------
(* docs/implementation/workspace-attempts-and-artifacts.qmd:193-195: "Retry   *)
(* selects the greatest verified compatible generation, restarts the pinned   *)
(* optimizer from the same seed, and replays ledger costs".  So the child     *)
(* replays what Python has selected and verified (optimization.jl 1037-1045). *)
SelectedReplayed == child = "replay" => staging.resume = <<>> \/ SiblingsAccepted
=============================================================================
