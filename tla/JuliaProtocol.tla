---------------------------- MODULE JuliaProtocol ----------------------------
(***************************************************************************)
(* One authorized run of the Julia child: run_terminal and its readers       *)
(* (execution/process.py, execution/protocol.py), the publishers the         *)
(* coordinator hands to it (execution/coordinator.py), and the child's side  *)
(* (_julia/src/terminal.jl, batch_v2.jl, optimization.jl).                   *)
(*                                                                           *)
(* Two processes and two pipes.  A line is a record of its kind and, for a   *)
(* point, its ordinal; the reader thread moves every line of the child into  *)
(* an unbounded queue, so pipe and queue are one sequence, ended by the None *)
(* that the reader puts there when it stops.  The child computes Size units: *)
(* progress frames of an optimization, points of a sweep.                    *)
(***************************************************************************)
EXTENDS Integers, Sequences, SequencesExt

CONSTANTS
    Ops,            \* operations explored; "reuse" is an optimization that has a checkpoint
    Size,           \* points of a sweep, generations of an optimization
    MaxRogue,       \* bound: frames the child emits out of turn, undecodable lines included
    MaxInterrupts   \* bound: KeyboardInterrupts

ASSUME ProtocolAssumption ==
    /\ Ops \subseteq {"direct", "sweep", "optimize", "reuse"}
    /\ Size \in Nat \ {0}
    /\ MaxRogue \in Nat
    /\ MaxInterrupts \in Nat

VARIABLES
    op,             \* the operation of the request
    recovered,      \* points sealed by earlier attempts, when the call begins
    pc,             \* what the parent does
    child,          \* what the child does
    stdin,          \* lines written to the child, and whether the pipe is open
    queue,          \* lines of the child not yet taken by the parent
    broken,         \* the reader threads that died of a decoding error
    attempt,        \* state of attempt.json
    staged,         \* checkpoint the child has staged: ordinal + 1, or 0
    durable,        \* units published below the request
    acked,          \* points the child knows to be sealed
    computed,       \* generations the child has completed
    committed,      \* checkpoint_committed
    notified,       \* progress events given to the caller
    outcomeFile,    \* status in outcome.json
    raising,        \* the exception in flight
    unflushed,      \* is there a line in stdin's buffer that could not be written?
    signalled,      \* has SIGTERM been sent to the group?
    result,         \* how run_terminal ended
    rogue, interrupts

pipeVars == <<stdin, queue, broken>>
diskVars == <<attempt, staged, durable, outcomeFile>>
parentVars == <<pc, committed, notified, raising, unflushed, signalled, result>>
childVars == <<child, acked, computed>>
boundVars == <<rogue, interrupts>>
vars == <<op, recovered, pipeVars, diskVars, parentVars, childVars, boundVars>>

Optimizing == op \in {"optimize", "reuse"}

Frame(kind, ordinal) == [kind |-> kind, ordinal |-> ordinal]
Plain(kind) == Frame(kind, 0)

Ended == child \in {"exited", "dead"}

-----------------------------------------------------------------------------
(* The parent: exceptions *)

(* Nothing but the parent's control changes, besides what is named elsewhere. *)
Goto(label) ==
    /\ pc' = label
    /\ UNCHANGED <<raising, result>>

Raise(error) ==
    /\ pc' = IF error \in {"protocol", "interrupt"} THEN "handler" ELSE "finally"
    /\ raising' = error
    /\ UNCHANGED result

Quiet == UNCHANGED <<op, recovered, childVars, rogue>>

(* process.stdin.write() and flush(): EPIPE when the child has ended, and the *)
(* line stays in the buffer of the stream.                                    *)
Send(lines, close, label) ==
    IF Ended
    THEN /\ unflushed' = TRUE
         /\ Raise("protocol")
         /\ UNCHANGED stdin
    ELSE /\ stdin' = [lines |-> stdin.lines \o lines, open |-> ~close]
         /\ Goto(label)
         /\ UNCHANGED unflushed

-----------------------------------------------------------------------------
(* The parent: launch *)

(* The reader threads have been started: the try block begins. *)
EnterTry ==
    /\ pc = "started"
    /\ Goto("bootstrap")
    /\ Quiet /\ UNCHANGED <<pipeVars, diskVars, committed, notified, unflushed, signalled, interrupts>>

Take(label) == pc = label /\ queue # <<>> /\ queue' = Tail(queue) /\ UNCHANGED <<stdin, broken>>

(* The first line must be the bootstrap frame; then authorize() seals the     *)
(* attempt as launched.                                                       *)
ReadBootstrap ==
    /\ Take("bootstrap")
    /\ IF Head(queue).kind = "bootstrap"
       THEN Goto("send") /\ attempt' = "launched"
       ELSE Raise("protocol") /\ UNCHANGED attempt
    /\ Quiet /\ UNCHANGED <<staged, durable, outcomeFile, committed, notified, unflushed, signalled, interrupts>>

(* seal_attempt fails: an OSError, which run_terminal turns into a protocol   *)
(* error, before or after the rename of attempt.json; or EvidenceIntegrityError.*)
AuthorizeFails ==
    /\ Take("bootstrap") /\ Head(queue).kind = "bootstrap"
    /\ \/ Raise("protocol") /\ attempt' \in {attempt, "launched"}
       \/ Raise("integrity") /\ UNCHANGED attempt
    /\ Quiet /\ UNCHANGED <<staged, durable, outcomeFile, committed, notified, unflushed, signalled, interrupts>>

SendAuthorization ==
    /\ pc = "send"
    /\ Send(<<Plain("authorization")>>, FALSE, "control")
    /\ Quiet /\ UNCHANGED <<queue, broken, diskVars, committed, notified, signalled, interrupts>>

(* Mutant: stdin stays open after the authorization of a single point. *)
KeepOpen == FALSE

ClosesAfterAuthorization == op = "direct"

(* What follows the authorization: the commit of a reused checkpoint, the     *)
(* recovery of a sweep, or the end of the input.                              *)
SendControl ==
    /\ pc = "control"
    /\ \/ /\ op = "reuse"
          /\ Send(<<Plain("committed")>>, TRUE, "loop")
          /\ committed' = ~Ended
       \/ /\ op = "sweep"
          /\ Send(<<Frame("recovery", recovered)>>, FALSE, "loop")
          /\ UNCHANGED committed
       \/ /\ op \notin {"reuse", "sweep"}
          /\ stdin' = [stdin EXCEPT !.open = ~ClosesAfterAuthorization]
          /\ Goto("loop")
          /\ UNCHANGED <<unflushed, committed>>
    /\ Quiet /\ UNCHANGED <<queue, broken, diskVars, notified, signalled, interrupts>>

-----------------------------------------------------------------------------
(* The parent: the loop over the lines of the child *)

TakeInLoop(kind) == Take("loop") /\ Head(queue).kind = kind

Loops == Quiet /\ UNCHANGED <<attempt, staged, outcomeFile, unflushed, signalled, interrupts>>

(* A second bootstrap, a point outside of a sweep, a checkpoint outside of an *)
(* optimization or after its commit.                                          *)
OutOfTurn(frame) ==
    CASE frame.kind = "bootstrap" -> TRUE
      [] frame.kind = "point"     -> op # "sweep"
      [] frame.kind = "ready"     -> ~Optimizing \/ committed
      [] OTHER                    -> FALSE

RefuseFrame ==
    /\ Take("loop") /\ OutOfTurn(Head(queue))
    /\ Raise("protocol")
    /\ Loops /\ UNCHANGED <<durable, committed, notified>>

(* Mutant: the publisher takes the frame's word. *)
AnyFrame(frame) == TRUE

(* What the publishers verify: the frame names what is staged, and a point is *)
(* the next one.                                                              *)
Publishable(frame) ==
    /\ staged = frame.ordinal + 1
    /\ op = "sweep" => frame.ordinal = durable

(* publish_point turns every refusal into BackendProtocolError; what is wrong  *)
(* with the staged baseline leaves run_terminal as it is.                     *)
RefusedAs == IF op = "sweep" THEN "protocol" ELSE "incoming"

PublishFrame ==
    /\ Take("loop")
    /\ Head(queue).kind \in {"point", "ready"} /\ ~OutOfTurn(Head(queue))
    /\ IF Publishable(Head(queue))
       THEN Goto("ack") /\ durable' = durable + 1
       ELSE Raise(RefusedAs) /\ UNCHANGED durable
    /\ Loops /\ UNCHANGED <<committed, notified>>

(* Storage fails, before or after the rename that publishes.  An OSError is a  *)
(* protocol error, or "incoming" while the staged baseline is read; evidence   *)
(* that is not as it should be, a plain EvidenceIntegrityError.                *)
PublishErrors == {"protocol"} \cup (IF op = "sweep" THEN {} ELSE {"incoming", "integrity"})

PublishFails ==
    /\ Take("loop")
    /\ Head(queue).kind \in {"point", "ready"} /\ ~OutOfTurn(Head(queue))
    /\ \E error \in PublishErrors : Raise(error)
    /\ \/ UNCHANGED durable
       \/ Publishable(Head(queue)) /\ durable' = durable + 1
    /\ Loops /\ UNCHANGED <<committed, notified>>

Acknowledge ==
    /\ pc = "ack"
    /\ IF op = "sweep"
       THEN /\ Send(<<Frame("acknowledged", durable - 1)>>, FALSE, "loop")
            /\ UNCHANGED committed
       ELSE /\ Send(<<Plain("committed")>>, TRUE, "loop")
            /\ committed' = ~Ended
    /\ Quiet /\ UNCHANGED <<queue, broken, diskVars, notified, signalled, interrupts>>

(* Mutant: progress is delivered as it comes. *)
AnyProgress == TRUE

ProgressAllowed == Optimizing => committed

(* on_progress(): it may raise. *)
Progress ==
    /\ TakeInLoop("progress")
    /\ IF ProgressAllowed
       THEN /\ notified' = notified + 1
            /\ Goto("loop") \/ Raise("callback")
       ELSE Raise("protocol") /\ UNCHANGED notified
    /\ Loops /\ UNCHANGED <<durable, committed>>

(* A progress frame that does not bind the request or its budget. *)
ProgressRefused ==
    /\ TakeInLoop("stray")
    /\ Raise("protocol")
    /\ Loops /\ UNCHANGED <<durable, committed, notified>>

Log ==
    /\ TakeInLoop("log")
    /\ Goto("loop")
    /\ Loops /\ UNCHANGED <<durable, committed, notified>>

EndOfLines ==
    /\ TakeInLoop("end")
    /\ Goto("wait")
    /\ Loops /\ UNCHANGED <<durable, committed, notified>>

-----------------------------------------------------------------------------
(* The parent: the end *)

Return(status) ==
    /\ pc' = "finally"
    /\ raising' = status
    /\ UNCHANGED result

(* Mutant: a nonzero exit is overlooked when outcome.json is there. *)
AnyExit == broken = {} /\ outcomeFile # "none"

ExitAccepted == broken = {} /\ child = "exited" /\ outcomeFile # "none"

(* process.wait(), then the checks in their order. *)
WaitForExit ==
    /\ pc = "wait" /\ Ended
    /\ IF ExitAccepted /\ (Optimizing /\ outcomeFile = "success" => committed)
       THEN Return(outcomeFile)
       ELSE Raise("protocol")
    /\ Quiet
    /\ UNCHANGED <<pipeVars, diskVars, committed, notified, unflushed, signalled, interrupts>>

Terminating == pc \in {"handler", "finally"}

(* Mutant: only the handlers terminate the group. *)
InHandlerOnly == pc = "handler"

TerminatesHere == pc \in {"handler", "finally"}

(* _terminate_process_group: SIGTERM, five seconds, SIGKILL. *)
Terminate ==
    /\ Terminating /\ TerminatesHere /\ ~Ended /\ ~signalled
    /\ signalled' = TRUE
    /\ Goto(pc)
    /\ Quiet /\ UNCHANGED <<pipeVars, diskVars, committed, notified, unflushed, interrupts>>

Kill ==
    /\ Terminating /\ signalled /\ ~Ended
    /\ child' = "dead"
    /\ Goto(pc)
    /\ UNCHANGED <<op, recovered, acked, computed, pipeVars, diskVars, committed, notified, unflushed, signalled, boundVars>>

HandlerDone ==
    /\ pc = "handler" /\ Ended
    /\ Goto("finally")
    /\ Quiet /\ UNCHANGED <<pipeVars, diskVars, committed, notified, unflushed, signalled, interrupts>>

(* The streams are closed: a line that is still buffered is flushed again, and *)
(* the BrokenPipeError replaces what run_terminal was about to return or raise.*)
CloseStreams ==
    /\ pc = "finally" /\ (TerminatesHere => Ended)
    /\ pc' = "ended"
    /\ result' = IF unflushed THEN "brokenpipe" ELSE raising
    /\ stdin' = [stdin EXCEPT !.open = FALSE]
    /\ Quiet /\ UNCHANGED <<queue, broken, diskVars, committed, notified, raising, unflushed, signalled, interrupts>>

(* KeyboardInterrupt.  In a handler, also before killpg(), it leads to the     *)
(* finally clause, and there out of the function; before the try block nothing *)
(* catches it.                                                                *)
Interrupt ==
    /\ interrupts < MaxInterrupts
    /\ interrupts' = interrupts + 1
    /\ \/ /\ pc \in {"bootstrap", "send", "control", "loop", "ack", "wait"}
          /\ Raise("interrupt")
       \/ /\ pc = "handler"
          /\ pc' = "finally" /\ raising' = "interrupt" /\ UNCHANGED result
       \/ /\ pc \in {"started", "finally"}
          /\ pc' = "ended" /\ result' = "interrupt" /\ UNCHANGED raising
    /\ Quiet /\ UNCHANGED <<pipeVars, diskVars, committed, notified, unflushed, signalled>>

(* The Popen object of a call that is gone is collected, and its pipe closed. *)
Collect ==
    /\ pc = "ended" /\ stdin.open
    /\ stdin' = [stdin EXCEPT !.open = FALSE]
    /\ UNCHANGED <<op, recovered, queue, broken, diskVars, parentVars, childVars, boundVars>>

-----------------------------------------------------------------------------
(* The child *)

ChildStays == UNCHANGED <<op, recovered, attempt, durable, parentVars, boundVars>>

(* A line goes to the reader, if it lives; else into a pipe nobody empties. *)
Emitted(frame) == IF "stdout" \in broken THEN queue ELSE Append(queue, frame)

Emit(from, frame, to) ==
    /\ child = from
    /\ queue' = Emitted(frame)
    /\ child' = to
    /\ UNCHANGED <<stdin, broken, acked, outcomeFile>>
    /\ ChildStays

EmitBootstrap == Emit("boot", Plain("bootstrap"), "auth") /\ UNCHANGED <<staged, computed>>

(* readline(stdin), which blocks while the pipe is open and empty. *)
HasLine(kind) == stdin.lines # <<>> /\ Head(stdin.lines).kind = kind
AtEnd == stdin.lines = <<>> /\ ~stdin.open

Advance(from, to) ==
    child = from /\ child' = to /\ UNCHANGED <<queue, broken, staged, computed>> /\ ChildStays

ReadLine == stdin' = [stdin EXCEPT !.lines = Tail(@)]

(* Mutant: the child of a reused checkpoint does not wait for its commit. *)
EagerReuse ==
    CASE op = "direct"   -> "eof"
      [] op = "sweep"    -> "recovery"
      [] op = "optimize" -> "baseline"
      [] op = "reuse"    -> "work"

NextAfterAuthorization ==
    CASE op = "direct"   -> "eof"
      [] op = "sweep"    -> "recovery"
      [] op = "optimize" -> "baseline"
      [] op = "reuse"    -> "commit"

(* read_authorization is outside of the try block: an error ends the child. *)
ReadAuthorization ==
    /\ Advance("auth", IF HasLine("authorization") /\ attempt = "launched"
                       THEN NextAfterAuthorization ELSE "dead")
    /\ \/ stdin.lines # <<>> /\ ReadLine
       \/ AtEnd /\ UNCHANGED stdin
    /\ UNCHANGED <<acked, outcomeFile>>

RequireEnd ==
    /\ Advance("eof", IF AtEnd THEN "work" ELSE "dead")
    /\ AtEnd \/ stdin.lines # <<>>
    /\ UNCHANGED <<stdin, acked, outcomeFile>>

(* Inside of the try block an unexpected line, or the end, becomes a failure. *)
ReadOr(from, kind, to) ==
    \/ HasLine(kind) /\ Advance(from, to) /\ ReadLine /\ UNCHANGED outcomeFile
    \/ /\ AtEnd \/ (stdin.lines # <<>> /\ ~HasLine(kind))
       /\ Advance(from, "exiting")
       /\ outcomeFile' = "failure"
       /\ UNCHANGED stdin

ReadRecovery ==
    /\ ReadOr("recovery", "recovery", "work")
    /\ acked' = IF child' = "work" THEN Head(stdin.lines).ordinal ELSE acked

StageBaseline == Emit("baseline", Plain("ready"), "commit") /\ staged' = 1 /\ UNCHANGED computed

ReadCommitted == ReadOr("commit", "committed", "commiteof") /\ UNCHANGED acked

RequireFinalInput ==
    /\ Advance("commiteof", IF AtEnd THEN "work" ELSE "exiting")
    /\ AtEnd \/ stdin.lines # <<>>
    /\ outcomeFile' = IF AtEnd THEN outcomeFile ELSE "failure"
    /\ UNCHANGED <<stdin, acked>>

(* emit_progress, after every generation. *)
EmitProgress ==
    /\ Optimizing /\ computed < Size
    /\ Emit("work", Plain("progress"), "work")
    /\ computed' = computed + 1
    /\ UNCHANGED staged

(* Mutant: the child goes on after the last point. *)
StagePastEnd ==
    /\ op = "sweep"
    /\ Emit("work", Frame("point", acked), "point")
    /\ staged' = acked + 1
    /\ UNCHANGED computed

StagePoint ==
    /\ op = "sweep" /\ acked < Size
    /\ Emit("work", Frame("point", acked), "point")
    /\ staged' = acked + 1
    /\ UNCHANGED computed

ReadAcknowledged ==
    /\ child = "point"
    /\ \/ /\ HasLine("acknowledged") /\ Head(stdin.lines).ordinal = acked
          /\ ReadLine
          /\ child' = "work" /\ acked' = acked + 1 /\ staged' = 0
          /\ UNCHANGED outcomeFile
       \/ /\ AtEnd
          /\ child' = "exiting" /\ outcomeFile' = "failure"
          /\ UNCHANGED <<stdin, acked, staged>>
    /\ UNCHANGED <<queue, broken, computed>> /\ ChildStays

(* The work is done, or a typed failure ends it. *)
WriteOutcome ==
    /\ Advance(child, "exiting")
    /\ \/ /\ child = "work" /\ (op = "sweep" => acked = Size) /\ (Optimizing => computed = Size)
          /\ outcomeFile' = "success"
       \/ child \in {"baseline", "commit", "work"} /\ outcomeFile' = "failure"
    /\ UNCHANGED <<stdin, acked>>

(* The reader puts None when the stream ends. *)
Exit ==
    /\ child = "exiting"
    /\ child' = "exited"
    /\ queue' = Emitted(Plain("end"))
    /\ UNCHANGED <<stdin, broken, staged, acked, computed, outcomeFile>> /\ ChildStays

Working == child \notin {"exited", "dead"}

(* It crashes, or SIGTERM ends it. *)
Die ==
    /\ Working
    /\ child' = "dead"
    /\ queue' = Emitted(Plain("end"))
    /\ UNCHANGED <<stdin, broken, staged, acked, computed, outcomeFile>> /\ ChildStays

-----------------------------------------------------------------------------
(* What a child should not do *)

Misbehave ==
    /\ rogue < MaxRogue /\ child \in {"boot", "auth", "baseline", "commit", "work", "point"}
    /\ rogue' = rogue + 1
    /\ UNCHANGED <<op, recovered, attempt, durable, staged, parentVars, interrupts, stdin, acked, computed>>

(* Frames out of turn, output that is no frame. *)
RogueFrames ==
    {Plain(k) : k \in {"bootstrap", "ready", "progress", "stray", "log"}}
        \cup {Frame("point", i) : i \in 0 .. Size - 1}

EmitRogue ==
    /\ Misbehave
    /\ \E frame \in RogueFrames : queue' = Emitted(frame)
    /\ UNCHANGED <<child, broken, outcomeFile>>

(* A success that skips the checkpoint or the points. *)
ClaimSuccess ==
    /\ Misbehave /\ child \notin {"boot", "auth"}
    /\ child' = "exiting" /\ outcomeFile' = "success"
    /\ UNCHANGED <<queue, broken>>

(* Bytes that are not UTF-8 end a reader thread; that of stdout leaves None. *)
EmitUndecodable ==
    /\ Misbehave
    /\ \E stream \in {"stdout", "stderr"} \ broken :
          /\ broken' = broken \cup {stream}
          /\ queue' = IF stream = "stdout" THEN Append(queue, Plain("end")) ELSE queue
    /\ UNCHANGED <<child, outcomeFile>>

(* The pipe of a dead reader is full: the child blocks in its next write. *)
BlockOnPipe ==
    /\ broken # {} /\ child \in {"baseline", "work", "exiting"}
    /\ child' = "stuck"
    /\ UNCHANGED <<stdin, queue, broken, staged, acked, computed, outcomeFile>> /\ ChildStays

-----------------------------------------------------------------------------
Init ==
    /\ op \in Ops
    /\ recovered \in (IF op = "sweep" THEN 0 .. Size ELSE {0})
    /\ pc = "started"
    /\ child = "boot"
    /\ stdin = [lines |-> <<>>, open |-> TRUE]
    /\ queue = <<>>
    /\ broken = {}
    /\ attempt = "none"
    /\ staged = 0
    /\ durable = IF op = "reuse" THEN 1 ELSE recovered
    /\ acked = 0
    /\ computed = 0
    /\ committed = FALSE
    /\ notified = 0
    /\ outcomeFile = "none"
    /\ raising = "none"
    /\ unflushed = FALSE
    /\ signalled = FALSE
    /\ result = "none"
    /\ rogue = 0
    /\ interrupts = 0

Parent ==
    \/ EnterTry \/ ReadBootstrap \/ AuthorizeFails \/ SendAuthorization \/ SendControl
    \/ RefuseFrame \/ PublishFrame \/ PublishFails \/ Acknowledge
    \/ Progress \/ ProgressRefused \/ Log \/ EndOfLines
    \/ WaitForExit \/ Terminate \/ Kill \/ HandlerDone \/ CloseStreams

Child ==
    \/ EmitBootstrap \/ ReadAuthorization \/ RequireEnd \/ ReadRecovery
    \/ StageBaseline \/ ReadCommitted \/ RequireFinalInput
    \/ EmitProgress \/ StagePoint \/ ReadAcknowledged \/ WriteOutcome \/ Exit

Next ==
    \/ Parent \/ Interrupt \/ Collect
    \/ Child \/ Die
    \/ EmitRogue \/ ClaimSuccess \/ EmitUndecodable \/ BlockOnPipe

Spec == Init /\ [][Next]_vars

(* The parent and the child are scheduled; the child's computations end. *)
FairSpec == Spec /\ WF_vars(Parent) /\ WF_vars(Child)
=============================================================================
