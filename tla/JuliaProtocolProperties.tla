----------------------- MODULE JuliaProtocolProperties -----------------------
(* What one run of the Julia child must guarantee, over JuliaProtocol. *)
EXTENDS JuliaProtocol

Kinds == {"authorization", "committed", "recovery", "acknowledged", "bootstrap", "ready",
          "point", "progress", "stray", "log", "end"}

Line == [kind : Kinds, ordinal : 0 .. Size]

Lines == Seq(Line)

Results == {"success", "failure", "protocol", "callback", "incoming", "integrity", "interrupt"}

PipeTypes ==
    /\ stdin \in [lines : Lines, open : BOOLEAN]
    /\ queue \in Lines
    /\ broken \subseteq {"stdout", "stderr"}

ControlTypes ==
    /\ op \in Ops
    /\ pc \in {"started", "bootstrap", "send", "control", "loop", "ack", "wait",
               "handler", "finally", "ended"}
    /\ child \in {"boot", "auth", "eof", "recovery", "baseline", "commit", "commiteof",
                  "work", "point", "exiting", "stuck", "exited", "dead"}
    /\ attempt \in {"none", "launched"}
    /\ committed \in BOOLEAN /\ unflushed \in BOOLEAN /\ signalled \in BOOLEAN
    /\ outcomeFile \in {"none", "success", "failure"}
    /\ raising \in Results \cup {"none"}
    /\ result \in Results \cup {"none", "brokenpipe"}
    /\ rogue \in 0 .. MaxRogue /\ interrupts \in 0 .. MaxInterrupts

UnitTypes ==
    /\ recovered \in 0 .. Size
    /\ staged \in 0 .. Size /\ durable \in 0 .. Size
    /\ acked \in 0 .. Size /\ computed \in 0 .. Size
    /\ notified \in Nat

(* The types of the state: pipes, the two programs, counts of units. *)
TypeOK == PipeTypes /\ ControlTypes /\ UnitTypes

(* The caller of an optimization hears of progress only after the baseline    *)
(* is durable and the child told so, also from a child that sends its frames  *)
(* in the wrong order (process.py 576-582).                                   *)
ProgressCommitted == Optimizing /\ notified > 0 => durable = 1 /\ committed

(* A returned outcome is that of a child that ended by itself with status     *)
(* zero, with every line of it read and no reader thread lost; a success of   *)
(* an optimization has its baseline sealed (process.py 605-666).              *)
ReturnedOutcome ==
    result \in {"success", "failure"} =>
        /\ child = "exited" /\ ~signalled /\ broken = {}
        /\ outcomeFile = result /\ queue = <<>>
        /\ Optimizing /\ result = "success" => committed /\ durable = 1

(* Parent and child agree on what is sealed: the child never goes on from a   *)
(* point that is not durable, and nothing becomes durable that the child has  *)
(* not staged, whatever frames it repeats or invents.                         *)
InStep ==
    /\ op = "sweep" /\ child \in {"work", "point"} =>
           durable \in acked .. (IF staged = acked + 1 THEN acked + 1 ELSE acked)
    /\ op = "optimize" => durable <= staged
    /\ op \in {"optimize", "reuse"} /\ child = "work" => durable = 1

(* The exceptions for which the coordinator seals nothing (coordinator.py      *)
(* 240-258): an EvidenceIntegrityError of a publisher, and the BrokenPipeError *)
(* of closing stdin over a line it could not write (process.py 684-686).       *)
Unsealed == result \in {"integrity", "brokenpipe"}

(* A run that leaves no sealed attempt loses no work: it has not taken back an *)
(* outcome that was accepted; an optimization has evaluated no generation and  *)
(* told its caller of none, whatever the child did before the call ended; and  *)
(* every point that the child of a sweep went on from is durable.              *)
UnsealedLosesNothing ==
    Unsealed =>
        /\ raising \notin {"success", "failure"}
        /\ Optimizing => computed = 0 /\ notified = 0
        /\ op = "sweep" => acked <= durable

(* A call that is over has ended its child, also when an exception has no      *)
(* handler in run_terminal.  It leaves one running only by a KeyboardInterrupt *)
(* that comes before the try block, or in a finally clause that no handler     *)
(* preceded, or on top of an earlier interrupt (process.py 226-243, 661-678):  *)
(* one interrupt of the protocol itself never does.                            *)
ChildGone ==
    pc = "ended" /\ ~Ended =>
        /\ result = "interrupt"
        /\ \/ raising \in {"none", "callback", "incoming", "integrity"}
           \/ raising = "interrupt" /\ interrupts > 1

(* Neither side waits for the other for ever: every run ends, unless a reader *)
(* thread has died of a decoding error; nothing empties that pipe any more,   *)
(* and process.wait() has no timeout.                                         *)
EveryRunEnds == pc # "ended" ~> pc = "ended" \/ broken # {}
=============================================================================
