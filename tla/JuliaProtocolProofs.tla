-------------------------- MODULE JuliaProtocolProofs --------------------------
(***************************************************************************)
(* One run of the Julia child keeps its promises for every number of points  *)
(* and generations, of frames out of turn and of interrupts: all that the    *)
(* run "julia" checks, but liveness.                                         *)
(***************************************************************************)
EXTENDS JuliaProtocolProperties, TLAPS

(* Steps of the parent, of the child. *)
ParentSide == Parent \/ Interrupt \/ Collect
ChildSide == Child \/ Die \/ EmitRogue \/ ClaimSuccess \/ EmitUndecodable \/ BlockOnPipe

-----------------------------------------------------------------------------
(* The inductive invariant *)

(* Where the child is says which operation it performs. *)
PlaceOK ==
    /\ child = "point" => op = "sweep" /\ staged = acked + 1
    /\ child = "recovery" => op = "sweep"
    /\ child = "eof" => op = "direct"
    /\ child = "baseline" => op = "optimize"
    /\ child \in {"commit", "commiteof"} => Optimizing

Early == {"started", "bootstrap", "send", "control"}

(* The baseline is sealed once, and the child told so once. *)
CommitOK ==
    /\ Optimizing /\ committed => durable = 1
    /\ Optimizing /\ notified > 0 => committed
    /\ op = "reuse" => durable = 1 /\ pc # "ack" /\ (pc = "loop" => committed)
    /\ Optimizing /\ pc \in Early \cup {"ack"} => ~committed
    /\ op = "optimize" /\ pc = "ack" => durable = 1
    /\ op = "optimize" /\ pc \in Early \cup {"loop"} /\ ~committed => durable = 0
    /\ op = "sweep" /\ pc = "ack" => durable > 0
    /\ op = "direct" => pc # "ack" /\ durable = 0

(* The end of the child's lines is the last of them. *)
Silent == Ended \/ "stdout" \in broken

EndOK ==
    /\ \A i \in 1 .. Len(queue) : queue[i].kind = "end" => i = Len(queue) /\ Silent
    /\ pc = "wait" => queue = <<>> /\ Silent

(* What has been accepted as the outcome stays so. *)
Clean(status) ==
    /\ child = "exited" /\ ~signalled /\ broken = {}
    /\ outcomeFile = status /\ queue = <<>>
    /\ Optimizing /\ status = "success" => committed /\ durable = 1

OutcomeOK ==
    /\ pc \notin {"handler", "finally", "ended"} => ~signalled
    /\ pc = "handler" => raising \in {"protocol", "interrupt"}
    /\ pc = "finally" /\ raising \in {"success", "failure"} => Clean(raising)
    /\ result \in {"success", "failure"} => pc = "ended" /\ Clean(result)
    /\ result = "brokenpipe" => unflushed
    /\ pc # "ended" => result = "none"

(* An exception in the finally clause without a handler before it finds the   *)
(* child as it was; the others find that it has ended.                        *)
GoneOK ==
    /\ pc \notin {"handler", "finally", "ended"} => raising = "none"
    /\ raising = "interrupt" => interrupts > 0
    /\ pc = "finally" => raising # "none" /\ (raising \in {"protocol", "success", "failure"} => Ended)
    /\ ChildGone

(* What ends a run unsealed comes before the child of an optimization is told  *)
(* that its baseline is sealed.                                               *)
FailureOK ==
    /\ unflushed => pc \in {"handler", "finally", "ended"} /\ raising \in {"protocol", "interrupt"}
    /\ raising = "integrity" => pc \in {"finally", "ended"}
    /\ result = "integrity" => raising = "integrity"
    /\ Optimizing /\ (unflushed \/ raising = "integrity") => ~committed

Untold == \A i \in 1 .. Len(stdin.lines) : stdin.lines[i].kind # "committed"

(* A child that has not been told does not go on.                             *)
KnownOK ==
    /\ Optimizing /\ ~committed => computed = 0 /\ child \notin {"commiteof", "work"} /\ Untold
    /\ op = "sweep" => recovered <= durable /\ acked <= durable

(* The lines in the pipe tell the child what is durable. *)
LineOK(line) ==
    /\ line.kind = "recovery" => line.ordinal = recovered
    /\ line.kind = "acknowledged" => line.ordinal < durable
    /\ line.kind = "committed" => Optimizing /\ durable = 1

LinesOK == \A i \in 1 .. Len(stdin.lines) : LineOK(stdin.lines[i])

(* Where the child is, it knows what is durable. *)
AgreeOK ==
    /\ op = "sweep" /\ child \in {"boot", "auth", "recovery"} => staged = 0 /\ durable = recovered
    /\ op = "sweep" /\ child = "work" => staged = 0 /\ durable = acked
    /\ op = "sweep" /\ child = "point" => durable \in {acked, acked + 1}
    /\ op = "optimize" => durable <= staged
    /\ op = "optimize" /\ child \in {"boot", "auth", "baseline"} => staged = 0
    /\ Optimizing /\ child \in {"commiteof", "work"} => durable = 1

Inv ==
    /\ TypeOK
    /\ PlaceOK /\ CommitOK
    /\ EndOK /\ OutcomeOK /\ GoneOK
    /\ FailureOK /\ KnownOK
    /\ LinesOK /\ AgreeOK

-----------------------------------------------------------------------------
(* Lines *)

LEMMA LineFrame ==
    ASSUME NEW kind \in Kinds, NEW ordinal \in 0 .. Size
    PROVE  Frame(kind, ordinal) \in Line
BY DEF Frame, Line

LEMMA LinePlain ==
    ASSUME NEW kind \in Kinds
    PROVE  Plain(kind) \in Line
BY LineFrame, ProtocolAssumption DEF Plain

LEMMA OneLine ==
    ASSUME NEW line \in Line
    PROVE  <<line>> \in Lines
BY DEF Lines

LEMMA TailLines ==
    ASSUME NEW lines \in Lines, lines # <<>>
    PROVE  Head(lines) \in Line /\ Tail(lines) \in Lines
BY DEF Lines

LEMMA EmittedLines ==
    ASSUME queue \in Lines, NEW line \in Line
    PROVE  Emitted(line) \in Lines
BY DEF Lines, Emitted

(* A line that is sent lies in the pipe, or in the buffer of a broken one. *)
LEMMA SendTypes ==
    ASSUME PipeTypes, NEW lines \in Lines, NEW close \in BOOLEAN, NEW label,
           Send(lines, close, label)
    PROVE  stdin' \in [lines : Lines, open : BOOLEAN]
<1>1. CASE Ended
  BY <1>1 DEF Send, Raise, PipeTypes
<1>2. CASE ~Ended
  <2>1. stdin' = [lines |-> stdin.lines \o lines, open |-> ~close]
    BY <1>2 DEF Send
  <2>2. stdin.lines \o lines \in Lines
    BY DEF PipeTypes, Lines
  <2>3. (~close) \in BOOLEAN
    OBVIOUS
  <2> QED BY <2>1, <2>2, <2>3
<1> QED BY <1>1, <1>2

-----------------------------------------------------------------------------
(* What each side leaves alone *)

(* The parent does nothing for the child but to kill it. *)
LEMMA ParentLeaves ==
    ASSUME ParentSide
    PROVE  /\ UNCHANGED <<op, recovered, staged, outcomeFile, acked, computed, rogue>>
           /\ child' = child \/ child' = "dead"
<1>1. CASE EnterTry
  BY <1>1 DEF EnterTry, Goto, Quiet, childVars, pipeVars, diskVars
<1>2. CASE ReadBootstrap
  BY <1>2 DEF ReadBootstrap, Take, Goto, Raise, Quiet, childVars, diskVars
<1>3. CASE SendAuthorization
  BY <1>3 DEF SendAuthorization, Send, Ended, Raise, Goto, Plain, Frame, Quiet, childVars,
     diskVars
<1>4. CASE SendControl
  BY <1>4 DEF SendControl, Send, Ended, Raise, Goto, Plain, Frame,
     ClosesAfterAuthorization, Quiet, childVars, diskVars
<1>5. CASE RefuseFrame
  BY <1>5 DEF RefuseFrame, Take, OutOfTurn, Optimizing, Raise, Loops, Quiet, childVars,
     diskVars
<1>6. CASE PublishFrame
  BY <1>6 DEF PublishFrame, Take, OutOfTurn, Optimizing, Publishable, Goto, Raise,
     RefusedAs, Loops, Quiet, childVars, diskVars
<1>7. CASE PublishFails
  BY <1>7 DEF PublishFails, PublishErrors, Publishable, Take, OutOfTurn, Optimizing, Raise, Loops, Quiet, childVars,
     diskVars
<1>8. CASE Acknowledge
  BY <1>8 DEF Acknowledge, Send, Ended, Raise, Goto, Frame, Plain, Quiet, childVars,
     diskVars
<1>9. CASE Progress
  BY <1>9 DEF Progress, TakeInLoop, Take, ProgressAllowed, Optimizing, Goto, Raise, Loops,
     Quiet, childVars, diskVars
<1>10. CASE ProgressRefused
  BY <1>10 DEF ProgressRefused, TakeInLoop, Take, Raise, Loops, Quiet, childVars, diskVars
<1>11. CASE Log
  BY <1>11 DEF Log, TakeInLoop, Take, Goto, Loops, Quiet, childVars, diskVars
<1>12. CASE EndOfLines
  BY <1>12 DEF EndOfLines, TakeInLoop, Take, Goto, Loops, Quiet, childVars, diskVars
<1>13. CASE WaitForExit
  BY <1>13 DEF WaitForExit, Ended, ExitAccepted, Optimizing, Return, Raise, Quiet,
     childVars, pipeVars, diskVars
<1>14. CASE Terminate
  BY <1>14 DEF Terminate, Terminating, TerminatesHere, Ended, Goto, Quiet, childVars,
     pipeVars, diskVars
<1>15. CASE Kill
  BY <1>15 DEF Kill, Terminating, Ended, Goto, pipeVars, diskVars, boundVars, childVars
<1>16. CASE HandlerDone
  BY <1>16 DEF HandlerDone, Ended, Goto, Quiet, childVars, pipeVars, diskVars
<1>17. CASE CloseStreams
  BY <1>17 DEF CloseStreams, TerminatesHere, Ended, Quiet, childVars, diskVars
<1>18. CASE Interrupt
  BY <1>18 DEF Interrupt, Raise, Quiet, childVars, pipeVars, diskVars
<1>19. CASE Collect
  BY <1>19 DEF Collect, diskVars, parentVars, childVars, boundVars
<1>20. CASE AuthorizeFails
  BY <1>20 DEF AuthorizeFails, Take, Goto, Raise, Quiet, childVars, diskVars
<1> QED BY <1>1, <1>2, <1>3, <1>4, <1>5, <1>6, <1>7, <1>8, <1>9, <1>10, <1>11, <1>12,
     <1>13, <1>14, <1>15, <1>16, <1>17, <1>18, <1>19, <1>20 DEF ParentSide, Parent

(* The child changes nothing that the parent keeps. *)
LEMMA ChildLeaves ==
    ASSUME ChildSide
    PROVE  UNCHANGED <<op, recovered, attempt, durable, parentVars, interrupts>>
<1>1. CASE EmitBootstrap
  BY <1>1 DEF EmitBootstrap, Emit, Emitted, ChildStays, parentVars, boundVars, Plain,
     Frame
<1>2. CASE ReadAuthorization
  BY <1>2 DEF ReadAuthorization, Advance, ChildStays, parentVars, boundVars, HasLine,
     NextAfterAuthorization, ReadLine, AtEnd
<1>3. CASE RequireEnd
  BY <1>3 DEF RequireEnd, Advance, ChildStays, parentVars, boundVars, AtEnd
<1>4. CASE ReadRecovery
  BY <1>4 DEF ReadRecovery, ReadOr, HasLine, Advance, ChildStays, parentVars, boundVars,
     ReadLine, AtEnd
<1>5. CASE StageBaseline
  BY <1>5 DEF StageBaseline, Emit, Emitted, ChildStays, parentVars, boundVars, Plain,
     Frame
<1>6. CASE ReadCommitted
  BY <1>6 DEF ReadCommitted, ReadOr, HasLine, Advance, ChildStays, parentVars, boundVars,
     ReadLine, AtEnd
<1>7. CASE RequireFinalInput
  BY <1>7 DEF RequireFinalInput, Advance, ChildStays, parentVars, boundVars, AtEnd
<1>8. CASE EmitProgress
  BY <1>8 DEF EmitProgress, Optimizing, Emit, Emitted, ChildStays, parentVars, boundVars,
     Plain, Frame
<1>9. CASE StagePoint
  BY <1>9 DEF StagePoint, Emit, Emitted, ChildStays, parentVars, boundVars, Frame
<1>10. CASE ReadAcknowledged
  BY <1>10 DEF ReadAcknowledged, HasLine, ReadLine, AtEnd, ChildStays, parentVars,
     boundVars
<1>11. CASE WriteOutcome
  BY <1>11 DEF WriteOutcome, Advance, ChildStays, parentVars, boundVars, Optimizing
<1>12. CASE Exit
  BY <1>12 DEF Exit, Emitted, Plain, Frame, ChildStays, parentVars, boundVars
<1>13. CASE Die
  BY <1>13 DEF Die, Working, Emitted, Plain, Frame, ChildStays, parentVars, boundVars
<1>14. CASE EmitRogue
  BY <1>14 DEF EmitRogue, Misbehave, parentVars, RogueFrames, Plain, Frame, Emitted,
     boundVars
<1>15. CASE ClaimSuccess
  BY <1>15 DEF ClaimSuccess, Misbehave, parentVars, boundVars
<1>16. CASE EmitUndecodable
  BY <1>16 DEF EmitUndecodable, Misbehave, parentVars, Plain, Frame, boundVars
<1>17. CASE BlockOnPipe
  BY <1>17 DEF BlockOnPipe, ChildStays, parentVars, boundVars
<1> QED BY <1>1, <1>2, <1>3, <1>4, <1>5, <1>6, <1>7, <1>8, <1>9, <1>10, <1>11, <1>12,
     <1>13, <1>14, <1>15, <1>16, <1>17 DEF ChildSide, Child

(* A child that has ended does nothing any more. *)
LEMMA EndedIsQuiet ==
    ASSUME Ended, ChildSide
    PROVE  FALSE
<1>1. CASE EmitBootstrap
  BY <1>1 DEF EmitBootstrap, Emit, Emitted, ChildStays, parentVars, boundVars, Plain,
     Frame, Ended
<1>2. CASE ReadAuthorization
  BY <1>2 DEF ReadAuthorization, Advance, ChildStays, parentVars, boundVars, HasLine,
     NextAfterAuthorization, ReadLine, AtEnd, Ended
<1>3. CASE RequireEnd
  BY <1>3 DEF RequireEnd, Advance, ChildStays, parentVars, boundVars, AtEnd, Ended
<1>4. CASE ReadRecovery
  BY <1>4 DEF ReadRecovery, ReadOr, HasLine, Advance, ChildStays, parentVars, boundVars,
     ReadLine, AtEnd, Ended
<1>5. CASE StageBaseline
  BY <1>5 DEF StageBaseline, Emit, Emitted, ChildStays, parentVars, boundVars, Plain,
     Frame, Ended
<1>6. CASE ReadCommitted
  BY <1>6 DEF ReadCommitted, ReadOr, HasLine, Advance, ChildStays, parentVars, boundVars,
     ReadLine, AtEnd, Ended
<1>7. CASE RequireFinalInput
  BY <1>7 DEF RequireFinalInput, Advance, ChildStays, parentVars, boundVars, AtEnd, Ended
<1>8. CASE EmitProgress
  BY <1>8 DEF EmitProgress, Optimizing, Emit, Emitted, ChildStays, parentVars, boundVars,
     Plain, Frame, Ended
<1>9. CASE StagePoint
  BY <1>9 DEF StagePoint, Emit, Emitted, ChildStays, parentVars, boundVars, Frame, Ended
<1>10. CASE ReadAcknowledged
  BY <1>10 DEF ReadAcknowledged, HasLine, ReadLine, AtEnd, ChildStays, parentVars,
     boundVars, Ended
<1>11. CASE WriteOutcome
  BY <1>11 DEF WriteOutcome, Advance, ChildStays, parentVars, boundVars, Optimizing, Ended
<1>12. CASE Exit
  BY <1>12 DEF Exit, Emitted, Plain, Frame, ChildStays, parentVars, boundVars, Ended
<1>13. CASE Die
  BY <1>13 DEF Die, Working, Emitted, Plain, Frame, ChildStays, parentVars, boundVars,
     Ended
<1>14. CASE EmitRogue
  BY <1>14 DEF EmitRogue, Misbehave, parentVars, RogueFrames, Plain, Frame, Emitted, Ended
<1>15. CASE ClaimSuccess
  BY <1>15 DEF ClaimSuccess, Misbehave, parentVars, Ended
<1>16. CASE EmitUndecodable
  BY <1>16 DEF EmitUndecodable, Misbehave, parentVars, Plain, Frame, Ended
<1>17. CASE BlockOnPipe
  BY <1>17 DEF BlockOnPipe, ChildStays, parentVars, boundVars, Ended
<1> QED BY <1>1, <1>2, <1>3, <1>4, <1>5, <1>6, <1>7, <1>8, <1>9, <1>10, <1>11, <1>12,
     <1>13, <1>14, <1>15, <1>16, <1>17 DEF ChildSide, Child

-----------------------------------------------------------------------------
(* Types *)

(* Only lines are written and read. *)
LEMMA ParentKeepsPipes ==
    ASSUME PipeTypes, UnitTypes, CommitOK, ParentSide
    PROVE  PipeTypes'
<1> USE ProtocolAssumption
<1>1. CASE EnterTry
  BY <1>1 DEF EnterTry, Goto, Quiet, childVars, pipeVars, diskVars, PipeTypes, Lines,
     Kinds, UnitTypes
<1>2. CASE ReadBootstrap
  BY <1>2 DEF ReadBootstrap, Take, Goto, Raise, Quiet, childVars, PipeTypes, Lines, Kinds,
     UnitTypes
<1>3. CASE SendAuthorization

  <2>1. <<Plain("authorization")>> \in Lines
    BY LinePlain, OneLine DEF Kinds
  <2> QED BY <1>3, <2>1, SendTypes DEF SendAuthorization, PipeTypes
<1>4. CASE SendControl

  <2>1. <<Plain("committed")>> \in Lines /\ <<Frame("recovery", recovered)>> \in Lines
    BY LinePlain, LineFrame, OneLine DEF Kinds, UnitTypes
  <2>2. (~ClosesAfterAuthorization) \in BOOLEAN
    OBVIOUS
  <2>3. ASSUME op \in {"reuse", "sweep"}
        PROVE  stdin' \in [lines : Lines, open : BOOLEAN]
    BY <1>4, <2>1, <2>3, SendTypes DEF SendControl
  <2>4. ASSUME op \notin {"reuse", "sweep"}
        PROVE  stdin' \in [lines : Lines, open : BOOLEAN]
    BY <1>4, <2>2, <2>4 DEF SendControl, PipeTypes
  <2>5. UNCHANGED <<queue, broken>>
    BY <1>4 DEF SendControl
  <2> QED BY <2>3, <2>4, <2>5 DEF PipeTypes
<1>5. CASE RefuseFrame
  BY <1>5 DEF RefuseFrame, Take, OutOfTurn, Optimizing, Raise, Loops, Quiet, childVars,
     PipeTypes, Lines, Kinds, UnitTypes
<1>6. CASE PublishFrame
  BY <1>6 DEF PublishFrame, Take, OutOfTurn, Optimizing, Publishable, Goto, Raise,
     RefusedAs, Loops, Quiet, childVars, PipeTypes, Lines, Kinds,
     UnitTypes
<1>7. CASE PublishFails
  BY <1>7 DEF PublishFails, PublishErrors, Publishable, Take, OutOfTurn, Optimizing, Raise, Loops, Quiet, childVars,
     PipeTypes, Lines, Kinds, UnitTypes
<1>8. CASE Acknowledge

  <2>1. /\ <<Plain("committed")>> \in Lines
        /\ op = "sweep" => <<Frame("acknowledged", durable - 1)>> \in Lines
    BY <1>8, LinePlain, LineFrame, OneLine, ProtocolAssumption DEF Acknowledge, CommitOK, Kinds, UnitTypes
  <2> QED BY <1>8, <2>1, SendTypes DEF Acknowledge, PipeTypes
<1>9. CASE Progress
  BY <1>9 DEF Progress, TakeInLoop, Take, ProgressAllowed, Optimizing, Goto, Raise, Loops,
     Quiet, childVars, PipeTypes, Lines, Kinds, UnitTypes
<1>10. CASE ProgressRefused
  BY <1>10 DEF ProgressRefused, TakeInLoop, Take, Raise, Loops, Quiet, childVars,
     PipeTypes, Lines, Kinds, UnitTypes
<1>11. CASE Log
  BY <1>11 DEF Log, TakeInLoop, Take, Goto, Loops, Quiet, childVars, PipeTypes, Lines,
     Kinds, UnitTypes
<1>12. CASE EndOfLines
  BY <1>12 DEF EndOfLines, TakeInLoop, Take, Goto, Loops, Quiet, childVars, PipeTypes,
     Lines, Kinds, UnitTypes
<1>13. CASE WaitForExit
  BY <1>13 DEF WaitForExit, Ended, ExitAccepted, Optimizing, Return, Raise, Quiet,
     childVars, pipeVars, diskVars, PipeTypes, Lines, Kinds, UnitTypes
<1>14. CASE Terminate
  BY <1>14 DEF Terminate, Terminating, TerminatesHere, Ended, Goto, Quiet, childVars,
     pipeVars, diskVars, PipeTypes, Lines, Kinds, UnitTypes
<1>15. CASE Kill
  BY <1>15 DEF Kill, Terminating, Ended, Goto, pipeVars, diskVars, boundVars, PipeTypes,
     Lines, Kinds, UnitTypes, childVars
<1>16. CASE HandlerDone
  BY <1>16 DEF HandlerDone, Ended, Goto, Quiet, childVars, pipeVars, diskVars, PipeTypes,
     Lines, Kinds, UnitTypes
<1>17. CASE CloseStreams
  BY <1>17 DEF CloseStreams, TerminatesHere, Ended, Quiet, childVars, diskVars, PipeTypes,
     Lines, Kinds, UnitTypes
<1>18. CASE Interrupt
  BY <1>18 DEF Interrupt, Raise, Quiet, childVars, pipeVars, diskVars, PipeTypes, Lines,
     Kinds, UnitTypes
<1>19. CASE Collect
  BY <1>19 DEF Collect, diskVars, parentVars, childVars, boundVars, PipeTypes, Lines,
     Kinds, UnitTypes
<1>20. CASE AuthorizeFails
  BY <1>20 DEF AuthorizeFails, Take, Goto, Raise, Quiet, childVars, PipeTypes, Lines, Kinds,
     UnitTypes
<1> QED BY <1>1, <1>2, <1>3, <1>4, <1>5, <1>6, <1>7, <1>8, <1>9, <1>10, <1>11, <1>12,
     <1>13, <1>14, <1>15, <1>16, <1>17, <1>18, <1>19, <1>20 DEF ParentSide, Parent

(* Only lines are emitted and read. *)
LEMMA ChildKeepsPipes ==
    ASSUME PipeTypes, UnitTypes, ChildSide
    PROVE  PipeTypes'
<1> USE ProtocolAssumption
<1>1. CASE EmitBootstrap

  BY <1>1, LinePlain, LineFrame, EmittedLines DEF EmitBootstrap, Emit, ChildStays, PipeTypes, UnitTypes, Kinds
<1>2. CASE ReadAuthorization

  BY <1>2, TailLines DEF ReadAuthorization, ReadOr, ReadLine, HasLine, Advance, AtEnd, PipeTypes
<1>3. CASE RequireEnd
  BY <1>3 DEF RequireEnd, Advance, ChildStays, parentVars, boundVars, AtEnd, PipeTypes,
     Lines, Kinds, UnitTypes
<1>4. CASE ReadRecovery

  BY <1>4, TailLines DEF ReadRecovery, ReadOr, ReadLine, HasLine, Advance, AtEnd, PipeTypes
<1>5. CASE StageBaseline

  BY <1>5, LinePlain, LineFrame, EmittedLines DEF StageBaseline, Emit, ChildStays, PipeTypes, UnitTypes, Kinds
<1>6. CASE ReadCommitted

  BY <1>6, TailLines DEF ReadCommitted, ReadOr, ReadLine, HasLine, Advance, AtEnd, PipeTypes
<1>7. CASE RequireFinalInput
  BY <1>7 DEF RequireFinalInput, Advance, ChildStays, parentVars, boundVars, AtEnd,
     PipeTypes, Lines, Kinds, UnitTypes
<1>8. CASE EmitProgress

  BY <1>8, LinePlain, LineFrame, EmittedLines DEF EmitProgress, Emit, ChildStays, PipeTypes, UnitTypes, Kinds
<1>9. CASE StagePoint

  BY <1>9, LinePlain, LineFrame, EmittedLines DEF StagePoint, Emit, ChildStays, PipeTypes, UnitTypes, Kinds
<1>10. CASE ReadAcknowledged

  BY <1>10, TailLines DEF ReadAcknowledged, ReadOr, ReadLine, HasLine, Advance, AtEnd, PipeTypes
<1>11. CASE WriteOutcome
  BY <1>11 DEF WriteOutcome, Advance, ChildStays, parentVars, boundVars, Optimizing,
     PipeTypes, Lines, Kinds, UnitTypes
<1>12. CASE Exit

  BY <1>12, LinePlain, EmittedLines DEF Exit, ChildStays, PipeTypes, Kinds
<1>13. CASE Die

  BY <1>13, LinePlain, EmittedLines DEF Die, ChildStays, PipeTypes, Kinds
<1>14. CASE EmitRogue

  <2>1. RogueFrames \subseteq Line
    BY LinePlain, LineFrame, ProtocolAssumption DEF RogueFrames, Kinds
  <2> QED BY <1>14, <2>1, EmittedLines DEF EmitRogue, Misbehave, PipeTypes
<1>15. CASE ClaimSuccess
  BY <1>15 DEF ClaimSuccess, Misbehave, parentVars, PipeTypes, Lines, Kinds, UnitTypes
<1>16. CASE EmitUndecodable

  <2>1. Append(queue, Plain("end")) \in Lines
    BY LinePlain DEF Lines, Kinds, PipeTypes
  <2> QED BY <1>16, <2>1 DEF EmitUndecodable, Misbehave, PipeTypes
<1>17. CASE BlockOnPipe
  BY <1>17 DEF BlockOnPipe, ChildStays, parentVars, boundVars, PipeTypes, Lines, Kinds,
     UnitTypes
<1> QED BY <1>1, <1>2, <1>3, <1>4, <1>5, <1>6, <1>7, <1>8, <1>9, <1>10, <1>11, <1>12,
     <1>13, <1>14, <1>15, <1>16, <1>17 DEF ChildSide, Child

(* The parent moves among its places. *)
LEMMA ParentKeepsControl ==
    ASSUME ControlTypes, ParentSide
    PROVE  ControlTypes'
<1> USE ProtocolAssumption
<1>1. CASE EnterTry
  BY <1>1 DEF EnterTry, Goto, Quiet, childVars, pipeVars, diskVars, ControlTypes, Results
<1>2. CASE ReadBootstrap
  BY <1>2 DEF ReadBootstrap, Take, Goto, Raise, Quiet, childVars, ControlTypes, Results,
     diskVars
<1>3. CASE SendAuthorization

  <2>1. /\ pc' \in {"control", "handler"} /\ raising' \in {raising, "protocol"}
        /\ result' = result /\ unflushed' \in BOOLEAN
    BY <1>3 DEF SendAuthorization, Send, Raise, Goto, ControlTypes
  <2> QED BY <1>3, <2>1 DEF SendAuthorization, ControlTypes, Results, Quiet, childVars, diskVars
<1>4. CASE SendControl

  <2>1. /\ pc' \in {"loop", "handler"} /\ raising' \in {raising, "protocol"}
        /\ result' = result /\ unflushed' \in BOOLEAN
    BY <1>4 DEF SendControl, Send, Raise, Goto, ControlTypes
  <2>2. (~Ended) \in BOOLEAN
    OBVIOUS
  <2>3. committed' \in BOOLEAN
    BY <1>4, <2>2 DEF SendControl, ControlTypes
  <2> QED BY <1>4, <2>1, <2>3 DEF SendControl, ControlTypes, Results, Quiet, childVars, diskVars
<1>5. CASE RefuseFrame
  BY <1>5 DEF RefuseFrame, Take, OutOfTurn, Optimizing, Raise, Loops, Quiet, childVars,
     ControlTypes, Results, diskVars
<1>6. CASE PublishFrame
  BY <1>6 DEF PublishFrame, Take, OutOfTurn, Optimizing, Publishable, Goto, Raise,
     RefusedAs, Loops, Quiet, childVars, ControlTypes, Results, diskVars
<1>7. CASE PublishFails
  BY <1>7 DEF PublishFails, PublishErrors, Publishable, Take, OutOfTurn, Optimizing, Raise, Loops, Quiet, childVars,
     ControlTypes, Results, diskVars
<1>8. CASE Acknowledge

  <2>1. /\ pc' \in {"loop", "handler"} /\ raising' \in {raising, "protocol"}
        /\ result' = result /\ unflushed' \in BOOLEAN
    BY <1>8 DEF Acknowledge, Send, Raise, Goto, ControlTypes
  <2>2. (~Ended) \in BOOLEAN
    OBVIOUS
  <2>3. committed' \in BOOLEAN
    BY <1>8, <2>2 DEF Acknowledge, ControlTypes
  <2> QED BY <1>8, <2>1, <2>3 DEF Acknowledge, ControlTypes, Results, Quiet, childVars, diskVars
<1>9. CASE Progress
  BY <1>9 DEF Progress, TakeInLoop, Take, ProgressAllowed, Optimizing, Goto, Raise, Loops,
     Quiet, childVars, ControlTypes, Results, diskVars
<1>10. CASE ProgressRefused
  BY <1>10 DEF ProgressRefused, TakeInLoop, Take, Raise, Loops, Quiet, childVars,
     ControlTypes, Results, diskVars
<1>11. CASE Log
  BY <1>11 DEF Log, TakeInLoop, Take, Goto, Loops, Quiet, childVars, ControlTypes,
     Results, diskVars
<1>12. CASE EndOfLines
  BY <1>12 DEF EndOfLines, TakeInLoop, Take, Goto, Loops, Quiet, childVars, ControlTypes,
     Results, diskVars
<1>13. CASE WaitForExit
  BY <1>13 DEF WaitForExit, Ended, ExitAccepted, Optimizing, Return, Raise, Quiet,
     childVars, pipeVars, diskVars, ControlTypes, Results
<1>14. CASE Terminate
  BY <1>14 DEF Terminate, Terminating, TerminatesHere, Ended, Goto, Quiet, childVars,
     pipeVars, diskVars, ControlTypes, Results
<1>15. CASE Kill
  BY <1>15 DEF Kill, Terminating, Ended, Goto, pipeVars, diskVars, boundVars,
     ControlTypes, Results, childVars
<1>16. CASE HandlerDone
  BY <1>16 DEF HandlerDone, Ended, Goto, Quiet, childVars, pipeVars, diskVars,
     ControlTypes, Results
<1>17. CASE CloseStreams
  BY <1>17 DEF CloseStreams, TerminatesHere, Ended, Quiet, childVars, diskVars,
     ControlTypes, Results
<1>18. CASE Interrupt
  BY <1>18 DEF Interrupt, Raise, Quiet, childVars, pipeVars, diskVars, ControlTypes,
     Results
<1>19. CASE Collect
  BY <1>19 DEF Collect, diskVars, parentVars, childVars, boundVars, ControlTypes, Results
<1>20. CASE AuthorizeFails
  BY <1>20 DEF AuthorizeFails, Take, Goto, Raise, Quiet, childVars, ControlTypes, Results,
     diskVars
<1> QED BY <1>1, <1>2, <1>3, <1>4, <1>5, <1>6, <1>7, <1>8, <1>9, <1>10, <1>11, <1>12,
     <1>13, <1>14, <1>15, <1>16, <1>17, <1>18, <1>19, <1>20 DEF ParentSide, Parent

(* The child moves among its places. *)
LEMMA ChildKeepsControl ==
    ASSUME ControlTypes, ChildSide
    PROVE  ControlTypes'
<1> USE ProtocolAssumption
<1>1. CASE EmitBootstrap
  BY <1>1 DEF EmitBootstrap, Emit, Emitted, ChildStays, parentVars, boundVars, Plain,
     Frame, ControlTypes, Results
<1>2. CASE ReadAuthorization
  BY <1>2 DEF ReadAuthorization, Advance, ChildStays, parentVars, boundVars, HasLine,
     NextAfterAuthorization, ReadLine, AtEnd, ControlTypes, Results
<1>3. CASE RequireEnd
  BY <1>3 DEF RequireEnd, Advance, ChildStays, parentVars, boundVars, AtEnd, ControlTypes,
     Results
<1>4. CASE ReadRecovery
  BY <1>4 DEF ReadRecovery, ReadOr, HasLine, Advance, ChildStays, parentVars, boundVars,
     ReadLine, AtEnd, ControlTypes, Results
<1>5. CASE StageBaseline
  BY <1>5 DEF StageBaseline, Emit, Emitted, ChildStays, parentVars, boundVars, Plain,
     Frame, ControlTypes, Results
<1>6. CASE ReadCommitted
  BY <1>6 DEF ReadCommitted, ReadOr, HasLine, Advance, ChildStays, parentVars, boundVars,
     ReadLine, AtEnd, ControlTypes, Results
<1>7. CASE RequireFinalInput
  BY <1>7 DEF RequireFinalInput, Advance, ChildStays, parentVars, boundVars, AtEnd,
     ControlTypes, Results
<1>8. CASE EmitProgress
  BY <1>8 DEF EmitProgress, Optimizing, Emit, Emitted, ChildStays, parentVars, boundVars,
     Plain, Frame, ControlTypes, Results
<1>9. CASE StagePoint
  BY <1>9 DEF StagePoint, Emit, Emitted, ChildStays, parentVars, boundVars, Frame,
     ControlTypes, Results
<1>10. CASE ReadAcknowledged
  BY <1>10 DEF ReadAcknowledged, HasLine, ReadLine, AtEnd, ChildStays, parentVars,
     boundVars, ControlTypes, Results
<1>11. CASE WriteOutcome
  BY <1>11 DEF WriteOutcome, Advance, ChildStays, parentVars, boundVars, Optimizing,
     ControlTypes, Results
<1>12. CASE Exit
  BY <1>12 DEF Exit, Emitted, Plain, Frame, ChildStays, parentVars, boundVars,
     ControlTypes, Results
<1>13. CASE Die
  BY <1>13 DEF Die, Working, Emitted, Plain, Frame, ChildStays, parentVars, boundVars,
     ControlTypes, Results
<1>14. CASE EmitRogue
  BY <1>14 DEF EmitRogue, Misbehave, parentVars, RogueFrames, Plain, Frame, Emitted,
     ControlTypes, Results, boundVars
<1>15. CASE ClaimSuccess
  BY <1>15 DEF ClaimSuccess, Misbehave, parentVars, ControlTypes, Results, boundVars
<1>16. CASE EmitUndecodable
  BY <1>16 DEF EmitUndecodable, Misbehave, parentVars, Plain, Frame, ControlTypes,
     Results, boundVars
<1>17. CASE BlockOnPipe
  BY <1>17 DEF BlockOnPipe, ChildStays, parentVars, boundVars, ControlTypes, Results
<1> QED BY <1>1, <1>2, <1>3, <1>4, <1>5, <1>6, <1>7, <1>8, <1>9, <1>10, <1>11, <1>12,
     <1>13, <1>14, <1>15, <1>16, <1>17 DEF ChildSide, Child

(* Only what has been staged is sealed. *)
LEMMA ParentKeepsUnits ==
    ASSUME UnitTypes, PipeTypes, CommitOK, op \in {"direct", "sweep", "optimize", "reuse"}, ParentSide
    PROVE  UnitTypes'
<1> USE ProtocolAssumption
<1>1. CASE EnterTry
  BY <1>1 DEF EnterTry, Goto, Quiet, childVars, pipeVars, diskVars, UnitTypes, PipeTypes,
     Lines
<1>2. CASE ReadBootstrap
  BY <1>2 DEF ReadBootstrap, Take, Goto, Raise, Quiet, childVars, UnitTypes, PipeTypes,
     Lines, diskVars
<1>3. CASE SendAuthorization
  BY <1>3 DEF SendAuthorization, Send, Ended, Raise, Goto, Plain, Frame, Quiet, childVars,
     diskVars, UnitTypes, PipeTypes, Lines
<1>4. CASE SendControl
  BY <1>4 DEF SendControl, Send, Ended, Raise, Goto, Plain, Frame,
     ClosesAfterAuthorization, Quiet, childVars, diskVars, UnitTypes, PipeTypes, Lines
<1>5. CASE RefuseFrame
  BY <1>5 DEF RefuseFrame, Take, OutOfTurn, Optimizing, Raise, Loops, Quiet, childVars,
     UnitTypes, PipeTypes, Lines, diskVars
<1>6. CASE PublishFrame

  <2>1. UNCHANGED <<recovered, staged, acked, computed, notified>>
    BY <1>6 DEF PublishFrame, Loops, Quiet, childVars
  <2>2. CASE ~Publishable(Head(queue))
    BY <1>6, <2>1, <2>2 DEF PublishFrame, UnitTypes
  <2>3. CASE Publishable(Head(queue))
    <3>1. queue # <<>> /\ Head(queue) \in Line
      BY <1>6, TailLines DEF PublishFrame, Take, PipeTypes
    <3>2. staged = Head(queue).ordinal + 1 /\ durable' = durable + 1
      BY <1>6, <2>3 DEF PublishFrame, Publishable
    <3>3. op = "sweep" => Head(queue).ordinal = durable
      BY <2>3 DEF Publishable
    <3>4. op # "sweep" => durable = 0
      BY <1>6 DEF PublishFrame, Take, OutOfTurn, Optimizing, CommitOK
    <3>5. durable + 1 \in 0 .. Size
      BY <3>1, <3>2, <3>3, <3>4 DEF UnitTypes, Line
    <3> QED BY <2>1, <3>2, <3>5 DEF UnitTypes
  <2> QED BY <2>2, <2>3
<1>7. CASE PublishFails

  <2>1. UNCHANGED <<recovered, staged, acked, computed, notified>>
    BY <1>7 DEF PublishFails, PublishErrors, Loops, Quiet, childVars
  <2>2. CASE durable' = durable
    BY <1>7, <2>1, <2>2 DEF PublishFails, PublishErrors, UnitTypes
  <2>3. CASE durable' # durable
    <3>1. queue # <<>> /\ Head(queue) \in Line
      BY <1>7, TailLines DEF PublishFails, PublishErrors, Take, PipeTypes
    <3>2. staged = Head(queue).ordinal + 1 /\ durable' = durable + 1
      BY <1>7, <2>3 DEF PublishFails, PublishErrors, Publishable
    <3>3. op = "sweep" => Head(queue).ordinal = durable
      BY <1>7, <2>3 DEF PublishFails, Publishable
    <3>4. op # "sweep" => durable = 0
      BY <1>7 DEF PublishFails, PublishErrors, Take, OutOfTurn, Optimizing, CommitOK
    <3>5. durable + 1 \in 0 .. Size
      BY <3>1, <3>2, <3>3, <3>4 DEF UnitTypes, Line
    <3> QED BY <2>1, <3>2, <3>5 DEF UnitTypes
  <2> QED BY <2>2, <2>3
<1>8. CASE Acknowledge
  BY <1>8 DEF Acknowledge, Send, Ended, Raise, Goto, Frame, Plain, Quiet, childVars,
     diskVars, UnitTypes, PipeTypes, Lines
<1>9. CASE Progress
  BY <1>9 DEF Progress, TakeInLoop, Take, ProgressAllowed, Optimizing, Goto, Raise, Loops,
     Quiet, childVars, UnitTypes, PipeTypes, Lines, diskVars
<1>10. CASE ProgressRefused
  BY <1>10 DEF ProgressRefused, TakeInLoop, Take, Raise, Loops, Quiet, childVars,
     UnitTypes, PipeTypes, Lines, diskVars
<1>11. CASE Log
  BY <1>11 DEF Log, TakeInLoop, Take, Goto, Loops, Quiet, childVars, UnitTypes, PipeTypes,
     Lines, diskVars
<1>12. CASE EndOfLines
  BY <1>12 DEF EndOfLines, TakeInLoop, Take, Goto, Loops, Quiet, childVars, UnitTypes,
     PipeTypes, Lines, diskVars
<1>13. CASE WaitForExit
  BY <1>13 DEF WaitForExit, Ended, ExitAccepted, Optimizing, Return, Raise, Quiet,
     childVars, pipeVars, diskVars, UnitTypes, PipeTypes, Lines
<1>14. CASE Terminate
  BY <1>14 DEF Terminate, Terminating, TerminatesHere, Ended, Goto, Quiet, childVars,
     pipeVars, diskVars, UnitTypes, PipeTypes, Lines
<1>15. CASE Kill
  BY <1>15 DEF Kill, Terminating, Ended, Goto, pipeVars, diskVars, boundVars, UnitTypes,
     PipeTypes, Lines, childVars
<1>16. CASE HandlerDone
  BY <1>16 DEF HandlerDone, Ended, Goto, Quiet, childVars, pipeVars, diskVars, UnitTypes,
     PipeTypes, Lines
<1>17. CASE CloseStreams
  BY <1>17 DEF CloseStreams, TerminatesHere, Ended, Quiet, childVars, diskVars, UnitTypes,
     PipeTypes, Lines
<1>18. CASE Interrupt
  BY <1>18 DEF Interrupt, Raise, Quiet, childVars, pipeVars, diskVars, UnitTypes,
     PipeTypes, Lines
<1>19. CASE Collect
  BY <1>19 DEF Collect, diskVars, parentVars, childVars, boundVars, UnitTypes, PipeTypes,
     Lines
<1>20. CASE AuthorizeFails
  BY <1>20 DEF AuthorizeFails, Take, Goto, Raise, Quiet, childVars, UnitTypes, PipeTypes,
     Lines, diskVars
<1> QED BY <1>1, <1>2, <1>3, <1>4, <1>5, <1>6, <1>7, <1>8, <1>9, <1>10, <1>11, <1>12,
     <1>13, <1>14, <1>15, <1>16, <1>17, <1>18, <1>19, <1>20 DEF ParentSide, Parent

(* The child stops at the last unit. *)
LEMMA ChildKeepsUnits ==
    ASSUME UnitTypes, PipeTypes, PlaceOK, ChildSide
    PROVE  UnitTypes'
<1> USE ProtocolAssumption
<1>1. CASE EmitBootstrap
  BY <1>1 DEF EmitBootstrap, Emit, Emitted, ChildStays, parentVars, boundVars, Plain,
     Frame, UnitTypes, PipeTypes, Lines, PlaceOK
<1>2. CASE ReadAuthorization
  BY <1>2 DEF ReadAuthorization, Advance, ChildStays, parentVars, boundVars, HasLine,
     NextAfterAuthorization, ReadLine, AtEnd, UnitTypes, PipeTypes, Lines, PlaceOK
<1>3. CASE RequireEnd
  BY <1>3 DEF RequireEnd, Advance, ChildStays, parentVars, boundVars, AtEnd, UnitTypes,
     PipeTypes, Lines, PlaceOK
<1>4. CASE ReadRecovery

  <2>1. UNCHANGED <<recovered, staged, durable, computed, notified>>
    BY <1>4 DEF ReadRecovery, ReadOr, Advance, ChildStays, parentVars
  <2>2. CASE HasLine("recovery")
    <3>1. Head(stdin.lines) \in Line
      BY <2>2, TailLines DEF HasLine, PipeTypes
    <3> QED BY <1>4, <2>1, <3>1 DEF ReadRecovery, UnitTypes, Line
  <2>3. CASE ~HasLine("recovery")
    BY <1>4, <2>1, <2>3 DEF ReadRecovery, ReadOr, Advance, UnitTypes
  <2> QED BY <2>2, <2>3
<1>5. CASE StageBaseline
  BY <1>5 DEF StageBaseline, Emit, Emitted, ChildStays, parentVars, boundVars, Plain,
     Frame, UnitTypes, PipeTypes, Lines, PlaceOK
<1>6. CASE ReadCommitted
  BY <1>6 DEF ReadCommitted, ReadOr, HasLine, Advance, ChildStays, parentVars, boundVars,
     ReadLine, AtEnd, UnitTypes, PipeTypes, Lines, PlaceOK
<1>7. CASE RequireFinalInput
  BY <1>7 DEF RequireFinalInput, Advance, ChildStays, parentVars, boundVars, AtEnd,
     UnitTypes, PipeTypes, Lines, PlaceOK
<1>8. CASE EmitProgress
  BY <1>8 DEF EmitProgress, Optimizing, Emit, Emitted, ChildStays, parentVars, boundVars,
     Plain, Frame, UnitTypes, PipeTypes, Lines, PlaceOK
<1>9. CASE StagePoint
  BY <1>9 DEF StagePoint, Emit, Emitted, ChildStays, parentVars, boundVars, Frame,
     UnitTypes, PipeTypes, Lines, PlaceOK
<1>10. CASE ReadAcknowledged
  BY <1>10 DEF ReadAcknowledged, HasLine, ReadLine, AtEnd, ChildStays, parentVars,
     boundVars, UnitTypes, PipeTypes, Lines, PlaceOK
<1>11. CASE WriteOutcome
  BY <1>11 DEF WriteOutcome, Advance, ChildStays, parentVars, boundVars, Optimizing,
     UnitTypes, PipeTypes, Lines, PlaceOK
<1>12. CASE Exit
  BY <1>12 DEF Exit, Emitted, Plain, Frame, ChildStays, parentVars, boundVars, UnitTypes,
     PipeTypes, Lines, PlaceOK
<1>13. CASE Die
  BY <1>13 DEF Die, Working, Emitted, Plain, Frame, ChildStays, parentVars, boundVars,
     UnitTypes, PipeTypes, Lines, PlaceOK
<1>14. CASE EmitRogue
  BY <1>14 DEF EmitRogue, Misbehave, parentVars, RogueFrames, Plain, Frame, Emitted,
     UnitTypes, PipeTypes, Lines, PlaceOK
<1>15. CASE ClaimSuccess
  BY <1>15 DEF ClaimSuccess, Misbehave, parentVars, UnitTypes, PipeTypes, Lines, PlaceOK
<1>16. CASE EmitUndecodable
  BY <1>16 DEF EmitUndecodable, Misbehave, parentVars, Plain, Frame, UnitTypes, PipeTypes,
     Lines, PlaceOK
<1>17. CASE BlockOnPipe
  BY <1>17 DEF BlockOnPipe, ChildStays, parentVars, boundVars, UnitTypes, PipeTypes,
     Lines, PlaceOK
<1> QED BY <1>1, <1>2, <1>3, <1>4, <1>5, <1>6, <1>7, <1>8, <1>9, <1>10, <1>11, <1>12,
     <1>13, <1>14, <1>15, <1>16, <1>17 DEF ChildSide, Child

-----------------------------------------------------------------------------
(* The place of the child, and the commit of the baseline *)

(* The child goes where its operation leads it. *)
LEMMA ChildKeepsPlace ==
    ASSUME PlaceOK, op \in {"direct", "sweep", "optimize", "reuse"}, ChildSide
    PROVE  PlaceOK'
<1>1. CASE EmitBootstrap
  BY <1>1 DEF EmitBootstrap, Emit, Emitted, ChildStays, parentVars, boundVars, Plain,
     Frame, PlaceOK, Optimizing
<1>2. CASE ReadAuthorization
  BY <1>2 DEF ReadAuthorization, Advance, ChildStays, parentVars, boundVars, HasLine,
     NextAfterAuthorization, ReadLine, AtEnd, PlaceOK, Optimizing
<1>3. CASE RequireEnd
  BY <1>3 DEF RequireEnd, Advance, ChildStays, parentVars, boundVars, AtEnd, PlaceOK,
     Optimizing
<1>4. CASE ReadRecovery
  BY <1>4 DEF ReadRecovery, ReadOr, HasLine, Advance, ChildStays, parentVars, boundVars,
     ReadLine, AtEnd, PlaceOK, Optimizing
<1>5. CASE StageBaseline
  BY <1>5 DEF StageBaseline, Emit, Emitted, ChildStays, parentVars, boundVars, Plain,
     Frame, PlaceOK, Optimizing
<1>6. CASE ReadCommitted
  BY <1>6 DEF ReadCommitted, ReadOr, HasLine, Advance, ChildStays, parentVars, boundVars,
     ReadLine, AtEnd, PlaceOK, Optimizing
<1>7. CASE RequireFinalInput
  BY <1>7 DEF RequireFinalInput, Advance, ChildStays, parentVars, boundVars, AtEnd,
     PlaceOK, Optimizing
<1>8. CASE EmitProgress
  BY <1>8 DEF EmitProgress, Optimizing, Emit, Emitted, ChildStays, parentVars, boundVars,
     Plain, Frame, PlaceOK
<1>9. CASE StagePoint
  BY <1>9 DEF StagePoint, Emit, Emitted, ChildStays, parentVars, boundVars, Frame,
     PlaceOK, Optimizing
<1>10. CASE ReadAcknowledged
  BY <1>10 DEF ReadAcknowledged, HasLine, ReadLine, AtEnd, ChildStays, parentVars,
     boundVars, PlaceOK, Optimizing
<1>11. CASE WriteOutcome
  BY <1>11 DEF WriteOutcome, Advance, ChildStays, parentVars, boundVars, Optimizing,
     PlaceOK
<1>12. CASE Exit
  BY <1>12 DEF Exit, Emitted, Plain, Frame, ChildStays, parentVars, boundVars, PlaceOK,
     Optimizing
<1>13. CASE Die
  BY <1>13 DEF Die, Working, Emitted, Plain, Frame, ChildStays, parentVars, boundVars,
     PlaceOK, Optimizing
<1>14. CASE EmitRogue
  BY <1>14 DEF EmitRogue, Misbehave, parentVars, RogueFrames, Plain, Frame, Emitted,
     PlaceOK, Optimizing
<1>15. CASE ClaimSuccess
  BY <1>15 DEF ClaimSuccess, Misbehave, parentVars, PlaceOK, Optimizing
<1>16. CASE EmitUndecodable
  BY <1>16 DEF EmitUndecodable, Misbehave, parentVars, Plain, Frame, PlaceOK, Optimizing
<1>17. CASE BlockOnPipe
  BY <1>17 DEF BlockOnPipe, ChildStays, parentVars, boundVars, PlaceOK, Optimizing
<1> QED BY <1>1, <1>2, <1>3, <1>4, <1>5, <1>6, <1>7, <1>8, <1>9, <1>10, <1>11, <1>12,
     <1>13, <1>14, <1>15, <1>16, <1>17 DEF ChildSide, Child

(* The baseline is sealed before it is committed, and committed before progress is told. *)
LEMMA ParentKeepsCommit ==
    ASSUME CommitOK, notified \in Nat, durable \in Nat, op \in {"direct", "sweep", "optimize", "reuse"}, ParentSide
    PROVE  CommitOK'
<1>1. CASE EnterTry
  BY <1>1 DEF EnterTry, Goto, Quiet, childVars, pipeVars, diskVars, CommitOK, Early,
     Optimizing
<1>2. CASE ReadBootstrap
  BY <1>2 DEF ReadBootstrap, Take, Goto, Raise, Quiet, childVars, CommitOK, Early,
     Optimizing, diskVars
<1>3. CASE SendAuthorization
  BY <1>3 DEF SendAuthorization, Send, Ended, Raise, Goto, Plain, Frame, Quiet, childVars,
     diskVars, CommitOK, Early, Optimizing
<1>4. CASE SendControl

  <2>1. UNCHANGED <<op, durable, notified>> /\ pc = "control"
    BY <1>4 DEF SendControl, Quiet, diskVars
  <2>2. CASE op # "reuse"
    <3>1. committed' = committed /\ pc' \in {"loop", "handler"}
      BY <1>4, <2>2 DEF SendControl, Send, Raise, Goto
    <3> QED BY <2>1, <2>2, <3>1 DEF CommitOK, Early, Optimizing
  <2>3. CASE op = "reuse" /\ Ended
    <3>1. ~committed' /\ pc' = "handler"
      BY <1>4, <2>3 DEF SendControl, Send, Raise
    <3> QED BY <2>1, <2>3, <3>1 DEF CommitOK, Early, Optimizing
  <2>4. CASE op = "reuse" /\ ~Ended
    <3>1. committed' /\ pc' = "loop"
      BY <1>4, <2>4 DEF SendControl, Send, Goto
    <3> QED BY <2>1, <2>4, <3>1 DEF CommitOK, Early, Optimizing
  <2> QED BY <2>2, <2>3, <2>4
<1>5. CASE RefuseFrame
  BY <1>5 DEF RefuseFrame, Take, OutOfTurn, Optimizing, Raise, Loops, Quiet, childVars,
     CommitOK, Early, diskVars
<1>6. CASE PublishFrame

  <2>1. UNCHANGED <<op, committed, notified>> /\ pc = "loop"
    BY <1>6 DEF PublishFrame, Take, Loops, Quiet
  <2>2. CASE ~Publishable(Head(queue))
    BY <1>6, <2>1, <2>2 DEF PublishFrame, Raise, RefusedAs, CommitOK, Early, Optimizing
  <2>3. CASE Publishable(Head(queue))
    <3>1. pc' = "ack" /\ durable' = durable + 1 /\ (Optimizing => ~committed) /\ op # "direct"
      BY <1>6, <2>3 DEF PublishFrame, Goto, OutOfTurn, Optimizing
    <3> QED BY <2>1, <3>1 DEF CommitOK, Early, Optimizing
  <2> QED BY <2>2, <2>3
<1>7. CASE PublishFails

  <2>1. UNCHANGED <<op, committed, notified>> /\ pc = "loop"
    BY <1>7 DEF PublishFails, PublishErrors, Take, Loops, Quiet
  <2>2. CASE durable' = durable
    BY <1>7, <2>1, <2>2 DEF PublishFails, PublishErrors, Raise, CommitOK, Early, Optimizing
  <2>3. CASE durable' # durable
    <3>1. pc' \in {"handler", "finally"} /\ (Optimizing => ~committed) /\ op # "direct"
      BY <1>7, <2>3 DEF PublishFails, PublishErrors, Raise, OutOfTurn, Optimizing
    <3>2. durable' = durable + 1
      BY <1>7, <2>3 DEF PublishFails
    <3> QED BY <2>1, <3>1, <3>2 DEF CommitOK, Early, Optimizing
  <2> QED BY <2>2, <2>3
<1>8. CASE Acknowledge
  BY <1>8 DEF Acknowledge, Send, Ended, Raise, Goto, Frame, Plain, Quiet, childVars,
     diskVars, CommitOK, Early, Optimizing
<1>9. CASE Progress
  BY <1>9 DEF Progress, TakeInLoop, Take, ProgressAllowed, Optimizing, Goto, Raise, Loops,
     Quiet, childVars, CommitOK, Early, diskVars
<1>10. CASE ProgressRefused
  BY <1>10 DEF ProgressRefused, TakeInLoop, Take, Raise, Loops, Quiet, childVars,
     CommitOK, Early, Optimizing, diskVars
<1>11. CASE Log
  BY <1>11 DEF Log, TakeInLoop, Take, Goto, Loops, Quiet, childVars, CommitOK, Early,
     Optimizing, diskVars
<1>12. CASE EndOfLines
  BY <1>12 DEF EndOfLines, TakeInLoop, Take, Goto, Loops, Quiet, childVars, CommitOK,
     Early, Optimizing, diskVars
<1>13. CASE WaitForExit
  BY <1>13 DEF WaitForExit, Ended, ExitAccepted, Optimizing, Return, Raise, Quiet,
     childVars, pipeVars, diskVars, CommitOK, Early
<1>14. CASE Terminate
  BY <1>14 DEF Terminate, Terminating, TerminatesHere, Ended, Goto, Quiet, childVars,
     pipeVars, diskVars, CommitOK, Early, Optimizing
<1>15. CASE Kill
  BY <1>15 DEF Kill, Terminating, Ended, Goto, pipeVars, diskVars, boundVars, CommitOK,
     Early, Optimizing, childVars
<1>16. CASE HandlerDone
  BY <1>16 DEF HandlerDone, Ended, Goto, Quiet, childVars, pipeVars, diskVars, CommitOK,
     Early, Optimizing
<1>17. CASE CloseStreams
  BY <1>17 DEF CloseStreams, TerminatesHere, Ended, Quiet, childVars, diskVars, CommitOK,
     Early, Optimizing
<1>18. CASE Interrupt
  BY <1>18 DEF Interrupt, Raise, Quiet, childVars, pipeVars, diskVars, CommitOK, Early,
     Optimizing
<1>19. CASE Collect
  BY <1>19 DEF Collect, diskVars, parentVars, childVars, boundVars, CommitOK, Early,
     Optimizing
<1>20. CASE AuthorizeFails
  BY <1>20 DEF AuthorizeFails, Take, Goto, Raise, Quiet, childVars, CommitOK, Early,
     Optimizing, diskVars
<1> QED BY <1>1, <1>2, <1>3, <1>4, <1>5, <1>6, <1>7, <1>8, <1>9, <1>10, <1>11, <1>12,
     <1>13, <1>14, <1>15, <1>16, <1>17, <1>18, <1>19, <1>20 DEF ParentSide, Parent

-----------------------------------------------------------------------------
(* The end of the lines, and the outcome *)

(* A line taken from the queue leaves the end where it was. *)
LEMMA TakeKeepsEnd ==
    ASSUME EndOK, PipeTypes, NEW label, Take(label), child' = child, pc' # "wait"
    PROVE  EndOK'
<1>1. queue \in Seq(Line) /\ queue # <<>> /\ queue' = Tail(queue) /\ broken' = broken
  BY DEF Take, PipeTypes, Lines
<1>2. Silent' = Silent
  BY <1>1 DEF Silent, Ended
<1>3. ASSUME NEW i \in 1 .. Len(queue'), queue'[i].kind = "end"
      PROVE  i = Len(queue') /\ Silent
  <2>1. i + 1 \in 1 .. Len(queue) /\ queue'[i] = queue[i + 1] /\ Len(queue') = Len(queue) - 1
    BY <1>1
  <2> QED BY <1>3, <2>1 DEF EndOK
<1> QED BY <1>2, <1>3 DEF EndOK

(* The parent waits for the exit after the end of the lines. *)
LEMMA ParentKeepsEnd ==
    ASSUME EndOK, PipeTypes, ParentSide
    PROVE  EndOK'
<1>1. CASE EnterTry
  BY <1>1 DEF EnterTry, Goto, Quiet, childVars, pipeVars, diskVars, EndOK, Silent, Ended,
     PipeTypes, Lines
<1>2. CASE ReadBootstrap

  BY <1>2, TakeKeepsEnd DEF ReadBootstrap, TakeInLoop, Goto, Raise, RefusedAs, Loops, Quiet, childVars
<1>3. CASE SendAuthorization
  BY <1>3 DEF SendAuthorization, Send, Ended, Raise, Goto, Plain, Frame, Quiet, childVars,
     diskVars, EndOK, Silent, PipeTypes, Lines, pipeVars
<1>4. CASE SendControl
  BY <1>4 DEF SendControl, Send, Ended, Raise, Goto, Plain, Frame,
     ClosesAfterAuthorization, Quiet, childVars, diskVars, EndOK, Silent, PipeTypes,
     Lines, pipeVars
<1>5. CASE RefuseFrame

  BY <1>5, TakeKeepsEnd DEF RefuseFrame, TakeInLoop, Goto, Raise, RefusedAs, Loops, Quiet, childVars
<1>6. CASE PublishFrame

  BY <1>6, TakeKeepsEnd DEF PublishFrame, TakeInLoop, Goto, Raise, RefusedAs, Loops, Quiet, childVars
<1>7. CASE PublishFails

  BY <1>7, TakeKeepsEnd DEF PublishFails, PublishErrors, Publishable, TakeInLoop, Goto, Raise, RefusedAs, Loops, Quiet, childVars
<1>8. CASE Acknowledge
  BY <1>8 DEF Acknowledge, Send, Ended, Raise, Goto, Frame, Plain, Quiet, childVars,
     diskVars, EndOK, Silent, PipeTypes, Lines, pipeVars
<1>9. CASE Progress

  BY <1>9, TakeKeepsEnd DEF Progress, TakeInLoop, Goto, Raise, RefusedAs, Loops, Quiet, childVars
<1>10. CASE ProgressRefused

  BY <1>10, TakeKeepsEnd DEF ProgressRefused, TakeInLoop, Goto, Raise, RefusedAs, Loops, Quiet, childVars
<1>11. CASE Log

  BY <1>11, TakeKeepsEnd DEF Log, TakeInLoop, Goto, Raise, RefusedAs, Loops, Quiet, childVars
<1>12. CASE EndOfLines
  BY <1>12 DEF EndOfLines, TakeInLoop, Take, Goto, Loops, Quiet, childVars, EndOK, Silent,
     Ended, PipeTypes, Lines, pipeVars
<1>13. CASE WaitForExit
  BY <1>13 DEF WaitForExit, Ended, ExitAccepted, Optimizing, Return, Raise, Quiet,
     childVars, pipeVars, diskVars, EndOK, Silent, PipeTypes, Lines
<1>14. CASE Terminate
  BY <1>14 DEF Terminate, Terminating, TerminatesHere, Ended, Goto, Quiet, childVars,
     pipeVars, diskVars, EndOK, Silent, PipeTypes, Lines
<1>15. CASE Kill
  BY <1>15 DEF Kill, Terminating, Ended, Goto, pipeVars, diskVars, boundVars, EndOK,
     Silent, PipeTypes, Lines, childVars
<1>16. CASE HandlerDone
  BY <1>16 DEF HandlerDone, Ended, Goto, Quiet, childVars, pipeVars, diskVars, EndOK,
     Silent, PipeTypes, Lines
<1>17. CASE CloseStreams
  BY <1>17 DEF CloseStreams, TerminatesHere, Ended, Quiet, childVars, diskVars, EndOK,
     Silent, PipeTypes, Lines, pipeVars
<1>18. CASE Interrupt
  BY <1>18 DEF Interrupt, Raise, Quiet, childVars, pipeVars, diskVars, EndOK, Silent,
     Ended, PipeTypes, Lines
<1>19. CASE Collect
  BY <1>19 DEF Collect, diskVars, parentVars, childVars, boundVars, EndOK, Silent, Ended,
     PipeTypes, Lines, pipeVars
<1>20. CASE AuthorizeFails

  BY <1>20, TakeKeepsEnd DEF AuthorizeFails, TakeInLoop, Goto, Raise, RefusedAs, Loops, Quiet, childVars
<1> QED BY <1>1, <1>2, <1>3, <1>4, <1>5, <1>6, <1>7, <1>8, <1>9, <1>10, <1>11, <1>12,
     <1>13, <1>14, <1>15, <1>16, <1>17, <1>18, <1>19, <1>20 DEF ParentSide, Parent

(* Nothing follows the end of the lines. *)
LEMMA ChildKeepsEnd ==
    ASSUME EndOK, PipeTypes, ChildSide
    PROVE  EndOK'
<1>1. CASE EmitBootstrap
  BY <1>1 DEF EmitBootstrap, Emit, Emitted, ChildStays, parentVars, boundVars, Plain,
     Frame, EndOK, Silent, Ended, PipeTypes, Lines
<1>2. CASE ReadAuthorization
  BY <1>2 DEF ReadAuthorization, Advance, ChildStays, parentVars, boundVars, HasLine,
     NextAfterAuthorization, ReadLine, AtEnd, EndOK, Silent, Ended, PipeTypes, Lines
<1>3. CASE RequireEnd
  BY <1>3 DEF RequireEnd, Advance, ChildStays, parentVars, boundVars, AtEnd, EndOK,
     Silent, Ended, PipeTypes, Lines
<1>4. CASE ReadRecovery
  BY <1>4 DEF ReadRecovery, ReadOr, HasLine, Advance, ChildStays, parentVars, boundVars,
     ReadLine, AtEnd, EndOK, Silent, Ended, PipeTypes, Lines
<1>5. CASE StageBaseline
  BY <1>5 DEF StageBaseline, Emit, Emitted, ChildStays, parentVars, boundVars, Plain,
     Frame, EndOK, Silent, Ended, PipeTypes, Lines
<1>6. CASE ReadCommitted
  BY <1>6 DEF ReadCommitted, ReadOr, HasLine, Advance, ChildStays, parentVars, boundVars,
     ReadLine, AtEnd, EndOK, Silent, Ended, PipeTypes, Lines
<1>7. CASE RequireFinalInput
  BY <1>7 DEF RequireFinalInput, Advance, ChildStays, parentVars, boundVars, AtEnd, EndOK,
     Silent, Ended, PipeTypes, Lines
<1>8. CASE EmitProgress
  BY <1>8 DEF EmitProgress, Optimizing, Emit, Emitted, ChildStays, parentVars, boundVars,
     Plain, Frame, EndOK, Silent, Ended, PipeTypes, Lines
<1>9. CASE StagePoint
  BY <1>9 DEF StagePoint, Emit, Emitted, ChildStays, parentVars, boundVars, Frame, EndOK,
     Silent, Ended, PipeTypes, Lines
<1>10. CASE ReadAcknowledged
  BY <1>10 DEF ReadAcknowledged, HasLine, ReadLine, AtEnd, ChildStays, parentVars,
     boundVars, EndOK, Silent, Ended, PipeTypes, Lines
<1>11. CASE WriteOutcome
  BY <1>11 DEF WriteOutcome, Advance, ChildStays, parentVars, boundVars, Optimizing,
     EndOK, Silent, Ended, PipeTypes, Lines
<1>12. CASE Exit
  BY <1>12 DEF Exit, Emitted, Plain, Frame, ChildStays, parentVars, boundVars, EndOK,
     Silent, Ended, PipeTypes, Lines
<1>13. CASE Die
  BY <1>13 DEF Die, Working, Emitted, Plain, Frame, ChildStays, parentVars, boundVars,
     EndOK, Silent, Ended, PipeTypes, Lines
<1>14. CASE EmitRogue
  BY <1>14 DEF EmitRogue, Misbehave, parentVars, RogueFrames, Plain, Frame, Emitted,
     EndOK, Silent, Ended, PipeTypes, Lines
<1>15. CASE ClaimSuccess
  BY <1>15 DEF ClaimSuccess, Misbehave, parentVars, EndOK, Silent, Ended, PipeTypes, Lines
<1>16. CASE EmitUndecodable
  BY <1>16 DEF EmitUndecodable, Misbehave, parentVars, Plain, Frame, EndOK, Silent, Ended,
     PipeTypes, Lines
<1>17. CASE BlockOnPipe
  BY <1>17 DEF BlockOnPipe, ChildStays, parentVars, boundVars, EndOK, Silent, Ended,
     PipeTypes, Lines
<1> QED BY <1>1, <1>2, <1>3, <1>4, <1>5, <1>6, <1>7, <1>8, <1>9, <1>10, <1>11, <1>12,
     <1>13, <1>14, <1>15, <1>16, <1>17 DEF ChildSide, Child

(* An outcome is accepted from a child that ended well. *)
LEMMA ParentKeepsOutcome ==
    ASSUME OutcomeOK, EndOK, CommitOK, ControlTypes, ParentSide
    PROVE  OutcomeOK'
<1>1. CASE EnterTry
  BY <1>1 DEF EnterTry, Goto, Quiet, childVars, pipeVars, diskVars, OutcomeOK, Clean,
     EndOK, Silent, CommitOK, Optimizing, Ended
<1>2. CASE ReadBootstrap
  BY <1>2 DEF ReadBootstrap, Take, Goto, Raise, Quiet, childVars, OutcomeOK, Clean, EndOK,
     Silent, CommitOK, Optimizing, Ended, pipeVars, diskVars
<1>3. CASE SendAuthorization
  BY <1>3 DEF SendAuthorization, Send, Ended, Raise, Goto, Plain, Frame, Quiet, childVars,
     diskVars, OutcomeOK, Clean, EndOK, Silent, CommitOK, Optimizing, pipeVars
<1>4. CASE SendControl
  BY <1>4 DEF SendControl, Send, Ended, Raise, Goto, Plain, Frame,
     ClosesAfterAuthorization, Quiet, childVars, diskVars, OutcomeOK, Clean, EndOK,
     Silent, CommitOK, Optimizing, pipeVars
<1>5. CASE RefuseFrame
  BY <1>5 DEF RefuseFrame, Take, OutOfTurn, Optimizing, Raise, Loops, Quiet, childVars,
     OutcomeOK, Clean, EndOK, Silent, CommitOK, Ended, pipeVars, diskVars
<1>6. CASE PublishFrame
  BY <1>6 DEF PublishFrame, Take, OutOfTurn, Optimizing, Publishable, Goto, Raise,
     RefusedAs, Loops, Quiet, childVars, OutcomeOK, Clean, EndOK, Silent,
     CommitOK, Ended, pipeVars, diskVars
<1>7. CASE PublishFails
  BY <1>7 DEF PublishFails, PublishErrors, Publishable, Take, OutOfTurn, Optimizing, Raise, Loops, Quiet, childVars,
     OutcomeOK, Clean, EndOK, Silent, CommitOK, Ended, pipeVars, diskVars
<1>8. CASE Acknowledge
  BY <1>8 DEF Acknowledge, Send, Ended, Raise, Goto, Frame, Plain, Quiet, childVars,
     diskVars, OutcomeOK, Clean, EndOK, Silent, CommitOK, Optimizing, pipeVars
<1>9. CASE Progress
  BY <1>9 DEF Progress, TakeInLoop, Take, ProgressAllowed, Optimizing, Goto, Raise, Loops,
     Quiet, childVars, OutcomeOK, Clean, EndOK, Silent, CommitOK, Ended, pipeVars,
     diskVars
<1>10. CASE ProgressRefused
  BY <1>10 DEF ProgressRefused, TakeInLoop, Take, Raise, Loops, Quiet, childVars,
     OutcomeOK, Clean, EndOK, Silent, CommitOK, Optimizing, Ended, pipeVars, diskVars
<1>11. CASE Log
  BY <1>11 DEF Log, TakeInLoop, Take, Goto, Loops, Quiet, childVars, OutcomeOK, Clean,
     EndOK, Silent, CommitOK, Optimizing, Ended, pipeVars, diskVars
<1>12. CASE EndOfLines
  BY <1>12 DEF EndOfLines, TakeInLoop, Take, Goto, Loops, Quiet, childVars, OutcomeOK,
     Clean, EndOK, Silent, CommitOK, Optimizing, Ended, pipeVars, diskVars
<1>13. CASE WaitForExit
  BY <1>13 DEF WaitForExit, Ended, ExitAccepted, Optimizing, Return, Raise, Quiet,
     childVars, pipeVars, diskVars, OutcomeOK, Clean, EndOK, Silent, CommitOK
<1>14. CASE Terminate
  BY <1>14 DEF Terminate, Terminating, TerminatesHere, Ended, Goto, Quiet, childVars,
     pipeVars, diskVars, OutcomeOK, Clean, EndOK, Silent, CommitOK, Optimizing
<1>15. CASE Kill
  BY <1>15 DEF Kill, Terminating, Ended, Goto, pipeVars, diskVars, boundVars, OutcomeOK,
     Clean, EndOK, Silent, CommitOK, Optimizing, childVars
<1>16. CASE HandlerDone
  BY <1>16 DEF HandlerDone, Ended, Goto, Quiet, childVars, pipeVars, diskVars, OutcomeOK,
     Clean, EndOK, Silent, CommitOK, Optimizing
<1>17. CASE CloseStreams

  <2>1. /\ pc = "finally" /\ pc' = "ended" /\ result' \in {raising, "brokenpipe"}
        /\ result' = "brokenpipe" /\ raising # "brokenpipe" => unflushed
    BY <1>17 DEF CloseStreams
  <2>2. UNCHANGED <<op, child, signalled, broken, outcomeFile, queue, committed, durable, raising, unflushed>>
    BY <1>17 DEF CloseStreams, Quiet, childVars, diskVars
  <2>3. raising # "brokenpipe"
    BY DEF ControlTypes, Results
  <2> QED BY <2>1, <2>2, <2>3 DEF OutcomeOK, Clean, Optimizing
<1>18. CASE Interrupt
  BY <1>18 DEF Interrupt, Raise, Quiet, childVars, pipeVars, diskVars, OutcomeOK, Clean,
     EndOK, Silent, CommitOK, Optimizing, Ended
<1>19. CASE Collect
  BY <1>19 DEF Collect, diskVars, parentVars, childVars, boundVars, OutcomeOK, Clean,
     EndOK, Silent, CommitOK, Optimizing, Ended, pipeVars
<1>20. CASE AuthorizeFails
  BY <1>20 DEF AuthorizeFails, Take, Goto, Raise, Quiet, childVars, OutcomeOK, Clean, EndOK,
     Silent, CommitOK, Optimizing, Ended, pipeVars, diskVars
<1> QED BY <1>1, <1>2, <1>3, <1>4, <1>5, <1>6, <1>7, <1>8, <1>9, <1>10, <1>11, <1>12,
     <1>13, <1>14, <1>15, <1>16, <1>17, <1>18, <1>19, <1>20 DEF ParentSide, Parent

(* Only a finally clause that is cut short leaves the child. *)
LEMMA ParentKeepsGone ==
    ASSUME GoneOK, OutcomeOK, ControlTypes, ParentSide
    PROVE  GoneOK'
<1>1. CASE EnterTry
  BY <1>1 DEF EnterTry, Goto, Quiet, childVars, pipeVars, diskVars, GoneOK, Ended,
     ChildGone, ControlTypes, Results
<1>2. CASE ReadBootstrap
  BY <1>2 DEF ReadBootstrap, Take, Goto, Raise, Quiet, childVars, GoneOK, Ended,
     ChildGone, ControlTypes, Results, pipeVars
<1>3. CASE SendAuthorization
  BY <1>3 DEF SendAuthorization, Send, Ended, Raise, Goto, Plain, Frame, Quiet, childVars,
     diskVars, GoneOK, ChildGone, ControlTypes, Results, pipeVars
<1>4. CASE SendControl
  BY <1>4 DEF SendControl, Send, Ended, Raise, Goto, Plain, Frame,
     ClosesAfterAuthorization, Quiet, childVars, diskVars, GoneOK, ChildGone, ControlTypes, Results,
     pipeVars
<1>5. CASE RefuseFrame
  BY <1>5 DEF RefuseFrame, Take, OutOfTurn, Optimizing, Raise, Loops, Quiet, childVars,
     GoneOK, Ended, ChildGone, ControlTypes, Results, pipeVars
<1>6. CASE PublishFrame
  BY <1>6 DEF PublishFrame, Take, OutOfTurn, Optimizing, Publishable, Goto, Raise,
     RefusedAs, Loops, Quiet, childVars, GoneOK, Ended, ChildGone, ControlTypes, Results,
     pipeVars
<1>7. CASE PublishFails
  BY <1>7 DEF PublishFails, PublishErrors, Publishable, Take, OutOfTurn, Optimizing, Raise, Loops, Quiet, childVars,
     GoneOK, Ended, ChildGone, ControlTypes, Results, pipeVars
<1>8. CASE Acknowledge
  BY <1>8 DEF Acknowledge, Send, Ended, Raise, Goto, Frame, Plain, Quiet, childVars,
     diskVars, GoneOK, ChildGone, ControlTypes, Results, pipeVars
<1>9. CASE Progress
  BY <1>9 DEF Progress, TakeInLoop, Take, ProgressAllowed, Optimizing, Goto, Raise, Loops,
     Quiet, childVars, GoneOK, Ended, ChildGone, ControlTypes, Results, pipeVars
<1>10. CASE ProgressRefused
  BY <1>10 DEF ProgressRefused, TakeInLoop, Take, Raise, Loops, Quiet, childVars, GoneOK,
     Ended, ChildGone, ControlTypes, Results, pipeVars
<1>11. CASE Log
  BY <1>11 DEF Log, TakeInLoop, Take, Goto, Loops, Quiet, childVars, GoneOK, Ended,
     ChildGone, ControlTypes, Results, pipeVars
<1>12. CASE EndOfLines
  BY <1>12 DEF EndOfLines, TakeInLoop, Take, Goto, Loops, Quiet, childVars, GoneOK, Ended,
     ChildGone, ControlTypes, Results, pipeVars
<1>13. CASE WaitForExit
  BY <1>13 DEF WaitForExit, Ended, ExitAccepted, Optimizing, Return, Raise, Quiet,
     childVars, pipeVars, diskVars, GoneOK, ChildGone, ControlTypes, Results
<1>14. CASE Terminate
  BY <1>14 DEF Terminate, Terminating, TerminatesHere, Ended, Goto, Quiet, childVars,
     pipeVars, diskVars, GoneOK, ChildGone, ControlTypes, Results
<1>15. CASE Kill
  BY <1>15 DEF Kill, Terminating, Ended, Goto, pipeVars, diskVars, boundVars, GoneOK,
     ChildGone, ControlTypes, Results, childVars
<1>16. CASE HandlerDone
  BY <1>16 DEF HandlerDone, Ended, Goto, Quiet, childVars, pipeVars, diskVars, GoneOK,
     OutcomeOK, ChildGone, ControlTypes, Results
<1>17. CASE CloseStreams
  BY <1>17 DEF CloseStreams, TerminatesHere, Ended, Quiet, childVars, diskVars, GoneOK,
     ChildGone, ControlTypes, Results, pipeVars
<1>18. CASE Interrupt
  BY <1>18 DEF Interrupt, Raise, Quiet, childVars, pipeVars, diskVars, GoneOK, Ended,
     ChildGone, ControlTypes, Results
<1>19. CASE Collect
  BY <1>19 DEF Collect, diskVars, parentVars, childVars, boundVars, GoneOK, Ended,
     ChildGone, ControlTypes, Results, pipeVars
<1>20. CASE AuthorizeFails
  BY <1>20 DEF AuthorizeFails, Take, Goto, Raise, Quiet, childVars, GoneOK, Ended,
     ChildGone, ControlTypes, Results, pipeVars
<1> QED BY <1>1, <1>2, <1>3, <1>4, <1>5, <1>6, <1>7, <1>8, <1>9, <1>10, <1>11, <1>12,
     <1>13, <1>14, <1>15, <1>16, <1>17, <1>18, <1>19, <1>20 DEF ParentSide, Parent

(* After what ends a run unsealed nothing is told to the child. *)
LEMMA ParentKeepsFailure ==
    ASSUME FailureOK, GoneOK, CommitOK, ControlTypes, ParentSide
    PROVE  FailureOK'
<1>1. CASE EnterTry
  BY <1>1 DEF EnterTry, Goto, Quiet, childVars, pipeVars, diskVars, FailureOK, GoneOK, CommitOK, Early, Optimizing, Ended,
     ControlTypes, Results
<1>2. CASE ReadBootstrap
  BY <1>2 DEF ReadBootstrap, Take, Goto, Raise, Quiet, childVars, FailureOK, GoneOK, CommitOK, Early, Optimizing, Ended,
     ControlTypes, Results, pipeVars
<1>3. CASE SendAuthorization
  BY <1>3 DEF SendAuthorization, Send, Ended, Raise, Goto, Plain, Frame, Quiet, childVars,
     diskVars, FailureOK, GoneOK, CommitOK, Early, Optimizing, ControlTypes, Results, pipeVars
<1>4. CASE SendControl
  BY <1>4 DEF SendControl, Send, Ended, Raise, Goto, Plain, Frame,
     ClosesAfterAuthorization, Quiet, childVars, diskVars, FailureOK, GoneOK, CommitOK, Early, Optimizing, ControlTypes, Results,
     pipeVars
<1>5. CASE RefuseFrame
  BY <1>5 DEF RefuseFrame, Take, OutOfTurn, Optimizing, Raise, Loops, Quiet, childVars,
     FailureOK, GoneOK, CommitOK, Early, Optimizing, Ended, ControlTypes, Results, pipeVars
<1>6. CASE PublishFrame
  BY <1>6 DEF PublishFrame, Take, OutOfTurn, Optimizing, Publishable, Goto, Raise,
     RefusedAs, Loops, Quiet, childVars, FailureOK, GoneOK, CommitOK, Early, Optimizing, Ended, ControlTypes, Results,
     pipeVars
<1>7. CASE PublishFails
  BY <1>7 DEF PublishFails, PublishErrors, Publishable, Take, OutOfTurn, Optimizing, Raise, Loops, Quiet, childVars,
     FailureOK, GoneOK, CommitOK, Early, Optimizing, Ended, ControlTypes, Results, pipeVars
<1>8. CASE Acknowledge
  BY <1>8 DEF Acknowledge, Send, Ended, Raise, Goto, Frame, Plain, Quiet, childVars,
     diskVars, FailureOK, GoneOK, CommitOK, Early, Optimizing, ControlTypes, Results, pipeVars
<1>9. CASE Progress
  BY <1>9 DEF Progress, TakeInLoop, Take, ProgressAllowed, Optimizing, Goto, Raise, Loops,
     Quiet, childVars, FailureOK, GoneOK, CommitOK, Early, Optimizing, Ended, ControlTypes, Results, pipeVars
<1>10. CASE ProgressRefused
  BY <1>10 DEF ProgressRefused, TakeInLoop, Take, Raise, Loops, Quiet, childVars,
     FailureOK, GoneOK, CommitOK, Early, Optimizing, Ended, ControlTypes, Results, pipeVars
<1>11. CASE Log
  BY <1>11 DEF Log, TakeInLoop, Take, Goto, Loops, Quiet, childVars, FailureOK, GoneOK, CommitOK, Early, Optimizing, Ended,
     ControlTypes, Results, pipeVars
<1>12. CASE EndOfLines
  BY <1>12 DEF EndOfLines, TakeInLoop, Take, Goto, Loops, Quiet, childVars, FailureOK, GoneOK, CommitOK, Early, Optimizing, Ended,
     ControlTypes, Results, pipeVars
<1>13. CASE WaitForExit
  BY <1>13 DEF WaitForExit, Ended, ExitAccepted, Optimizing, Return, Raise, Quiet,
     childVars, pipeVars, diskVars, FailureOK, GoneOK, CommitOK, Early, Optimizing, ControlTypes, Results
<1>14. CASE Terminate
  BY <1>14 DEF Terminate, Terminating, TerminatesHere, Ended, Goto, Quiet, childVars,
     pipeVars, diskVars, FailureOK, GoneOK, CommitOK, Early, Optimizing, ControlTypes, Results
<1>15. CASE Kill
  BY <1>15 DEF Kill, Terminating, Ended, Goto, pipeVars, diskVars, boundVars, FailureOK, GoneOK,
     CommitOK, Early, Optimizing, ControlTypes, Results, childVars
<1>16. CASE HandlerDone
  BY <1>16 DEF HandlerDone, Ended, Goto, Quiet, childVars, pipeVars, diskVars, FailureOK, GoneOK,
     CommitOK, Early, Optimizing, ControlTypes, Results
<1>17. CASE CloseStreams
  BY <1>17 DEF CloseStreams, TerminatesHere, Ended, Quiet, childVars, diskVars, FailureOK, GoneOK,
     CommitOK, Early, Optimizing, ControlTypes, Results, pipeVars
<1>18. CASE Interrupt
  BY <1>18 DEF Interrupt, Raise, Quiet, childVars, pipeVars, diskVars, FailureOK, GoneOK, CommitOK, Early, Optimizing, Ended,
     ControlTypes, Results
<1>19. CASE Collect
  BY <1>19 DEF Collect, diskVars, parentVars, childVars, boundVars, FailureOK, GoneOK, CommitOK, Early, Optimizing, Ended,
     ControlTypes, Results, pipeVars
<1>20. CASE AuthorizeFails
  BY <1>20 DEF AuthorizeFails, Take, Goto, Raise, Quiet, childVars, FailureOK, GoneOK, CommitOK, Early, Optimizing, Ended,
     ControlTypes, Results, pipeVars
<1> QED BY <1>1, <1>2, <1>3, <1>4, <1>5, <1>6, <1>7, <1>8, <1>9, <1>10, <1>11, <1>12,
     <1>13, <1>14, <1>15, <1>16, <1>17, <1>18, <1>19, <1>20 DEF ParentSide, Parent

(* A child that has ended does not come back. *)
LEMMA ChildKeepsGone ==
    ASSUME GoneOK, ChildSide
    PROVE  GoneOK'
<1>1. ~Ended /\ UNCHANGED <<pc, raising, result, interrupts>>
  BY EndedIsQuiet, ChildLeaves DEF parentVars
<1> QED BY <1>1 DEF GoneOK, ChildGone

-----------------------------------------------------------------------------
(* What the two sides agree on *)

(* A line that is read, and those behind it, are true. *)
LEMMA ReadTrueLine ==
    ASSUME LinesOK, PipeTypes, stdin.lines # <<>>
    PROVE  /\ Head(stdin.lines) \in Line /\ LineOK(Head(stdin.lines))
           /\ \A i \in 1 .. Len(Tail(stdin.lines)) : LineOK(Tail(stdin.lines)[i])
<1>1. stdin.lines \in Seq(Line)
  BY DEF PipeTypes, Lines
<1>2. Head(stdin.lines) = stdin.lines[1] /\ 1 \in 1 .. Len(stdin.lines) /\ Head(stdin.lines) \in Line
  BY <1>1
<1>3. ASSUME NEW i \in 1 .. Len(Tail(stdin.lines))
      PROVE  i + 1 \in 1 .. Len(stdin.lines) /\ Tail(stdin.lines)[i] = stdin.lines[i + 1]
  BY <1>1
<1> QED BY <1>2, <1>3 DEF LinesOK

(* Lines stay true while nothing is sealed. *)
LEMMA LinesStayTrue ==
    ASSUME UNCHANGED <<op, recovered, durable>>,
           \A i \in 1 .. Len(stdin'.lines) : LineOK(stdin'.lines[i])
    PROVE  LinesOK'
BY DEF LinesOK, LineOK, Optimizing

LEMMA SendTrueLine ==
    ASSUME LinesOK, PipeTypes, NEW line \in Line, NEW close, NEW label,
           Send(<<line>>, close, label), LineOK(line), UNCHANGED <<op, recovered, durable>>
    PROVE  LinesOK'
<1>1. CASE Ended
  BY <1>1, LinesStayTrue DEF Send, LinesOK
<1>2. CASE ~Ended
  <2>1. stdin.lines \in Seq(Line) /\ stdin'.lines = stdin.lines \o <<line>>
    BY <1>2 DEF Send, PipeTypes, Lines
  <2>2. ASSUME NEW i \in 1 .. Len(stdin'.lines)
        PROVE  LineOK(stdin'.lines[i])
    <3>1. CASE i \in 1 .. Len(stdin.lines)
      <4>1. stdin'.lines[i] = stdin.lines[i]
        BY <2>1, <3>1
      <4> QED BY <3>1, <4>1 DEF LinesOK
    <3>2. CASE i = Len(stdin.lines) + 1
      <4>1. stdin'.lines[i] = line
        BY <2>1, <3>2
      <4> QED BY <4>1
    <3> QED BY <2>1, <3>1, <3>2
  <2> QED BY <2>2, LinesStayTrue
<1> QED BY <1>1, <1>2

(* What the parent sends is true, and stays true. *)
LEMMA ParentKeepsLines ==
    ASSUME LinesOK, CommitOK, PipeTypes, UnitTypes, op \in {"direct", "sweep", "optimize", "reuse"}, ParentSide
    PROVE  LinesOK'
<1>1. CASE EnterTry

  <2>1. UNCHANGED <<op, recovered, durable>> /\ stdin'.lines = stdin.lines
    BY <1>1 DEF EnterTry, Goto, Quiet, childVars, pipeVars, diskVars, PipeTypes
  <2> QED BY <2>1, LinesStayTrue DEF LinesOK
<1>2. CASE ReadBootstrap

  <2>1. UNCHANGED <<op, recovered, durable>> /\ stdin'.lines = stdin.lines
    BY <1>2 DEF ReadBootstrap, Take, Goto, Raise, Quiet, childVars, pipeVars, diskVars,
       PipeTypes
  <2> QED BY <2>1, LinesStayTrue DEF LinesOK
<1>3. CASE SendAuthorization

  <2>1. Plain("authorization") \in Line /\ LineOK(Plain("authorization"))
    BY LinePlain DEF Kinds, LineOK, Plain, Frame
  <2> QED BY <1>3, <2>1, SendTrueLine DEF SendAuthorization, Quiet, diskVars
<1>4. CASE SendControl

  <2>1. /\ Plain("committed") \in Line /\ (op = "reuse" => LineOK(Plain("committed")))
        /\ Frame("recovery", recovered) \in Line /\ LineOK(Frame("recovery", recovered))
    BY LinePlain, LineFrame DEF Kinds, LineOK, Plain, Frame, CommitOK, Optimizing, UnitTypes
  <2>2. UNCHANGED <<op, recovered, durable>>
    BY <1>4 DEF SendControl, Quiet, diskVars
  <2>3. CASE op = "reuse"
    BY <1>4, <2>1, <2>2, <2>3, SendTrueLine DEF SendControl
  <2>4. CASE op = "sweep"
    BY <1>4, <2>1, <2>2, <2>4, SendTrueLine DEF SendControl
  <2>5. CASE op \notin {"reuse", "sweep"}
    <3>1. stdin'.lines = stdin.lines
      BY <1>4, <2>5 DEF SendControl, PipeTypes
    <3> QED BY <2>2, <3>1, LinesStayTrue DEF LinesOK
  <2> QED BY <2>3, <2>4, <2>5
<1>5. CASE RefuseFrame

  <2>1. UNCHANGED <<op, recovered, durable>> /\ stdin'.lines = stdin.lines
    BY <1>5 DEF RefuseFrame, Take, OutOfTurn, Raise, Loops, Quiet, childVars, pipeVars,
       diskVars, PipeTypes
  <2> QED BY <2>1, LinesStayTrue DEF LinesOK
<1>6. CASE PublishFrame

  <2>1. UNCHANGED <<op, recovered, stdin>>
    BY <1>6 DEF PublishFrame, Take, Loops, Quiet
  <2>2. CASE ~Publishable(Head(queue))
    BY <1>6, <2>1, <2>2, LinesStayTrue DEF PublishFrame, LinesOK
  <2>3. CASE Publishable(Head(queue))
    <3>1. durable' = durable + 1 /\ (Optimizing => durable = 0)
      BY <1>6, <2>3 DEF PublishFrame, Take, OutOfTurn, CommitOK, Optimizing
    <3>2. ASSUME NEW line \in Line, LineOK(line)
          PROVE  LineOK(line)'
      BY <2>1, <3>1, <3>2 DEF LineOK, Optimizing, UnitTypes, Line
    <3>3. \A i \in 1 .. Len(stdin.lines) : stdin.lines[i] \in Line
      BY DEF PipeTypes, Lines
    <3> QED BY <2>1, <3>2, <3>3 DEF LinesOK
  <2> QED BY <2>2, <2>3
<1>7. CASE PublishFails

  <2>1. UNCHANGED <<op, recovered, stdin>>
    BY <1>7 DEF PublishFails, PublishErrors, Take, Loops, Quiet
  <2>2. CASE durable' = durable
    BY <1>7, <2>1, <2>2, LinesStayTrue DEF PublishFails, PublishErrors, LinesOK
  <2>3. CASE durable' # durable
    <3>1. durable' = durable + 1 /\ (Optimizing => durable = 0)
      BY <1>7, <2>3 DEF PublishFails, PublishErrors, Take, OutOfTurn, CommitOK, Optimizing
    <3>2. ASSUME NEW line \in Line, LineOK(line)
          PROVE  LineOK(line)'
      BY <2>1, <3>1, <3>2 DEF LineOK, Optimizing, UnitTypes, Line
    <3>3. \A i \in 1 .. Len(stdin.lines) : stdin.lines[i] \in Line
      BY DEF PipeTypes, Lines
    <3> QED BY <2>1, <3>2, <3>3 DEF LinesOK
  <2> QED BY <2>2, <2>3
<1>8. CASE Acknowledge

  <2>1. UNCHANGED <<op, recovered, durable>> /\ pc = "ack"
    BY <1>8 DEF Acknowledge, Quiet, diskVars
  <2>2. CASE op = "sweep"
    <3>1. Frame("acknowledged", durable - 1) \in Line /\ LineOK(Frame("acknowledged", durable - 1))
      BY <2>1, <2>2, LineFrame, ProtocolAssumption DEF Kinds, LineOK, Frame, CommitOK, UnitTypes
    <3> QED BY <1>8, <2>1, <2>2, <3>1, SendTrueLine DEF Acknowledge
  <2>3. CASE op # "sweep"
    <3>1. Plain("committed") \in Line /\ LineOK(Plain("committed"))
      BY <2>1, <2>3, LinePlain DEF Kinds, LineOK, Plain, Frame, CommitOK, Optimizing
    <3> QED BY <1>8, <2>1, <2>3, <3>1, SendTrueLine DEF Acknowledge
  <2> QED BY <2>2, <2>3
<1>9. CASE Progress

  <2>1. UNCHANGED <<op, recovered, durable>> /\ stdin'.lines = stdin.lines
    BY <1>9 DEF Progress, TakeInLoop, Take, ProgressAllowed, Goto, Raise, Loops, Quiet,
       childVars, pipeVars, diskVars, PipeTypes
  <2> QED BY <2>1, LinesStayTrue DEF LinesOK
<1>10. CASE ProgressRefused

  <2>1. UNCHANGED <<op, recovered, durable>> /\ stdin'.lines = stdin.lines
    BY <1>10 DEF ProgressRefused, TakeInLoop, Take, Raise, Loops, Quiet, childVars, pipeVars,
       diskVars, PipeTypes
  <2> QED BY <2>1, LinesStayTrue DEF LinesOK
<1>11. CASE Log

  <2>1. UNCHANGED <<op, recovered, durable>> /\ stdin'.lines = stdin.lines
    BY <1>11 DEF Log, TakeInLoop, Take, Goto, Loops, Quiet, childVars, pipeVars, diskVars,
       PipeTypes
  <2> QED BY <2>1, LinesStayTrue DEF LinesOK
<1>12. CASE EndOfLines

  <2>1. UNCHANGED <<op, recovered, durable>> /\ stdin'.lines = stdin.lines
    BY <1>12 DEF EndOfLines, TakeInLoop, Take, Goto, Loops, Quiet, childVars, pipeVars,
       diskVars, PipeTypes
  <2> QED BY <2>1, LinesStayTrue DEF LinesOK
<1>13. CASE WaitForExit

  <2>1. UNCHANGED <<op, recovered, durable>> /\ stdin'.lines = stdin.lines
    BY <1>13 DEF WaitForExit, Ended, ExitAccepted, Return, Raise, Quiet, childVars, pipeVars,
       diskVars, PipeTypes
  <2> QED BY <2>1, LinesStayTrue DEF LinesOK
<1>14. CASE Terminate

  <2>1. UNCHANGED <<op, recovered, durable>> /\ stdin'.lines = stdin.lines
    BY <1>14 DEF Terminate, Terminating, TerminatesHere, Ended, Goto, Quiet, childVars,
       pipeVars, diskVars, PipeTypes
  <2> QED BY <2>1, LinesStayTrue DEF LinesOK
<1>15. CASE Kill

  <2>1. UNCHANGED <<op, recovered, durable>> /\ stdin'.lines = stdin.lines
    BY <1>15 DEF Kill, Terminating, Ended, Goto, pipeVars, diskVars, boundVars, childVars,
       PipeTypes
  <2> QED BY <2>1, LinesStayTrue DEF LinesOK
<1>16. CASE HandlerDone

  <2>1. UNCHANGED <<op, recovered, durable>> /\ stdin'.lines = stdin.lines
    BY <1>16 DEF HandlerDone, Ended, Goto, Quiet, childVars, pipeVars, diskVars, PipeTypes
  <2> QED BY <2>1, LinesStayTrue DEF LinesOK
<1>17. CASE CloseStreams

  <2>1. UNCHANGED <<op, recovered, durable>> /\ stdin'.lines = stdin.lines
    BY <1>17 DEF CloseStreams, TerminatesHere, Ended, Quiet, childVars, diskVars, pipeVars,
       PipeTypes
  <2> QED BY <2>1, LinesStayTrue DEF LinesOK
<1>18. CASE Interrupt

  <2>1. UNCHANGED <<op, recovered, durable>> /\ stdin'.lines = stdin.lines
    BY <1>18 DEF Interrupt, Raise, Quiet, childVars, pipeVars, diskVars, PipeTypes
  <2> QED BY <2>1, LinesStayTrue DEF LinesOK
<1>19. CASE Collect

  <2>1. UNCHANGED <<op, recovered, durable>> /\ stdin'.lines = stdin.lines
    BY <1>19 DEF Collect, diskVars, parentVars, childVars, boundVars, pipeVars, PipeTypes
  <2> QED BY <2>1, LinesStayTrue DEF LinesOK
<1>20. CASE AuthorizeFails

  <2>1. UNCHANGED <<op, recovered, durable>> /\ stdin'.lines = stdin.lines
    BY <1>20 DEF AuthorizeFails, Take, Goto, Raise, Quiet, childVars, pipeVars, diskVars,
       PipeTypes
  <2> QED BY <2>1, LinesStayTrue DEF LinesOK
<1> QED BY <1>1, <1>2, <1>3, <1>4, <1>5, <1>6, <1>7, <1>8, <1>9, <1>10, <1>11, <1>12,
     <1>13, <1>14, <1>15, <1>16, <1>17, <1>18, <1>19, <1>20 DEF ParentSide, Parent

(* Lines that the child reads have been true. *)
LEMMA ChildKeepsLines ==
    ASSUME LinesOK, PipeTypes, ChildSide
    PROVE  LinesOK'
<1>1. CASE EmitBootstrap

  BY <1>1, LinesStayTrue DEF EmitBootstrap, Emit, ChildStays, LinesOK
<1>2. CASE ReadAuthorization

  <2>1. \/ stdin' = stdin
        \/ stdin.lines # <<>> /\ stdin'.lines = Tail(stdin.lines)
    BY <1>2 DEF ReadAuthorization, ReadOr, ReadLine, HasLine, PipeTypes
  <2>2. UNCHANGED <<op, recovered, durable>>
    BY <1>2 DEF ReadAuthorization, ReadOr, Advance, ChildStays
  <2> QED BY <2>1, <2>2, ReadTrueLine, LinesStayTrue DEF LinesOK
<1>3. CASE RequireEnd

  BY <1>3, LinesStayTrue DEF RequireEnd, Advance, ChildStays, LinesOK
<1>4. CASE ReadRecovery

  <2>1. \/ stdin' = stdin
        \/ stdin.lines # <<>> /\ stdin'.lines = Tail(stdin.lines)
    BY <1>4 DEF ReadRecovery, ReadOr, ReadLine, HasLine, PipeTypes
  <2>2. UNCHANGED <<op, recovered, durable>>
    BY <1>4 DEF ReadRecovery, ReadOr, Advance, ChildStays
  <2> QED BY <2>1, <2>2, ReadTrueLine, LinesStayTrue DEF LinesOK
<1>5. CASE StageBaseline

  BY <1>5, LinesStayTrue DEF StageBaseline, Emit, ChildStays, LinesOK
<1>6. CASE ReadCommitted

  <2>1. \/ stdin' = stdin
        \/ stdin.lines # <<>> /\ stdin'.lines = Tail(stdin.lines)
    BY <1>6 DEF ReadCommitted, ReadOr, ReadLine, HasLine, PipeTypes
  <2>2. UNCHANGED <<op, recovered, durable>>
    BY <1>6 DEF ReadCommitted, ReadOr, Advance, ChildStays
  <2> QED BY <2>1, <2>2, ReadTrueLine, LinesStayTrue DEF LinesOK
<1>7. CASE RequireFinalInput

  BY <1>7, LinesStayTrue DEF RequireFinalInput, Advance, ChildStays, LinesOK
<1>8. CASE EmitProgress

  BY <1>8, LinesStayTrue DEF EmitProgress, Emit, ChildStays, LinesOK
<1>9. CASE StagePoint

  BY <1>9, LinesStayTrue DEF StagePoint, Emit, ChildStays, LinesOK
<1>10. CASE ReadAcknowledged

  <2>1. \/ stdin' = stdin
        \/ stdin.lines # <<>> /\ stdin'.lines = Tail(stdin.lines)
    BY <1>10 DEF ReadAcknowledged, ReadOr, ReadLine, HasLine, PipeTypes
  <2>2. UNCHANGED <<op, recovered, durable>>
    BY <1>10 DEF ReadAcknowledged, ReadOr, Advance, ChildStays
  <2> QED BY <2>1, <2>2, ReadTrueLine, LinesStayTrue DEF LinesOK
<1>11. CASE WriteOutcome

  BY <1>11, LinesStayTrue DEF WriteOutcome, Advance, ChildStays, LinesOK
<1>12. CASE Exit

  BY <1>12, LinesStayTrue DEF Exit, ChildStays, LinesOK
<1>13. CASE Die

  BY <1>13, LinesStayTrue DEF Die, ChildStays, LinesOK
<1>14. CASE EmitRogue

  BY <1>14, LinesStayTrue DEF EmitRogue, Misbehave, LinesOK
<1>15. CASE ClaimSuccess

  BY <1>15, LinesStayTrue DEF ClaimSuccess, Misbehave, LinesOK
<1>16. CASE EmitUndecodable

  BY <1>16, LinesStayTrue DEF EmitUndecodable, Misbehave, LinesOK
<1>17. CASE BlockOnPipe

  BY <1>17, LinesStayTrue DEF BlockOnPipe, ChildStays, LinesOK
<1> QED BY <1>1, <1>2, <1>3, <1>4, <1>5, <1>6, <1>7, <1>8, <1>9, <1>10, <1>11, <1>12,
     <1>13, <1>14, <1>15, <1>16, <1>17 DEF ChildSide, Child

(* What the child has been told of the baseline and of the points. *)
LEMMA SendUntold ==
    ASSUME Untold, PipeTypes, NEW line \in Line, NEW close, NEW label,
           Send(<<line>>, close, label), line.kind # "committed"
    PROVE  Untold'
<1>1. CASE Ended
  BY <1>1 DEF Send, Untold
<1>2. CASE ~Ended
  <2>1. stdin.lines \in Seq(Line) /\ stdin'.lines = stdin.lines \o <<line>>
    BY <1>2 DEF Send, PipeTypes, Lines
  <2>2. ASSUME NEW i \in 1 .. Len(stdin'.lines)
        PROVE  stdin'.lines[i].kind # "committed"
    <3>1. CASE i \in 1 .. Len(stdin.lines)
      <4>1. stdin'.lines[i] = stdin.lines[i]
        BY <2>1, <3>1
      <4> QED BY <3>1, <4>1 DEF Untold
    <3>2. CASE i = Len(stdin.lines) + 1
      <4>1. stdin'.lines[i] = line
        BY <2>1, <3>2
      <4> QED BY <4>1
    <3> QED BY <2>1, <3>1, <3>2
  <2> QED BY <2>2 DEF Untold
<1> QED BY <1>1, <1>2

(* The parent tells the child of a commit when it notes it. *)
Told ==
    /\ durable' \in {durable, durable + 1}
    /\ Optimizing => \/ committed'
                     \/ ~committed /\ ~committed' /\ (Untold => Untold')

LEMMA ParentTells ==
    ASSUME ControlTypes, UnitTypes, PipeTypes, CommitOK, ParentSide
    PROVE  Told
<1>a. ASSUME UNCHANGED committed, stdin'.lines = stdin.lines, durable' \in {durable, durable + 1}
      PROVE  Told
  BY <1>a DEF Told, Untold, ControlTypes
<1>1. CASE EnterTry
  BY <1>a, <1>1 DEF EnterTry, pipeVars, diskVars
<1>2. CASE ReadBootstrap
  BY <1>a, <1>2 DEF ReadBootstrap, Take, Goto, Raise
<1>3. CASE SendAuthorization
  <2>1. Plain("authorization") \in Line /\ Plain("authorization").kind # "committed"
    BY LinePlain DEF Kinds, Plain, Frame
  <2>2. UNCHANGED <<committed, durable>> /\ pc = "send"
    BY <1>3 DEF SendAuthorization, diskVars
  <2>3. Untold => Untold'
    BY <1>3, <2>1, SendUntold DEF SendAuthorization
  <2> QED BY <2>2, <2>3 DEF Told, CommitOK, Early
<1>4. CASE SendControl
  <2>1. durable' = durable /\ pc = "control"
    BY <1>4 DEF SendControl, diskVars
  <2>2. CASE op = "reuse"
    <3>1. committed' = ~Ended
      BY <1>4, <2>2 DEF SendControl
    <3>2. CASE Ended
      <4>1. ~committed' /\ stdin' = stdin
        BY <1>4, <2>2, <3>1, <3>2 DEF SendControl, Send
      <4> QED BY <2>1, <4>1 DEF Told, CommitOK, Early, Untold
    <3> QED BY <2>1, <3>1, <3>2 DEF Told
  <2>3. CASE op = "sweep"
    BY <2>1, <2>3 DEF Told, Optimizing
  <2>4. CASE op \notin {"reuse", "sweep"}
    <3>1. committed' = committed /\ stdin'.lines = stdin.lines
      BY <1>4, <2>4 DEF SendControl, PipeTypes
    <3> QED BY <1>a, <2>1, <3>1
  <2> QED BY <2>2, <2>3, <2>4
<1>5. CASE RefuseFrame
  BY <1>a, <1>5 DEF RefuseFrame, Take, Raise, Loops
<1>6. CASE PublishFrame
  BY <1>a, <1>6 DEF PublishFrame, Take, Goto, Raise, Loops
<1>7. CASE PublishFails
  BY <1>a, <1>7 DEF PublishFails, Take, Raise, Loops
<1>8. CASE Acknowledge
  <2>1. durable' = durable /\ pc = "ack"
    BY <1>8 DEF Acknowledge, diskVars
  <2>2. CASE op = "sweep"
    BY <2>1, <2>2 DEF Told, Optimizing
  <2>3. CASE op # "sweep"
    <3>1. committed' = ~Ended
      BY <1>8, <2>3 DEF Acknowledge
    <3>2. CASE Ended
      <4>1. ~committed' /\ stdin' = stdin
        BY <1>8, <2>3, <3>1, <3>2 DEF Acknowledge, Send
      <4> QED BY <2>1, <4>1 DEF Told, CommitOK, Untold
    <3> QED BY <2>1, <3>1, <3>2 DEF Told
  <2> QED BY <2>2, <2>3
<1>9. CASE Progress
  BY <1>a, <1>9 DEF Progress, TakeInLoop, Take, Loops
<1>10. CASE ProgressRefused
  BY <1>a, <1>10 DEF ProgressRefused, TakeInLoop, Take, Loops
<1>11. CASE Log
  BY <1>a, <1>11 DEF Log, TakeInLoop, Take, Loops
<1>12. CASE EndOfLines
  BY <1>a, <1>12 DEF EndOfLines, TakeInLoop, Take, Loops
<1>13. CASE WaitForExit
  BY <1>a, <1>13 DEF WaitForExit, pipeVars, diskVars
<1>14. CASE Terminate
  BY <1>a, <1>14 DEF Terminate, pipeVars, diskVars
<1>15. CASE Kill
  BY <1>a, <1>15 DEF Kill, pipeVars, diskVars
<1>16. CASE HandlerDone
  BY <1>a, <1>16 DEF HandlerDone, pipeVars, diskVars
<1>17. CASE CloseStreams
  BY <1>a, <1>17 DEF CloseStreams, diskVars, PipeTypes
<1>18. CASE Interrupt
  BY <1>a, <1>18 DEF Interrupt, pipeVars, diskVars
<1>19. CASE Collect
  BY <1>a, <1>19 DEF Collect, diskVars, parentVars, PipeTypes
<1>20. CASE AuthorizeFails
  BY <1>a, <1>20 DEF AuthorizeFails, Take, Raise
<1> QED BY <1>1, <1>2, <1>3, <1>4, <1>5, <1>6, <1>7, <1>8, <1>9, <1>10, <1>11, <1>12,
     <1>13, <1>14, <1>15, <1>16, <1>17, <1>18, <1>19, <1>20 DEF ParentSide, Parent

LEMMA ParentKeepsKnown ==
    ASSUME KnownOK, ControlTypes, UnitTypes, PipeTypes, CommitOK, ParentSide
    PROVE  KnownOK'
<1>1. Told /\ durable \in Nat /\ recovered \in Nat /\ acked \in Nat
  BY ParentTells DEF UnitTypes
<1>2. UNCHANGED <<op, recovered, acked, computed>> /\ child' \in {child, "dead"}
  BY ParentLeaves
<1>3. ASSUME op = "sweep"
      PROVE  recovered <= durable' /\ acked <= durable'
  BY <1>1, <1>3 DEF Told, KnownOK
<1>4. ASSUME Optimizing, ~committed'
      PROVE  computed = 0 /\ child' \notin {"commiteof", "work"} /\ Untold'
  BY <1>1, <1>2, <1>4 DEF Told, KnownOK
<1> QED BY <1>2, <1>3, <1>4 DEF KnownOK, Optimizing

(* A child reads a line, or none. *)
LEMMA ReadsOne ==
    ASSUME ChildSide, PipeTypes
    PROVE  stdin' = stdin \/ (stdin.lines # <<>> /\ stdin'.lines = Tail(stdin.lines))
<1>1. CASE EmitBootstrap
  BY <1>1 DEF EmitBootstrap, Emit
<1>2. CASE ReadAuthorization
  BY <1>2 DEF ReadAuthorization, ReadLine, PipeTypes
<1>3. CASE RequireEnd
  BY <1>3 DEF RequireEnd
<1>4. CASE ReadRecovery
  BY <1>4 DEF ReadRecovery, ReadOr, ReadLine, HasLine, PipeTypes
<1>5. CASE StageBaseline
  BY <1>5 DEF StageBaseline, Emit
<1>6. CASE ReadCommitted
  BY <1>6 DEF ReadCommitted, ReadOr, ReadLine, HasLine, PipeTypes
<1>7. CASE RequireFinalInput
  BY <1>7 DEF RequireFinalInput
<1>8. CASE EmitProgress
  BY <1>8 DEF EmitProgress, Emit
<1>9. CASE StagePoint
  BY <1>9 DEF StagePoint, Emit
<1>10. CASE ReadAcknowledged
  BY <1>10 DEF ReadAcknowledged, ReadLine, HasLine, PipeTypes
<1>11. CASE WriteOutcome
  BY <1>11 DEF WriteOutcome
<1>12. CASE Exit
  BY <1>12 DEF Exit
<1>13. CASE Die
  BY <1>13 DEF Die
<1>14. CASE EmitRogue
  BY <1>14 DEF EmitRogue, Misbehave
<1>15. CASE ClaimSuccess
  BY <1>15 DEF ClaimSuccess, Misbehave
<1>16. CASE EmitUndecodable
  BY <1>16 DEF EmitUndecodable, Misbehave
<1>17. CASE BlockOnPipe
  BY <1>17 DEF BlockOnPipe
<1> QED BY <1>1, <1>2, <1>3, <1>4, <1>5, <1>6, <1>7, <1>8, <1>9, <1>10, <1>11, <1>12,
     <1>13, <1>14, <1>15, <1>16, <1>17 DEF ChildSide, Child

(* A child goes on from the commit it reads, and counts the points it is told. *)
LEMMA ChildWaits ==
    ASSUME ChildSide, PlaceOK, KnownOK, LinesOK, PipeTypes, UnitTypes, op \in {"direct", "sweep", "optimize", "reuse"}
    PROVE  /\ Optimizing /\ ~committed => computed' = 0 /\ child' \notin {"commiteof", "work"}
           /\ op = "sweep" => acked' <= durable
<1> USE DEF Optimizing
<1>a. acked \in Nat /\ durable \in Nat /\ recovered \in Nat
  BY DEF UnitTypes
<1>b. ASSUME stdin.lines # <<>>
      PROVE  /\ LineOK(Head(stdin.lines)) /\ Head(stdin.lines) \in Line
             /\ Untold => Head(stdin.lines).kind # "committed"
  <2>1. stdin.lines \in Seq(Line)
    BY DEF PipeTypes, Lines
  <2>2. 1 \in 1 .. Len(stdin.lines) /\ Head(stdin.lines) = stdin.lines[1]
    BY <1>b, <2>1
  <2> QED BY <1>b, <2>2, ReadTrueLine DEF Untold
<1>1. CASE EmitBootstrap
  BY <1>1 DEF EmitBootstrap, Emit, PlaceOK, KnownOK
<1>2. CASE ReadAuthorization
  BY <1>2 DEF ReadAuthorization, ReadLine, Advance, NextAfterAuthorization, PlaceOK, KnownOK
<1>3. CASE RequireEnd
  BY <1>3 DEF RequireEnd, Advance, PlaceOK, KnownOK
<1>4. CASE ReadRecovery
  <2>1. op = "sweep" /\ computed' = computed /\ stdin \in [lines : Lines, open : BOOLEAN]
    BY <1>4 DEF ReadRecovery, ReadOr, Advance, PlaceOK, PipeTypes
  <2>2. CASE child' = "work"
    <3>1. HasLine("recovery") /\ acked' = Head(stdin.lines).ordinal
      BY <1>4, <2>2 DEF ReadRecovery, ReadOr, Advance
    <3> QED BY <1>a, <1>b, <2>1, <3>1 DEF HasLine, LineOK, KnownOK
  <2>3. CASE child' # "work"
    BY <1>4, <2>1, <2>3 DEF ReadRecovery, KnownOK
  <2> QED BY <2>2, <2>3
<1>5. CASE StageBaseline
  BY <1>5 DEF StageBaseline, Emit, PlaceOK, KnownOK
<1>6. CASE ReadCommitted
  <2>1. UNCHANGED <<acked, computed>> /\ child' \in {"commiteof", "exiting"}
    BY <1>6 DEF ReadCommitted, ReadOr, Advance
  <2>2. child' = "commiteof" => HasLine("committed")
    BY <1>6 DEF ReadCommitted, ReadOr, Advance
  <2> QED BY <1>b, <2>1, <2>2 DEF HasLine, KnownOK
<1>7. CASE RequireFinalInput
  BY <1>7 DEF RequireFinalInput, Advance, PlaceOK, KnownOK
<1>8. CASE EmitProgress
  BY <1>8 DEF EmitProgress, Emit, PlaceOK, KnownOK
<1>9. CASE StagePoint
  BY <1>9 DEF StagePoint, Emit, PlaceOK, KnownOK
<1>10. CASE ReadAcknowledged
  <2>1. op = "sweep"
    BY <1>10 DEF ReadAcknowledged, PlaceOK
  <2>2. CASE acked' = acked
    BY <2>1, <2>2 DEF KnownOK
  <2>3. CASE acked' # acked
    <3>1. HasLine("acknowledged") /\ Head(stdin.lines).ordinal = acked /\ acked' = acked + 1
      BY <1>10, <2>3 DEF ReadAcknowledged
    <3>2. acked < durable
      BY <1>b, <3>1 DEF HasLine, LineOK
    <3> QED BY <1>a, <2>1, <3>1, <3>2
  <2> QED BY <2>2, <2>3
<1>11. CASE WriteOutcome
  BY <1>11 DEF WriteOutcome, Advance, PlaceOK, KnownOK
<1>12. CASE Exit
  BY <1>12 DEF Exit, PlaceOK, KnownOK
<1>13. CASE Die
  BY <1>13 DEF Die, PlaceOK, KnownOK
<1>14. CASE EmitRogue
  BY <1>14 DEF EmitRogue, Misbehave, PlaceOK, KnownOK
<1>15. CASE ClaimSuccess
  BY <1>15 DEF ClaimSuccess, Misbehave, PlaceOK, KnownOK
<1>16. CASE EmitUndecodable
  BY <1>16 DEF EmitUndecodable, Misbehave, PlaceOK, KnownOK
<1>17. CASE BlockOnPipe
  BY <1>17 DEF BlockOnPipe, PlaceOK, KnownOK
<1> QED BY <1>1, <1>2, <1>3, <1>4, <1>5, <1>6, <1>7, <1>8, <1>9, <1>10, <1>11, <1>12,
     <1>13, <1>14, <1>15, <1>16, <1>17 DEF ChildSide, Child

LEMMA ChildKeepsKnown ==
    ASSUME KnownOK, PlaceOK, LinesOK, PipeTypes, UnitTypes, op \in {"direct", "sweep", "optimize", "reuse"}, ChildSide
    PROVE  KnownOK'
<1>1. UNCHANGED <<op, recovered, durable, committed>>
  BY ChildLeaves DEF parentVars
<1>2. Untold => Untold'
  <2>1. stdin.lines \in Seq(Line)
    BY DEF PipeTypes, Lines
  <2>2. CASE stdin' = stdin
    BY <2>2 DEF Untold
  <2>3. CASE stdin.lines # <<>> /\ stdin'.lines = Tail(stdin.lines)
    <3>1. ASSUME NEW i \in 1 .. Len(Tail(stdin.lines))
          PROVE  i + 1 \in 1 .. Len(stdin.lines) /\ Tail(stdin.lines)[i] = stdin.lines[i + 1]
      BY <2>1, <2>3
    <3> QED BY <2>3, <3>1 DEF Untold
  <2> QED BY <2>2, <2>3, ReadsOne
<1> QED BY <1>1, <1>2, ChildWaits DEF KnownOK, Optimizing

(* The parent seals what the child has staged. *)
LEMMA ParentKeepsAgree ==
    ASSUME AgreeOK, PlaceOK, CommitOK, PipeTypes, UnitTypes, op \in {"direct", "sweep", "optimize", "reuse"}, ParentSide
    PROVE  AgreeOK'
<1>1. CASE EnterTry

  <2>1. durable' = durable
    BY <1>1 DEF EnterTry, Goto, Quiet, childVars, pipeVars, diskVars
  <2> QED BY <2>1, ParentLeaves DEF AgreeOK, Optimizing
<1>2. CASE ReadBootstrap

  <2>1. durable' = durable
    BY <1>2 DEF ReadBootstrap, Take, Goto, Raise, Quiet, childVars, diskVars
  <2> QED BY <2>1, ParentLeaves DEF AgreeOK, Optimizing
<1>3. CASE SendAuthorization

  <2>1. durable' = durable
    BY <1>3 DEF SendAuthorization, Send, Ended, Raise, Goto, Plain, Frame, Quiet, childVars,
       diskVars
  <2> QED BY <2>1, ParentLeaves DEF AgreeOK, Optimizing
<1>4. CASE SendControl

  <2>1. durable' = durable
    BY <1>4 DEF SendControl, Send, Ended, Raise, Goto, Plain, Frame,
       ClosesAfterAuthorization, Quiet, childVars, diskVars
  <2> QED BY <2>1, ParentLeaves DEF AgreeOK, Optimizing
<1>5. CASE RefuseFrame

  <2>1. durable' = durable
    BY <1>5 DEF RefuseFrame, Take, OutOfTurn, Raise, Loops, Quiet, childVars, diskVars
  <2> QED BY <2>1, ParentLeaves DEF AgreeOK, Optimizing
<1>6. CASE PublishFrame

  <2>1. UNCHANGED <<op, child, acked, staged, recovered>>
    BY <1>6 DEF PublishFrame, Loops, Quiet, childVars
  <2>2. CASE ~Publishable(Head(queue))
    BY <1>6, <2>1, <2>2 DEF PublishFrame, AgreeOK, Optimizing
  <2>3. CASE Publishable(Head(queue))
    <3>1. Head(queue).ordinal \in 0 .. Size
      BY <1>6, TailLines DEF PublishFrame, Take, PipeTypes, Line
    <3>2. /\ staged = Head(queue).ordinal + 1 /\ durable' = durable + 1
          /\ op = "sweep" => Head(queue).ordinal = durable
      BY <1>6, <2>3 DEF PublishFrame, Publishable
    <3>3. Optimizing => durable = 0
      BY <1>6 DEF PublishFrame, Take, OutOfTurn, CommitOK, Optimizing
    <3> QED BY <2>1, <3>1, <3>2, <3>3 DEF AgreeOK, PlaceOK, Optimizing, UnitTypes
  <2> QED BY <2>2, <2>3
<1>7. CASE PublishFails

  <2>1. UNCHANGED <<op, child, acked, staged, recovered>>
    BY <1>7 DEF PublishFails, PublishErrors, Loops, Quiet, childVars
  <2>2. CASE durable' = durable
    BY <1>7, <2>1, <2>2 DEF PublishFails, PublishErrors, AgreeOK, Optimizing
  <2>3. CASE durable' # durable
    <3>1. Head(queue).ordinal \in 0 .. Size
      BY <1>7, TailLines DEF PublishFails, PublishErrors, Take, PipeTypes, Line
    <3>2. /\ staged = Head(queue).ordinal + 1 /\ durable' = durable + 1
          /\ op = "sweep" => Head(queue).ordinal = durable
      BY <1>7, <2>3 DEF PublishFails, PublishErrors, Publishable
    <3>3. Optimizing => durable = 0
      BY <1>7 DEF PublishFails, PublishErrors, Take, OutOfTurn, CommitOK, Optimizing
    <3> QED BY <2>1, <3>1, <3>2, <3>3 DEF AgreeOK, PlaceOK, Optimizing, UnitTypes
  <2> QED BY <2>2, <2>3
<1>8. CASE Acknowledge

  <2>1. durable' = durable
    BY <1>8 DEF Acknowledge, Send, Ended, Raise, Goto, Frame, Plain, Quiet, childVars,
       diskVars
  <2> QED BY <2>1, ParentLeaves DEF AgreeOK, Optimizing
<1>9. CASE Progress

  <2>1. durable' = durable
    BY <1>9 DEF Progress, TakeInLoop, Take, ProgressAllowed, Goto, Raise, Loops, Quiet,
       childVars, diskVars
  <2> QED BY <2>1, ParentLeaves DEF AgreeOK, Optimizing
<1>10. CASE ProgressRefused

  <2>1. durable' = durable
    BY <1>10 DEF ProgressRefused, TakeInLoop, Take, Raise, Loops, Quiet, childVars, diskVars
  <2> QED BY <2>1, ParentLeaves DEF AgreeOK, Optimizing
<1>11. CASE Log

  <2>1. durable' = durable
    BY <1>11 DEF Log, TakeInLoop, Take, Goto, Loops, Quiet, childVars, diskVars
  <2> QED BY <2>1, ParentLeaves DEF AgreeOK, Optimizing
<1>12. CASE EndOfLines

  <2>1. durable' = durable
    BY <1>12 DEF EndOfLines, TakeInLoop, Take, Goto, Loops, Quiet, childVars, diskVars
  <2> QED BY <2>1, ParentLeaves DEF AgreeOK, Optimizing
<1>13. CASE WaitForExit

  <2>1. durable' = durable
    BY <1>13 DEF WaitForExit, Ended, ExitAccepted, Return, Raise, Quiet, childVars, pipeVars,
       diskVars
  <2> QED BY <2>1, ParentLeaves DEF AgreeOK, Optimizing
<1>14. CASE Terminate

  <2>1. durable' = durable
    BY <1>14 DEF Terminate, Terminating, TerminatesHere, Ended, Goto, Quiet, childVars,
       pipeVars, diskVars
  <2> QED BY <2>1, ParentLeaves DEF AgreeOK, Optimizing
<1>15. CASE Kill

  <2>1. durable' = durable
    BY <1>15 DEF Kill, Terminating, Ended, Goto, pipeVars, diskVars, boundVars
  <2> QED BY <2>1, ParentLeaves DEF AgreeOK, Optimizing
<1>16. CASE HandlerDone

  <2>1. durable' = durable
    BY <1>16 DEF HandlerDone, Ended, Goto, Quiet, childVars, pipeVars, diskVars
  <2> QED BY <2>1, ParentLeaves DEF AgreeOK, Optimizing
<1>17. CASE CloseStreams

  <2>1. durable' = durable
    BY <1>17 DEF CloseStreams, TerminatesHere, Ended, Quiet, childVars, diskVars
  <2> QED BY <2>1, ParentLeaves DEF AgreeOK, Optimizing
<1>18. CASE Interrupt

  <2>1. durable' = durable
    BY <1>18 DEF Interrupt, Raise, Quiet, childVars, pipeVars, diskVars
  <2> QED BY <2>1, ParentLeaves DEF AgreeOK, Optimizing
<1>19. CASE Collect

  <2>1. durable' = durable
    BY <1>19 DEF Collect, diskVars, parentVars, childVars, boundVars
  <2> QED BY <2>1, ParentLeaves DEF AgreeOK, Optimizing
<1>20. CASE AuthorizeFails

  <2>1. durable' = durable
    BY <1>20 DEF AuthorizeFails, Take, Goto, Raise, Quiet, childVars, diskVars
  <2> QED BY <2>1, ParentLeaves DEF AgreeOK, Optimizing
<1> QED BY <1>1, <1>2, <1>3, <1>4, <1>5, <1>6, <1>7, <1>8, <1>9, <1>10, <1>11, <1>12,
     <1>13, <1>14, <1>15, <1>16, <1>17, <1>18, <1>19, <1>20 DEF ParentSide, Parent

(* The child goes on from what it has been told. *)
LEMMA ChildKeepsAgree ==
    ASSUME AgreeOK, LinesOK, PipeTypes, UnitTypes, PlaceOK, op \in {"direct", "sweep", "optimize", "reuse"}, ChildSide
    PROVE  AgreeOK'
<1>1. CASE EmitBootstrap
  BY <1>1 DEF EmitBootstrap, Emit, Emitted, ChildStays, parentVars, boundVars, Plain,
     Frame, AgreeOK, UnitTypes, PlaceOK, Optimizing
<1>2. CASE ReadAuthorization
  BY <1>2 DEF ReadAuthorization, Advance, ChildStays, parentVars, boundVars, HasLine,
     NextAfterAuthorization, ReadLine, AtEnd, AgreeOK, UnitTypes, PlaceOK, Optimizing
<1>3. CASE RequireEnd
  BY <1>3 DEF RequireEnd, Advance, ChildStays, parentVars, boundVars, AtEnd, AgreeOK,
     UnitTypes, PlaceOK, Optimizing
<1>4. CASE ReadRecovery

  <2>1. UNCHANGED <<op, recovered, durable, staged>>
    BY <1>4 DEF ReadRecovery, ReadOr, Advance, ChildStays
  <2>2. CASE HasLine("recovery")
    <3>1. Head(stdin.lines) \in Line /\ LineOK(Head(stdin.lines)) /\ Head(stdin.lines).kind = "recovery"
      BY <2>2, ReadTrueLine DEF HasLine
    <3> QED BY <1>4, <2>1, <2>2, <3>1 DEF ReadRecovery, ReadOr, Advance, AgreeOK, PlaceOK, LineOK, Optimizing
  <2>3. CASE ~HasLine("recovery")
    <3>1. child' = "exiting"
      BY <1>4, <2>3 DEF ReadRecovery, ReadOr, Advance
    <3> QED BY <2>1, <3>1 DEF AgreeOK, Optimizing
  <2> QED BY <2>2, <2>3
<1>5. CASE StageBaseline

  <2>1. /\ UNCHANGED <<op, recovered, durable, acked>>
        /\ child = "baseline" /\ child' = "commit" /\ staged' = 1
    BY <1>5 DEF StageBaseline, Emit, ChildStays
  <2> QED BY <2>1 DEF AgreeOK, PlaceOK, UnitTypes, Optimizing
<1>6. CASE ReadCommitted

  <2>1. UNCHANGED <<op, recovered, durable, staged>>
    BY <1>6 DEF ReadCommitted, ReadOr, Advance, ChildStays
  <2>2. CASE HasLine("committed")
    <3>1. Head(stdin.lines) \in Line /\ LineOK(Head(stdin.lines)) /\ Head(stdin.lines).kind = "committed"
      BY <2>2, ReadTrueLine DEF HasLine
    <3> QED BY <1>6, <2>1, <2>2, <3>1 DEF ReadCommitted, ReadOr, Advance, AgreeOK, PlaceOK, LineOK, Optimizing
  <2>3. CASE ~HasLine("committed")
    <3>1. child' = "exiting"
      BY <1>6, <2>3 DEF ReadCommitted, ReadOr, Advance
    <3> QED BY <2>1, <3>1 DEF AgreeOK, Optimizing
  <2> QED BY <2>2, <2>3
<1>7. CASE RequireFinalInput
  BY <1>7 DEF RequireFinalInput, Advance, ChildStays, parentVars, boundVars, AtEnd,
     AgreeOK, UnitTypes, PlaceOK, Optimizing
<1>8. CASE EmitProgress
  BY <1>8 DEF EmitProgress, Optimizing, Emit, Emitted, ChildStays, parentVars, boundVars,
     Plain, Frame, AgreeOK, UnitTypes, PlaceOK
<1>9. CASE StagePoint
  BY <1>9 DEF StagePoint, Emit, Emitted, ChildStays, parentVars, boundVars, Frame,
     AgreeOK, UnitTypes, PlaceOK, Optimizing
<1>10. CASE ReadAcknowledged

  <2>1. UNCHANGED <<op, recovered, durable>> /\ child = "point"
    BY <1>10 DEF ReadAcknowledged, ChildStays
  <2>2. CASE child' = "work"
    <3>1. stdin.lines # <<>> /\ Head(stdin.lines).kind = "acknowledged" /\ Head(stdin.lines).ordinal = acked
          /\ acked' = acked + 1 /\ staged' = 0
      BY <1>10, <2>2 DEF ReadAcknowledged, HasLine
    <3>2. acked < durable
      BY <3>1, ReadTrueLine DEF LineOK
    <3> QED BY <2>1, <2>2, <3>1, <3>2 DEF AgreeOK, PlaceOK, UnitTypes, Optimizing
  <2>3. CASE child' = "exiting"
    BY <1>10, <2>1, <2>3 DEF ReadAcknowledged, AgreeOK, PlaceOK, Optimizing
  <2> QED BY <1>10, <2>2, <2>3 DEF ReadAcknowledged
<1>11. CASE WriteOutcome
  BY <1>11 DEF WriteOutcome, Advance, ChildStays, parentVars, boundVars, Optimizing,
     AgreeOK, UnitTypes, PlaceOK
<1>12. CASE Exit
  BY <1>12 DEF Exit, Emitted, Plain, Frame, ChildStays, parentVars, boundVars, AgreeOK,
     UnitTypes, PlaceOK, Optimizing
<1>13. CASE Die
  BY <1>13 DEF Die, Working, Emitted, Plain, Frame, ChildStays, parentVars, boundVars,
     AgreeOK, UnitTypes, PlaceOK, Optimizing
<1>14. CASE EmitRogue
  BY <1>14 DEF EmitRogue, Misbehave, parentVars, RogueFrames, Plain, Frame, Emitted,
     AgreeOK, UnitTypes, PlaceOK, Optimizing
<1>15. CASE ClaimSuccess
  BY <1>15 DEF ClaimSuccess, Misbehave, parentVars, AgreeOK, UnitTypes, PlaceOK,
     Optimizing
<1>16. CASE EmitUndecodable
  BY <1>16 DEF EmitUndecodable, Misbehave, parentVars, Plain, Frame, AgreeOK, UnitTypes,
     PlaceOK, Optimizing
<1>17. CASE BlockOnPipe
  BY <1>17 DEF BlockOnPipe, ChildStays, parentVars, boundVars, AgreeOK, UnitTypes,
     PlaceOK, Optimizing
<1> QED BY <1>1, <1>2, <1>3, <1>4, <1>5, <1>6, <1>7, <1>8, <1>9, <1>10, <1>11, <1>12,
     <1>13, <1>14, <1>15, <1>16, <1>17 DEF ChildSide, Child

-----------------------------------------------------------------------------
(* The invariant *)

LEMMA InitInv == Init => Inv
<1> SUFFICES ASSUME Init
             PROVE  Inv
  OBVIOUS
<1> USE ProtocolAssumption DEF Init
<1>1. PipeTypes
  <2>1. <<>> \in Lines
    BY DEF Lines
  <2>2. stdin = [lines |-> <<>>, open |-> TRUE] /\ queue = <<>> /\ broken = {}
    OBVIOUS
  <2> HIDE DEF Init
  <2> QED BY <2>1, <2>2 DEF PipeTypes
<1>2. ControlTypes
  <2>1. committed \in BOOLEAN /\ unflushed \in BOOLEAN /\ signalled \in BOOLEAN
    BY Zenon
  <2>2. /\ op \in Ops /\ pc = "started" /\ child = "boot" /\ attempt = "none"
        /\ outcomeFile = "none" /\ raising = "none" /\ result = "none" /\ rogue = 0 /\ interrupts = 0
    OBVIOUS
  <2> HIDE DEF Init
  <2> QED BY <2>1, <2>2 DEF ControlTypes, Results
<1>3. UnitTypes
  BY DEF UnitTypes
<1>4. PlaceOK
  BY DEF PlaceOK
<1>5. CommitOK
  BY DEF CommitOK, Early, Optimizing
<1>6. EndOK /\ LinesOK
  BY DEF EndOK, LinesOK
<1>7. OutcomeOK
  BY DEF OutcomeOK
<1>8. GoneOK /\ FailureOK /\ KnownOK
  <2>1. GoneOK /\ FailureOK
    BY DEF GoneOK, ChildGone, FailureOK
  <2>2. computed = 0 /\ child = "boot" /\ stdin.lines = <<>> /\ acked = 0 /\ (op = "sweep" => durable = recovered)
    OBVIOUS
  <2> QED BY <2>1, <2>2 DEF KnownOK, Untold
<1>9. AgreeOK
  <2>1. recovered \in 0 .. Size /\ (op = "optimize" => recovered = 0)
    BY DEF Init
  <2> QED BY <2>1 DEF AgreeOK, Optimizing
<1> QED BY <1>1, <1>2, <1>3, <1>4, <1>5, <1>6, <1>7, <1>8, <1>9 DEF Inv, TypeOK

LEMMA Operations ==
    ASSUME ControlTypes
    PROVE  op \in {"direct", "sweep", "optimize", "reuse"}
BY ProtocolAssumption DEF ControlTypes

LEMMA ParentStep ==
    ASSUME Inv, ParentSide
    PROVE  Inv'
<1>1. PipeTypes /\ ControlTypes /\ UnitTypes /\ op \in {"direct", "sweep", "optimize", "reuse"}
  BY Operations DEF Inv, TypeOK
<1>2. PlaceOK /\ CommitOK /\ EndOK /\ OutcomeOK /\ GoneOK /\ FailureOK /\ KnownOK /\ LinesOK /\ AgreeOK
  BY DEF Inv
<1>3. notified \in Nat /\ durable \in Nat
  BY <1>1 DEF UnitTypes
<1>4. PipeTypes'
  BY <1>1, <1>2, ParentKeepsPipes
<1>5. ControlTypes'
  BY <1>1, ParentKeepsControl
<1>6. UnitTypes'
  BY <1>1, <1>2, ParentKeepsUnits
<1>7. PlaceOK'
  BY <1>2, ParentLeaves DEF PlaceOK, Optimizing
<1>8. CommitOK'
  BY <1>1, <1>2, <1>3, ParentKeepsCommit
<1>9. EndOK'
  BY <1>1, <1>2, ParentKeepsEnd
<1>10. OutcomeOK'
  BY <1>1, <1>2, ParentKeepsOutcome
<1>11. GoneOK' /\ FailureOK' /\ KnownOK'
  BY <1>1, <1>2, ParentKeepsGone, ParentKeepsFailure, ParentKeepsKnown
<1>12. LinesOK'
  BY <1>1, <1>2, ParentKeepsLines
<1>13. AgreeOK'
  BY <1>1, <1>2, ParentKeepsAgree
<1> QED BY <1>4, <1>5, <1>6, <1>7, <1>8, <1>9, <1>10, <1>11, <1>12, <1>13 DEF Inv, TypeOK

LEMMA ChildStep ==
    ASSUME Inv, ChildSide
    PROVE  Inv'
<1>1. PipeTypes /\ ControlTypes /\ UnitTypes /\ op \in {"direct", "sweep", "optimize", "reuse"}
  BY Operations DEF Inv, TypeOK
<1>2. PlaceOK /\ CommitOK /\ EndOK /\ OutcomeOK /\ GoneOK /\ FailureOK /\ KnownOK /\ LinesOK /\ AgreeOK
  BY DEF Inv
<1>3. PipeTypes'
  BY <1>1, ChildKeepsPipes
<1>4. ControlTypes'
  BY <1>1, ChildKeepsControl
<1>5. UnitTypes'
  BY <1>1, <1>2, ChildKeepsUnits
<1>6. PlaceOK'
  BY <1>1, <1>2, ChildKeepsPlace
<1>7. CommitOK'
  BY <1>2, ChildLeaves DEF CommitOK, Early, Optimizing, parentVars
<1>8. EndOK'
  BY <1>1, <1>2, ChildKeepsEnd
<1>9. OutcomeOK'
  <2>1. ~Ended
    BY EndedIsQuiet
  <2>2. \A status : ~Clean(status)
    BY <2>1 DEF Clean, Ended
  <2> QED BY <1>2, <2>2, ChildLeaves DEF OutcomeOK, parentVars
<1>10. GoneOK' /\ FailureOK' /\ KnownOK'
  <2>1. FailureOK'
    BY <1>2, ChildLeaves DEF FailureOK, Optimizing, parentVars
  <2> QED BY <1>1, <1>2, <2>1, ChildKeepsGone, ChildKeepsKnown
<1>11. LinesOK'
  BY <1>1, <1>2, ChildKeepsLines
<1>12. AgreeOK'
  BY <1>1, <1>2, ChildKeepsAgree
<1> QED BY <1>3, <1>4, <1>5, <1>6, <1>7, <1>8, <1>9, <1>10, <1>11, <1>12 DEF Inv, TypeOK

LEMMA NextInv == Inv /\ [Next]_vars => Inv'
<1> SUFFICES ASSUME Inv, [Next]_vars
             PROVE  Inv'
  OBVIOUS
<1>1. CASE UNCHANGED vars
  <2> USE <1>1 DEF vars, pipeVars, diskVars, parentVars, childVars, boundVars
  <2>1. TypeOK'
    BY DEF Inv, TypeOK, PipeTypes, ControlTypes, UnitTypes
  <2>2. PlaceOK' /\ CommitOK' /\ AgreeOK'
    BY DEF Inv, PlaceOK, CommitOK, AgreeOK, Early, Optimizing
  <2>3. EndOK' /\ GoneOK' /\ FailureOK' /\ KnownOK'
    BY DEF Inv, EndOK, Silent, GoneOK, ChildGone, Ended, FailureOK, KnownOK, Untold, Optimizing
  <2>4. OutcomeOK'
    BY DEF Inv, OutcomeOK, Clean, Optimizing
  <2>5. LinesOK'
    BY DEF Inv, LinesOK, LineOK, Optimizing
  <2> QED BY <2>1, <2>2, <2>3, <2>4, <2>5 DEF Inv
<1>2. CASE ParentSide
  BY <1>2, ParentStep
<1>3. CASE ChildSide
  BY <1>3, ChildStep
<1> QED BY <1>1, <1>2, <1>3 DEF Next, ParentSide, ChildSide

-----------------------------------------------------------------------------
(* The theorems *)

(* Every reachable state of a run is well typed: lines are frames of the     *)
(* protocol, no side counts past the units of the request.                   *)
THEOREM ProtocolTypeCorrect == Spec => []TypeOK
<1>1. Inv => TypeOK
  BY DEF Inv
<1> QED BY <1>1, InitInv, NextInv, PTL DEF Spec

(* No progress of an optimization is told before its baseline is sealed and  *)
(* the child knows it, whatever frames the child sends.                      *)
THEOREM ProgressFollowsCommit == Spec => []ProgressCommitted
<1>1. Inv => ProgressCommitted
  BY DEF Inv, CommitOK, ProgressCommitted
<1> QED BY <1>1, InitInv, NextInv, PTL DEF Spec

(* An outcome is returned from a child that ended by itself with status zero *)
(* and whose lines have all been read.                                       *)
THEOREM OutcomesAreClean == Spec => []ReturnedOutcome
<1>1. Inv => ReturnedOutcome
  BY DEF Inv, OutcomeOK, Clean, ReturnedOutcome
<1> QED BY <1>1, InitInv, NextInv, PTL DEF Spec

(* Parent and child agree on what is sealed.                                 *)
THEOREM SidesAgree == Spec => []InStep
<1>1. Inv => InStep
  <2> SUFFICES ASSUME Inv
               PROVE  InStep
    OBVIOUS
  <2>1. AgreeOK /\ PlaceOK /\ CommitOK /\ UnitTypes
    BY DEF Inv, TypeOK
  <2> QED BY <2>1 DEF AgreeOK, PlaceOK, CommitOK, UnitTypes, InStep, Optimizing
<1> QED BY <1>1, InitInv, NextInv, PTL DEF Spec

(* A run that leaves no sealed attempt has lost no accepted outcome, no        *)
(* generation the caller may have heard of, and no point the child went on     *)
(* from, whatever failed and whatever the child had sent.                      *)
THEOREM NothingLostUnsealed == Spec => []UnsealedLosesNothing
<1>1. Inv => UnsealedLosesNothing
  <2> SUFFICES ASSUME Inv, Unsealed
               PROVE  UnsealedLosesNothing
    BY DEF UnsealedLosesNothing
  <2>1. unflushed \/ raising = "integrity"
    BY DEF Inv, OutcomeOK, FailureOK, Unsealed
  <2>2. raising \notin {"success", "failure"} /\ (Optimizing => ~committed)
    BY <2>1 DEF Inv, FailureOK
  <2>3. Optimizing => notified = 0
    BY <2>2 DEF Inv, CommitOK, TypeOK, UnitTypes
  <2> QED BY <2>2, <2>3 DEF Inv, KnownOK, UnsealedLosesNothing
<1> QED BY <1>1, InitInv, NextInv, PTL DEF Spec

(* No call leaves a child behind, whatever exception ends it and whatever the  *)
(* child does, but for an interrupt in the three places that no handler guards.*)
THEOREM NoChildLeft == Spec => []ChildGone
<1>1. Inv => ChildGone
  BY DEF Inv, GoneOK
<1> QED BY <1>1, InitInv, NextInv, PTL DEF Spec
=============================================================================
