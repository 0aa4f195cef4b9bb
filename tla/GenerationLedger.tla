-------------------------- MODULE GenerationLedger --------------------------
(***************************************************************************)
(* What the operation store promises about one request's optimization       *)
(* tasks, without saying how it is done: docs/implementation/               *)
(* benchmark-and-backends.qmd, "Checkpoint recording", restated.  Each task *)
(* has a list of attempts; only the newest one advances, always forward     *)
(* and only from its baseline or from a published resume point; a group of  *)
(* completed generations appears at once, with its resume point or (policy  *)
(* off) without; the first completed attempt wins for good.                 *)
(***************************************************************************)
EXTENDS Integers, Sequences, FiniteSets

CONSTANTS
    Tasks,          \* task identities of the request
    Checkpointed,   \* [Tasks -> BOOLEAN]: are resume points kept?
    MaxGen          \* generations that make an attempt complete

VARIABLES
    upto,           \* upto[t][a]: last published generation, or NoBaseline
    points,         \* points[t]: resume points, <<attempt, generation>>
    winner          \* {} or one <<task, attempt>>

ledger == <<upto, points, winner>>

NoBaseline == -1

Newest(t) == Len(upto[t])

LedgerInit ==
    /\ upto = [t \in Tasks |-> <<>>]
    /\ points = [t \in Tasks |-> {}]
    /\ winner = {}

(* A new attempt supersedes the others, from nothing or from a resume point. *)
Allocate(t) ==
    /\ \E from \in {NoBaseline} \cup {point[2] : point \in points[t]} :
          upto' = [upto EXCEPT ![t] = Append(@, from)]
    /\ UNCHANGED <<points, winner>>

(* The baseline commits alone; after it a group of generations. *)
Advance(t) ==
    /\ upto[t] # <<>>
    /\ \E to \in 0 .. MaxGen :
          /\ to > upto[t][Newest(t)]
          /\ upto[t][Newest(t)] = NoBaseline => to = 0
          /\ upto' = [upto EXCEPT ![t][Newest(t)] = to]
          /\ points' = IF Checkpointed[t]
                       THEN [points EXCEPT ![t] = @ \cup {<<Newest(t), to>>}]
                       ELSE points
    /\ UNCHANGED winner

Win(t) ==
    /\ winner = {}
    /\ upto[t] # <<>> /\ upto[t][Newest(t)] = MaxGen
    /\ winner' = {<<t, Newest(t)>>}
    /\ UNCHANGED <<upto, points>>

LedgerNext == \E t \in Tasks : Allocate(t) \/ Advance(t) \/ Win(t)

LedgerSpec == LedgerInit /\ [][LedgerNext]_ledger
=============================================================================
