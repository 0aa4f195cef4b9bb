--------------------------- MODULE RequestHistory ---------------------------
(***************************************************************************)
(* What a leaf promises about one request, restated from                     *)
(* docs/implementation/workspace-attempts-and-artifacts.qmd, "Reuse success  *)
(* and append failure history": attempts are only appended, sealed units of  *)
(* work (points, generations) are never taken back, a success comes once, is *)
(* complete and is the last attempt.                                         *)
(***************************************************************************)
EXTENDS Integers

VARIABLES
    units,          \* units of work of the request
    status,         \* as inventory() tells it
    sealed,         \* units sealed so far
    tries           \* attempts in the history

history == <<units, status, sealed, tries>>

HistoryInit ==
    /\ units \in Nat
    /\ status = "none" /\ sealed = 0 /\ tries = 0

Started(s) == IF s = "none" THEN "partial" ELSE s

(* The baseline, or one more point, is published while an attempt runs. *)
PublishUnit ==
    /\ status # "succeeded"
    /\ sealed' \in {sealed, sealed + 1} /\ sealed' <= units
    /\ status' = Started(status)
    /\ UNCHANGED <<units, tries>>

AppendAttempt ==
    /\ status # "succeeded"
    /\ tries' = tries + 1
    /\ status' \in {"failed", "interrupted", "succeeded"}
    /\ sealed' \in sealed .. units
    /\ status' = "succeeded" => sealed' = units
    /\ UNCHANGED units

HistoryNext == PublishUnit \/ AppendAttempt

HistorySpec == HistoryInit /\ [][HistoryNext]_history
=============================================================================
