--------------------------- MODULE TopologyHistory ---------------------------
(***************************************************************************)
(* What a workspace root promises about topologies, restated from            *)
(* docs/v1-runtime-contract.qmd, "versioned": one replaceable topology, or a *)
(* history of different ones that only grows.  Leaves are numbered in the    *)
(* order of their creation, so a replaced leaf never comes back.             *)
(***************************************************************************)
EXTENDS Integers, Sequences

CONSTANTS Leaves, Plans

VARIABLES
    kind,           \* "none", "replaceable" or "versioned"
    topologies      \* sequence of [leaf, plan]

history == <<kind, topologies>>

Topology == [leaf : Leaves, plan : Plans]

HistoryInit == kind = "none" /\ topologies = <<>>

Found ==
    /\ kind = "none"
    /\ kind' \in {"replaceable", "versioned"}
    /\ \E top \in Topology : topologies' = <<top>>

Replace ==
    /\ kind = "replaceable" /\ UNCHANGED kind
    /\ \E top \in Topology :
          /\ top.leaf > topologies[1].leaf /\ top.plan # topologies[1].plan
          /\ topologies' = <<top>>

Upgrade == kind = "replaceable" /\ kind' = "versioned" /\ UNCHANGED topologies

Extend ==
    /\ kind = "versioned" /\ UNCHANGED kind
    /\ \E top \in Topology :
          /\ \A i \in DOMAIN topologies :
                top.leaf > topologies[i].leaf /\ top.plan # topologies[i].plan
          /\ topologies' = Append(topologies, top)

HistoryNext == Found \/ Replace \/ Upgrade \/ Extend

HistorySpec == HistoryInit /\ [][HistoryNext]_history
=============================================================================
