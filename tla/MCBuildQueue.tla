---------------------------- MODULE MCBuildQueue ----------------------------
(* The constants of BuildQueue for TLC that a .cfg cannot write down.       *)
EXTENDS BuildClaims, TLC

CONSTANTS p2, a1    (* the pipeline and the agent a label singles out *)

NoLabels   == [a \in Agents |-> {}]
AskNothing == [p \in Pipelines |-> {}]

(* Pipeline p2 asks for a label that only agent a1 has. *)
OneLabelled == [a \in Agents |-> IF a = a1 THEN Labels ELSE {}]
OneAsks     == [p \in Pipelines |-> IF p = p2 THEN Labels ELSE {}]

(* Agents, pipelines, workers and requests are interchangeable where the    *)
(* labels are.                                                              *)
Symmetry ==
  Permutations(Agents) \cup Permutations(Pipelines)
    \cup Permutations(Workers) \cup Permutations(Requests)
=============================================================================
