--------------------------- MODULE MCStepDispatch ---------------------------
(* The constants of StepDispatch for TLC that a .cfg cannot write down.     *)
EXTENDS StepDispatch, TLC

CONSTANTS b1

(* Two steps for b1, so that one follows the other; one for the rest. *)
TwoThenOne == [b \in Builds |-> IF b = b1 THEN 2 ELSE 1]
=============================================================================
