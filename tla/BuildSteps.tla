------------------------------ MODULE BuildSteps ------------------------------
(* The steps of builds: the ones sent to an agent (StepDispatch) and the    *)
(* ones that wait on the server (StepWaits).  _execute_step decides by the  *)
(* type of a step which it is, and the two kinds share no state of these    *)
(* modules; so a behaviour is about the one kind or about the other.        *)
EXTENDS StepDispatch, StepWaits

VARIABLES kind     (* "agent" or "server" *)

buildStepsVars == <<vars, stepWaitsVars, kind>>

BuildStepsInit ==
  /\ Init /\ StepWaitsInit
  /\ \/ kind = "server"
     \/ kind = "agent" /\ waiting.kind = "trigger_pipeline"

BuildStepsNext ==
  /\ \/ kind = "agent" /\ Next /\ UNCHANGED stepWaitsVars
     \/ kind = "server" /\ StepWaitsNext /\ UNCHANGED vars
  /\ UNCHANGED kind

(* What goes on by itself: the executors, the goroutines but for the work   *)
(* of a step, the timers, and the loop of a waiting step.                   *)
Programs ==
  \/ /\ kind = "agent" /\ UNCHANGED <<stepWaitsVars, kind>>
     /\ \/ \E b \in Builds : Execute(b) \/ NetFires(b)
        \/ \E s \in Steps : RunSteps(s)
  \/ kind = "server" /\ StepMoves /\ UNCHANGED <<vars, kind>>

(* Nothing stops while a program can go on.  Of each there are finitely     *)
(* many moves, but for the loop, which is alone: this is as much as the     *)
(* fairness of each.                                                        *)
BuildStepsSpec ==
  /\ BuildStepsInit /\ [][BuildStepsNext]_buildStepsVars
  /\ WF_buildStepsVars(Programs)

BuildStepsTypeOK ==
  StepTypeOK /\ StepWaitsTypeOK /\ kind \in {"agent", "server"}

(* A step that waits on the server ends, whatever is posted and however     *)
(* often, with nobody who has to answer: it leaves "running" within its     *)
(* timeout, counted in the sleeps of its own loop.                          *)
ServerStepEnds == kind = "server" => WaitEnds
=============================================================================
