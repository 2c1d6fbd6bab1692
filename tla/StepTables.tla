----------------------------- MODULE StepTables -----------------------------
(***************************************************************************)
(* How a running build's steps get to its agent and their results back.    *)
(*                                                                         *)
(* The state is the rows the executor, the cancel endpoint and the socket  *)
(* handlers share, the executor's own view of its build, the agent's Redis *)
(* list, its control sockets, and what the Go agent keeps: the steps in    *)
(* flight, the cancel functions, the number of steps and the workspace of  *)
(* each build, and the timers that remove workspaces nobody released.      *)
(*                                                                         *)
(* One agent; server-side steps (notify, gates) and stages are left out.   *)
(***************************************************************************)
EXTENDS Naturals, Sequences, FiniteSets

CONSTANTS
  Builds,     (* the builds that may run on the agent                       *)
  StepsOf,    (* StepsOf[b]: how many agent steps build b has               *)
  NoBuild,    (* None, where a build id is expected                         *)
  Capacity,   (* the size of the agent's semaphore                          *)
  MaxConns    (* bound: the control sockets the agent ever opens            *)

ASSUME StepConstants ==
  /\ StepsOf \in [Builds -> Nat \ {0}]
  /\ NoBuild \notin Builds
  /\ Capacity \in Nat \ {0}
  /\ MaxConns \in Nat \ {0}

Steps == UNION {{b} \X (1 .. StepsOf[b]) : b \in Builds}
Conns == 1 .. MaxConns
NoConn == 0

VARIABLES
  build_status, (* Build.status                                             *)
  step_status,  (* Step.status                                              *)
  step_agent,   (* Step.agent_id is set                                     *)
  signal,       (* how far the cancel endpoint is: "no", "committed", "sent" *)
  reserved,     (* the build whose id is Agent.current_build_id             *)
  connected,    (* Agent.status is online and connected_at is not None      *)
  epc,          (* where the executor of a build is                         *)
  cur,          (* the step it is at, 0 before the first                    *)
  seen,         (* Step.status as the executor's session has it             *)
  mail,         (* a result waits in the executor's subscription            *)
  used,         (* the agent is in build_agent_ids                          *)
  tasks,        (* the agent's Redis list                                   *)
  conn,         (* the control socket the agent has, or NoConn              *)
  opened,       (* the control sockets opened so far                        *)
  serving,      (* the control sockets the API still serves                 *)
  up,           (* up[c]: frames on their way from the agent                *)
  down,         (* frames on their way to the agent, from the list          *)
  cancels,      (* steps with a cancel frame on its way to the agent        *)
  apc,          (* where the agent's goroutine of a step is                 *)
  res,          (* what a step ended with on the agent                      *)
  stopped,      (* the step's context was cancelled                         *)
  count,        (* buildStepCounts                                          *)
  dir,          (* buildWorkspaces has a directory of the build             *)
  nets          (* nets[b]: the safety-net timers of b, each with the number *)
                (* of steps of b the agent had begun when it was set        *)

rows     == <<build_status, step_status, step_agent, signal>>
presence == <<reserved, connected>>
executor == <<epc, cur, seen, mail, used>>
sockets  == <<conn, opened, serving, up, down, cancels>>
agent    == <<apc, res, stopped, count, dir, nets>>
vars == <<build_status, step_status, step_agent, signal, reserved, connected,
          epc, cur, seen, mail, used, tasks, conn, opened, serving, up, down,
          cancels, apc, res, stopped, count, dir, nets>>

Ended      == {"success", "failed", "cancelled"}
StepStatus == {"pending", "running"} \cup Ended
RunStep(s)       == [type |-> "run_step", step |-> s]
BuildFinished(b) == [type |-> "build_finished", build |-> b]
StepStarted(s)   == [type |-> "step_started", step |-> s]
StepFinished(s)  == [type |-> "step_finished", step |-> s]
Tasks  == {RunStep(s) : s \in Steps} \cup {BuildFinished(b) : b \in Builds}
Frames == {StepStarted(s) : s \in Steps} \cup {StepFinished(s) : s \in Steps}

(* The goroutine of a step, from the go statement to its return.            *)
Registered == {"begun", "running", "ended", "reported"}
InFlight   == {"spawned"} \cup Registered
Begun(b)   == Cardinality({s \in Steps : s[1] = b /\
                                         apc[s] \in Registered \cup {"gone"}})

Init ==
  /\ build_status = [b \in Builds |-> "pending"]
  /\ step_status = [s \in Steps |-> "pending"]
  /\ step_agent = [s \in Steps |-> FALSE]
  /\ signal = [b \in Builds |-> "no"]
  /\ reserved = NoBuild /\ connected = FALSE
  /\ epc = [b \in Builds |-> "idle"]
  /\ cur = [b \in Builds |-> 0]
  /\ seen = [s \in Steps |-> "pending"]
  /\ mail = [b \in Builds |-> FALSE]
  /\ used = [b \in Builds |-> FALSE]
  /\ tasks = <<>>
  /\ conn = NoConn /\ opened = 0 /\ serving = {}
  /\ up = [c \in Conns |-> <<>>]
  /\ down = <<>> /\ cancels = {}
  /\ apc = [s \in Steps |-> "none"]
  /\ res = [s \in Steps |-> "running"]
  /\ stopped = [s \in Steps |-> FALSE]
  /\ count = [b \in Builds |-> 0]
  /\ dir = [b \in Builds |-> FALSE]
  /\ nets = [b \in Builds |-> <<>>]

StepTypeOK ==
  /\ build_status \in [Builds -> StepStatus]
  /\ step_status \in [Steps -> StepStatus]
  /\ step_agent \in [Steps -> BOOLEAN]
  /\ signal \in [Builds -> {"no", "committed", "sent"}]
  /\ reserved \in Builds \cup {NoBuild} /\ connected \in BOOLEAN
  /\ epc \in [Builds -> {"idle", "next", "send", "wait", "over", "cleanup",
                         "done"}]
  /\ cur \in [Builds -> Nat]
  /\ \A b \in Builds : cur[b] <= StepsOf[b]
  /\ seen \in [Steps -> StepStatus]
  /\ mail \in [Builds -> BOOLEAN] /\ used \in [Builds -> BOOLEAN]
  /\ tasks \in Seq(Tasks)
  /\ conn \in {NoConn} \cup serving /\ opened \in {NoConn} \cup Conns
  /\ serving \subseteq 1 .. opened
  /\ up \in [Conns -> Seq(Frames)] /\ down \in Seq(Tasks)
  /\ cancels \subseteq Steps
  /\ apc \in [Steps -> {"none", "gone"} \cup InFlight]
  /\ res \in [Steps -> {"running"} \cup Ended]
  /\ stopped \in [Steps -> BOOLEAN]
  /\ count \in [Builds -> Nat] /\ dir \in [Builds -> BOOLEAN]
  /\ nets \in [Builds -> Seq(Nat)]
=============================================================================
