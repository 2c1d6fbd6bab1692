---------------------------- MODULE AgentPresence ---------------------------
(***************************************************************************)
(* Whether an agent can be given work: its control socket, its heartbeat,  *)
(* and the operator's switch.                                              *)
(***************************************************************************)
EXTENDS BuildTables

(* update_agent: enabling an agent kicks the dispatcher. *)
Enable(r, a) ==
  /\ pc[r] = "idle" /\ ~enabled[a]
  /\ enabled' = [enabled EXCEPT ![a] = TRUE]
  /\ Goto(r, "scan")
  /\ UNCHANGED <<buildRow, online, connected, current_build, sessions, live,
                 maintenance, queue, locals, faults, drops>>

Disable(r, a) ==
  /\ pc[r] = "idle" /\ enabled[a]
  /\ enabled' = [enabled EXCEPT ![a] = FALSE]
  /\ UNCHANGED <<buildRow, online, connected, current_build, sessions, live,
                 maintenance, queue, pc, locals, faults, drops>>

(* agent_control_ws accepts a control socket and kicks the dispatcher. *)
Connect(r, a) ==
  /\ pc[r] = "idle" /\ sessions[a] < MaxSessions
  /\ sessions'  = [sessions EXCEPT ![a] = @ + 1]
  /\ online'    = [online EXCEPT ![a] = TRUE]
  /\ connected' = [connected EXCEPT ![a] = TRUE]
  /\ Goto(r, "scan")
  /\ UNCHANGED <<buildRow, enabled, current_build, live, maintenance,
                 queue, locals, faults, drops>>

(* A control socket ends; its teardown marks the agent offline and idle,    *)
(* even when a newer socket of the same agent is open.                      *)
SessionEnds(a) ==
  /\ sessions[a] > 0 /\ drops < MaxDrops
  /\ drops'    = drops + 1
  /\ sessions'  = [sessions EXCEPT ![a] = @ - 1]
  /\ online'    = [online EXCEPT ![a] = FALSE]
  /\ connected' = [connected EXCEPT ![a] = FALSE]
  /\ current_build' = [current_build EXCEPT ![a] = NoBuild]
  /\ UNCHANGED <<buildRow, enabled, live, maintenance, queue, pc, locals,
                 faults>>

(* _normalize_status: a reader finds the last heartbeat too old. *)
GoesStale(a) ==
  /\ online[a] /\ drops < MaxDrops
  /\ drops' = drops + 1
  /\ online' = [online EXCEPT ![a] = FALSE]
  /\ UNCHANGED <<buildRow, connected, enabled, current_build, sessions, live,
                 maintenance, queue, pc, locals, faults>>

(* A heartbeat, over the socket or over HTTP, puts an offline agent back    *)
(* online, and nothing more.                                                *)
Heartbeat(a) ==
  /\ ~online[a]
  /\ online' = [online EXCEPT ![a] = TRUE]
  /\ UNCHANGED <<buildRow, connected, enabled, current_build, sessions, live,
                 maintenance, queue, pc, locals, faults, drops>>
=============================================================================
