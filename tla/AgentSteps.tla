----------------------------- MODULE AgentSteps -----------------------------
(* The Go agent: a goroutine per step, and the workspace of each build.     *)
EXTENDS StepTables

(* sendFrame: the error of a broken socket is ignored by runStep.           *)
SendUp(f) ==
  IF conn = NoConn THEN UNCHANGED up
  ELSE up' = [up EXCEPT ![conn] = Append(@, f)]

ReleaseWorkdir(b) == dir' = [dir EXCEPT ![b] = FALSE]
elsewhere == <<rows, presence, executor, tasks>>
link == <<conn, opened, serving>>

(* handleFrame: run_step starts a goroutine and returns to the socket.      *)
HandleRunStep ==
  /\ conn # NoConn /\ down # <<>> /\ Head(down).type = "run_step"
  /\ down' = Tail(down)
  /\ apc' = [apc EXCEPT ![Head(down).step] = "spawned"]
  /\ UNCHANGED <<elsewhere, link, up, cancels, res, stopped, count, dir, nets>>

(* handleFrame: build_finished forgets the count and the workspace, also    *)
(* while a step of the build is in flight.                                  *)
FinishBuild ==
  /\ conn # NoConn /\ down # <<>> /\ Head(down).type = "build_finished"
  /\ down' = Tail(down)
  /\ count' = [count EXCEPT ![Head(down).build] = 0]
  /\ ReleaseWorkdir(Head(down).build)
  /\ UNCHANGED <<elsewhere, link, up, cancels, apc, res, stopped, nets>>

(* handleFrame: cancel_step stops a step that is registered, else nothing.  *)
CancelStep(s) ==
  /\ conn # NoConn /\ s \in cancels
  /\ cancels' = cancels \ {s}
  /\ stopped' = [stopped EXCEPT ![s] = @ \/ apc[s] \in Registered]
  /\ UNCHANGED <<elsewhere, link, up, down, apc, res, count, dir, nets>>

-----------------------------------------------------------------------------
(* runStep *)

Begin(s) ==
  /\ apc[s] = "spawned"
  /\ apc' = [apc EXCEPT ![s] = "begun"]
  /\ SendUp(StepStarted(s))
  /\ count' = [count EXCEPT ![s[1]] = @ + 1]
  /\ UNCHANGED <<elsewhere, link, down, cancels, res, stopped, dir, nets>>

Slots == Capacity - Cardinality({s \in Steps : apc[s] = "running"})

(* Executor.Run takes a slot and the build's workspace. *)
Acquire(s) ==
  /\ apc[s] = "begun" /\ Slots > 0
  /\ apc' = [apc EXCEPT ![s] = "running"]
  /\ dir' = [dir EXCEPT ![s[1]] = TRUE]
  /\ UNCHANGED <<elsewhere, sockets, res, stopped, count, nets>>

(* A step cancelled while it waits for a slot never runs. *)
GiveUp(s) ==
  /\ apc[s] = "begun" /\ stopped[s]
  /\ apc' = [apc EXCEPT ![s] = "ended"]
  /\ res' = [res EXCEPT ![s] = "cancelled"]
  /\ UNCHANGED <<elsewhere, sockets, stopped, count, dir, nets>>

(* The step returns.  A cancelled context is reported as such by the steps  *)
(* that run a process; the file steps do not look at it.                    *)
End(s) ==
  /\ apc[s] = "running"
  /\ apc' = [apc EXCEPT ![s] = "ended"]
  /\ \E r \in IF stopped[s] THEN Ended ELSE {"success", "failed"} :
       res' = [res EXCEPT ![s] = r]
  /\ UNCHANGED <<elsewhere, sockets, stopped, count, dir, nets>>

Report(s) ==
  /\ apc[s] = "ended"
  /\ apc' = [apc EXCEPT ![s] = "reported"]
  /\ SendUp(StepFinished(s))
  /\ UNCHANGED <<elsewhere, link, down, cancels, res, stopped, count, dir,
                 nets>>

(* The step is no longer counted; a timer is set if "timed" of the count.   *)
UntrackIf(s, timed(_)) ==
  /\ apc[s] = "reported"
  /\ apc' = [apc EXCEPT ![s] = "gone"]
  /\ LET b == s[1] IN
     /\ count' = [count EXCEPT ![b] = IF @ = 0 THEN 0 ELSE @ - 1]
     /\ nets' = [nets EXCEPT ![b] =
                   IF timed(count[b]) THEN Append(@, Begun(b)) ELSE @]
  /\ UNCHANGED <<elsewhere, sockets, res, stopped, dir>>

(* Mutant of Untrack: a count that would be below zero sets no timer. *)
UntrackExact(s) == UntrackIf(s, LAMBDA n : n = 1)

(* untrackBuildStep: when no step of the build is left by the count, which  *)
(* build_finished may have reset, a timer of five minutes is set.           *)
Untrack(s) == UntrackIf(s, LAMBDA n : n <= 1)

(* The oldest timer of b fires, and looks at the count only. *)
NetFires(b) ==
  /\ nets[b] # <<>>
  /\ nets' = [nets EXCEPT ![b] = Tail(@)]
  /\ IF count[b] = 0 THEN ReleaseWorkdir(b) ELSE UNCHANGED dir
  /\ UNCHANGED <<elsewhere, sockets, apc, res, stopped, count>>

-----------------------------------------------------------------------------
(* Run dials again until it is connected; the steps in flight go on. *)
Connect ==
  /\ conn = NoConn /\ opened < MaxConns
  /\ opened' = opened + 1
  /\ conn' = opened'
  /\ serving' = serving \cup {opened'}
  /\ connected' = TRUE
  /\ UNCHANGED <<rows, reserved, executor, tasks, up, down, cancels, agent>>

(* The socket breaks: what was on its way to the agent is lost; the API     *)
(* does not know yet.                                                       *)
LinkDies ==
  /\ conn # NoConn
  /\ conn' = NoConn
  /\ down' = <<>> /\ cancels' = {}
  /\ UNCHANGED <<elsewhere, opened, serving, up, agent>>

Frame == HandleRunStep \/ FinishBuild
RunSteps(s) == Begin(s) \/ Acquire(s) \/ GiveUp(s) \/ Report(s) \/ Untrack(s)
=============================================================================
