---------------------------- MODULE StepDispatch ----------------------------
(* The backend's side of the steps: the executor's loop, the agent's list,  *)
(* the handlers of its control sockets, and the cancel endpoint.            *)
EXTENDS AgentSteps

At(b) == <<b, cur[b]>>
Step(b, l) == epc' = [epc EXCEPT ![b] = l]
Push(t) == tasks' = Append(tasks, t)

-----------------------------------------------------------------------------
(* The executor *)

(* The dispatcher reserves the free agent and a worker starts the build.    *)
StartBuild(b) ==
  /\ epc[b] = "idle" /\ build_status[b] = "pending"
  /\ reserved = NoBuild /\ connected
  /\ reserved' = b
  /\ build_status' = [build_status EXCEPT ![b] = "running"]
  /\ Step(b, "next")
  /\ UNCHANGED <<step_status, step_agent, signal, connected, cur, seen, mail,
                 used, tasks, sockets, agent>>

(* Begin the next step: its row is running before anything is sent. *)
BeginStep(b) ==
  /\ LET s == <<b, cur[b] + 1>> IN
     /\ step_status' = [step_status EXCEPT ![s] = "running"]
     /\ seen' = [seen EXCEPT ![s] = "running"]
  /\ cur' = [cur EXCEPT ![b] = @ + 1]
  /\ Step(b, "send")
EndLoop(b) == Step(b, "over") /\ UNCHANGED <<step_status, cur, seen>>
loopRest == <<build_status, step_agent, signal, presence, mail, used, tasks,
              sockets, agent>>

(* A mutant of NextStep: one step too many. *)
NextStepTooFar(b) ==
  /\ epc[b] = "next"
  /\ IF build_status[b] = "cancelled" \/ cur[b] > StepsOf[b]
     THEN EndLoop(b) ELSE BeginStep(b)
  /\ UNCHANGED loopRest

(* The top of the loop: re-read the build's status, then begin a step.      *)
NextStep(b) ==
  /\ epc[b] = "next"
  /\ IF build_status[b] = "cancelled" \/ cur[b] = StepsOf[b]
     THEN EndLoop(b) ELSE BeginStep(b)
  /\ UNCHANGED loopRest

(* The step fails, in the session and in the row, and the loop is left. *)
Fails(b) ==
  /\ step_status' = [step_status EXCEPT ![At(b)] = "failed"]
  /\ seen' = [seen EXCEPT ![At(b)] = "failed"]
  /\ Step(b, "over")

(* _try_dispatch_to_agent: to the reserved agent if it is still connected:  *)
(* subscribe to the step's result, then push the step on the agent's list.  *)
Send(b) ==
  /\ epc[b] = "send"
  /\ \/ /\ connected
        /\ Push(RunStep(At(b)))
        /\ mail' = [mail EXCEPT ![b] = FALSE]
        /\ Step(b, "wait")
        /\ UNCHANGED <<step_status, seen>>
     \/ /\ ~connected
        /\ Fails(b)
        /\ UNCHANGED <<tasks, mail>>
  /\ UNCHANGED <<build_status, step_agent, signal, presence, cur, used,
                 sockets, agent>>

(* A result came: the step's status is the one its row has by now.  Only a  *)
(* failed one stops the loop.                                               *)
Wake(b) ==
  /\ epc[b] = "wait" /\ mail[b]
  /\ mail' = [mail EXCEPT ![b] = FALSE]
  /\ used' = [used EXCEPT ![b] = TRUE]
  /\ seen' = [seen EXCEPT ![At(b)] = step_status[At(b)]]
  /\ Step(b, IF step_status[At(b)] = "failed" THEN "over" ELSE "next")
  /\ UNCHANGED <<rows, presence, cur, tasks, sockets, agent>>

(* Leave the wait: unsubscribe. *)
Unsubscribe(b) ==
  /\ epc[b] = "wait"
  /\ mail' = [mail EXCEPT ![b] = FALSE]
  /\ UNCHANGED <<build_status, step_agent, signal, presence, cur, used, tasks,
                 sockets, agent>>

(* Mutants of TimeOut: only a disconnected agent is given up on; the build  *)
(* goes on; the step of a cancelled build is left as it is.                 *)
TimeOutIfLost(b) == Unsubscribe(b) /\ ~connected /\ Fails(b)
TimeOutGoesOn(b) ==
  /\ Unsubscribe(b)
  /\ step_status' = [step_status EXCEPT ![At(b)] = "failed"]
  /\ seen' = [seen EXCEPT ![At(b)] = "failed"]
  /\ Step(b, "next")
TimeOutOrCancelled(b) ==
  /\ Unsubscribe(b)
  /\ IF build_status[b] = "cancelled"
     THEN Step(b, "over") /\ UNCHANGED <<step_status, seen>>
     ELSE Fails(b)

(* An hour has passed, whether or not a result is about to come.  The agent *)
(* is told nothing.                                                         *)
TimeOut(b) == Unsubscribe(b) /\ Fails(b)

(* The final status, from a last look at the build's row; a cancelled build *)
(* has the steps that have not ended cancelled.                             *)
Conclude(b) ==
  /\ epc[b] = "over"
  /\ LET cancelled == build_status[b] = "cancelled"
         mine == {s \in Steps : s[1] = b}
         left == {s \in mine : cancelled /\ seen[s] \in {"pending", "running"}}
         Marked(f) == [s \in Steps |-> IF s \in left THEN "cancelled" ELSE f[s]]
     IN
     /\ build_status' = [build_status EXCEPT ![b] =
                           IF cancelled THEN "cancelled"
                           ELSE IF \E s \in mine : seen[s] = "failed" THEN "failed"
                           ELSE "success"]
     /\ step_status' = Marked(step_status)
     /\ seen' = Marked(seen)
  /\ IF used[b] THEN Push(BuildFinished(b)) ELSE UNCHANGED tasks
  /\ Step(b, "cleanup")
  /\ UNCHANGED <<step_agent, signal, presence, cur, mail, used, sockets, agent>>

(* The finally block gives the agent back and tells it once more. *)
Cleanup(b) ==
  /\ epc[b] = "cleanup"
  /\ reserved' = IF reserved = b THEN NoBuild ELSE reserved
  /\ Push(BuildFinished(b))
  /\ Step(b, "done")
  /\ UNCHANGED <<rows, connected, cur, seen, mail, used, sockets, agent>>

-----------------------------------------------------------------------------
(* The cancel endpoint *)

CancelCommits(b) ==
  /\ build_status[b] = "running" /\ signal[b] = "no"
  /\ build_status' = [build_status EXCEPT ![b] = "cancelled"]
  /\ signal' = [signal EXCEPT ![b] = "committed"]
  /\ UNCHANGED <<step_status, step_agent, presence, executor, tasks, sockets,
                 agent>>

(* notify_agents_of_cancel: a frame for every running step, to the agent    *)
(* that began it or else the one reserved; nobody hears it on a dead socket. *)
Notify(b) ==
  /\ signal[b] = "committed"
  /\ signal' = [signal EXCEPT ![b] = "sent"]
  /\ cancels' = cancels \cup
       {s \in Steps : /\ conn # NoConn
                      /\ s[1] = b /\ step_status[s] = "running"
                      /\ step_agent[s] \/ reserved = b}
  /\ UNCHANGED <<build_status, step_status, step_agent, presence, executor,
                 tasks, conn, opened, serving, up, down, agent>>

-----------------------------------------------------------------------------
(* The control sockets, c being one the API serves *)

(* _dispatcher_loop: take from the list, then send; a socket that is dead   *)
(* by then swallows the frame.                                              *)
Forward(c) ==
  /\ c \in serving /\ tasks # <<>>
  /\ tasks' = Tail(tasks)
  /\ down' = IF c = conn THEN Append(down, Head(tasks)) ELSE down
  /\ UNCHANGED <<rows, presence, executor, conn, opened, serving, up, cancels,
                 agent>>

(* _handle_step_started writes the row whatever it says. *)
Started(c) ==
  /\ c \in serving /\ up[c] # <<>> /\ Head(up[c]).type = "step_started"
  /\ LET s == Head(up[c]).step IN
     /\ step_status' = [step_status EXCEPT ![s] = "running"]
     /\ step_agent' = [step_agent EXCEPT ![s] = TRUE]
  /\ up' = [up EXCEPT ![c] = Tail(@)]
  /\ UNCHANGED <<build_status, signal, presence, executor, tasks, conn, opened,
                 serving, down, cancels, agent>>

(* Take a step_finished frame off c, write the row with what it says, and   *)
(* publish the result, which only a waiting executor hears.                 *)
FinishedAs(c, outcome(_)) ==
  /\ c \in serving /\ up[c] # <<>> /\ Head(up[c]).type = "step_finished"
  /\ LET s == Head(up[c]).step  b == s[1] IN
     /\ step_status' = [step_status EXCEPT ![s] = outcome(s)]
     /\ mail' = [mail EXCEPT ![b] = @ \/ (epc[b] = "wait" /\ At(b) = s)]
  /\ up' = [up EXCEPT ![c] = Tail(@)]
  /\ UNCHANGED <<build_status, step_agent, signal, presence, epc, cur, seen,
                 used, tasks, conn, opened, serving, down, cancels, agent>>

(* Mutant of Finished: a missing status is a success. *)
FinishedDefault(c) == FinishedAs(c, LAMBDA s : "success")

(* _handle_step_finished *)
Finished(c) == FinishedAs(c, LAMBDA s : res[s])

(* The API notices a dead socket; its teardown marks the agent offline and  *)
(* idle, also when the agent has a new one by now.                          *)
TearDown(c) ==
  /\ c \in serving /\ c # conn
  /\ serving' = serving \ {c}
  /\ up' = [up EXCEPT ![c] = <<>>]
  /\ connected' = FALSE /\ reserved' = NoBuild
  /\ UNCHANGED <<rows, executor, tasks, conn, opened, down, cancels, agent>>

-----------------------------------------------------------------------------
Execute(b) ==
  \/ NextStep(b) \/ Send(b) \/ Wake(b) \/ TimeOut(b) \/ Conclude(b)
  \/ Cleanup(b)
Socket(c) == Forward(c) \/ Started(c) \/ Finished(c) \/ TearDown(c)

Next ==
  \/ \E b \in Builds :
       \/ StartBuild(b) \/ Execute(b) \/ CancelCommits(b) \/ Notify(b)
       \/ NetFires(b)
  \/ \E c \in Conns : Socket(c)
  \/ \E s \in Steps : RunSteps(s) \/ End(s) \/ CancelStep(s)
  \/ Frame \/ Connect \/ LinkDies

Spec == Init /\ [][Next]_vars

(* Every program goes on; a step may run for ever, and neither users nor    *)
(* the network owe anybody anything.                                        *)
FairSpec ==
  /\ Spec
  /\ \A b \in Builds : WF_vars(Execute(b)) /\ WF_vars(NetFires(b))
  /\ \A s \in Steps : WF_vars(RunSteps(s))

-----------------------------------------------------------------------------
(* A build has at most one step in flight on the agent, whatever is lost,   *)
(* late or given up on: its steps never work in its directory at once.      *)
(* StepsInOrder, below, says more; this is what comes of it.                *)
OneStepAtATime ==
  \A s, t \in Steps :
    /\ s[1] = t[1]
    /\ apc[s] \in {"spawned", "begun", "running"}
    /\ apc[t] \in {"spawned", "begun", "running"}
    => s = t

(* The executor takes a step for a success only when the agent's run of it  *)
(* was one, though rows are overwritten unasked and results overtake.       *)
SuccessIsReal ==
  \A s \in Steps : seen[s] = "success" => res[s] = "success"

(* A step that outlives its build on the agent is one the executor recorded *)
(* as failed: no build ends well with work still going on in its directory. *)
OrphanMeansFailed ==
  \A s \in Steps :
    /\ epc[s[1]] \in {"cleanup", "done"}
    /\ apc[s] \in {"spawned", "begun", "running"}
    => seen[s] = "failed" /\ build_status[s[1]] # "success"

(* A build is a success only when the agent has come to the end of each of  *)
(* its steps: none is skipped, lost or left running on the way.  This too   *)
(* comes of StepsInOrder.                                                   *)
SuccessIsWhole ==
  \A s \in Steps : build_status[s[1]] = "success" => apc[s] \in {"reported", "gone"}

(* The steps as BuildRun has them: where the executor is, the builds with a *)
(* step it saw fail, and what the agent makes of each step.                 *)
PlaceOf(l) == IF l = "next" THEN "between"
              ELSE IF l \in {"send", "wait"} THEN "out"
              ELSE IF l = "over" THEN "left"
              ELSE IF l = "idle" THEN "idle" ELSE "over"
StateOf(g) == IF g = "none" THEN "none"
              ELSE IF g \in {"reported", "gone"} THEN "done" ELSE "working"
RunPlace  == [b \in Builds |-> PlaceOf(epc[b])]
RunFailed == {b \in Builds : \E s \in Steps : s[1] = b /\ seen[s] = "failed"}
RunState  == [s \in Steps |-> StateOf(apc[s])]
Run == INSTANCE BuildRun WITH status <- build_status, place <- RunPlace, at <- cur,
                              failed <- RunFailed, run <- RunState

(* Whatever happens to messages, sockets, rows and timers, a build and its  *)
(* agent carry out the build's steps as BuildRun has it: in order, each     *)
(* once, the next when the one before is done.                              *)
StepsInOrder == Run!Spec

(* A build that waits for a result gets its final status and gives its      *)
(* agent back, whatever messages are lost and even if the step never ends.  *)
BuildEnds == \A b \in Builds : epc[b] = "wait" ~> epc[b] = "done"

(* A workspace no step is using is removed, or used again: a lost           *)
(* build_finished, or one that comes before the step, leaves no directory   *)
(* behind.                                                                  *)
Idle(b) == \A s \in Steps : s[1] = b => apc[s] \notin InFlight
NoPileUp == \A b \in Builds : (dir[b] /\ Idle(b)) ~> (~dir[b] \/ ~Idle(b))

-----------------------------------------------------------------------------
(* What a comment and a design document say *)

(* client.go: the safety net removes a workspace when the count stayed at   *)
(* zero since its timer was set and no new step started.                    *)
NetAfterQuiet ==
  [][\A b \in Builds :
       nets[b] # <<>> /\ nets' = [nets EXCEPT ![b] = Tail(@)] /\ dir[b]
       => dir'[b] \/ Head(nets[b]) = Begun(b)]_vars

(* The cancellation design: the steps of a cancelled build that were        *)
(* dispatched are stopped, also those whose step_started has not come yet.  *)
(* So while the agent's one socket is up, a step the executor waits for does *)
(* not begin once the cancel frames of its build were sent and handled.     *)
CancelReachesStep ==
  [][\A s \in Steps :
       /\ signal[s[1]] = "sent" /\ epc[s[1]] = "wait"
       /\ conn = opened /\ opened = 1
       /\ apc[s] = "spawned" /\ apc'[s] = "begun"
       => s \in cancels]_vars
=============================================================================
