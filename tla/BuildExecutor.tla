--------------------------- MODULE BuildExecutor ----------------------------
EXTENDS BuildTables
-----------------------------------------------------------------------------
(* execute_build, in a worker *)

(* The worker receives run_build(b, a).  Celery acknowledges it at once, so *)
(* the broker does not deliver it again.                                    *)
Take(w, b, a) ==
  /\ pc[w] = "idle"
  /\ queue[b][a] > 0
  /\ queue' = [queue EXCEPT ![b][a] = @ - 1]
  /\ Goto(w, "gate")
  /\ job'  = [job EXCEPT ![w] = b]
  /\ held' = [held EXCEPT ![w] = a]
  /\ UNCHANGED <<tables, todo, outcome, arg, faults, drops>>

(* The checks before an agent is used: the build still pending, no          *)
(* maintenance, no running build of its pipeline, the agent still there.    *)
Gate(w) ==
  /\ pc[w] = "gate"
  /\ LET b == job[w]  a == held[w]
         blocked == status[b] # "pending" \/ maintenance \/ SiblingRuns(b)
     IN
     \/ /\ blocked /\ a = NoAgent
        /\ Done(w)
     \/ /\ ~(blocked /\ a = NoAgent)
        /\ Goto(w, IF blocked THEN "bail"
                   ELSE IF a = NoAgent THEN "pick"
                   ELSE IF online[a] /\ connected[a] THEN "start"
                   ELSE "drop_agent")
        /\ UNCHANGED locals
  /\ UNCHANGED outside

(* Mutant of Bail: an early return that forgets the pre-claimed agent. *)
BailKeepsAgent(w) ==
  /\ pc[w] = "bail"
  /\ Done(w)
  /\ UNCHANGED outside

(* Give the pre-claimed agent back and leave the build as it is; no pass.   *)
Bail(w) ==
  /\ pc[w] = "bail"
  /\ ReleaseAgent(held[w], job[w])
  /\ Done(w)
  /\ UNCHANGED <<buildRow, agentLink, live, maintenance, queue, faults, drops>>

(* The pre-claimed agent went offline: give it back and look for another.   *)
DropAgent(w) ==
  /\ pc[w] = "drop_agent"
  /\ ReleaseAgent(held[w], job[w])
  /\ held' = [held EXCEPT ![w] = NoAgent]
  /\ Goto(w, "pick")
  /\ UNCHANGED <<buildRow, agentLink, live, maintenance, queue, job,
                 todo, outcome, arg, faults, drops>>

Pick(w) ==
  /\ pc[w] = "pick"
  /\ \/ \E a \in Agents :
          /\ Eligible(a, job[w])
          /\ held' = [held EXCEPT ![w] = a]
          /\ Goto(w, "claim")
          /\ UNCHANGED <<job, todo, outcome, arg>>
     \/ /\ \A a \in Agents : ~Eligible(a, job[w])
        /\ Done(w)
  /\ UNCHANGED outside

(* claim_agent; when it fails the build stays pending and the task ends.    *)
Claim(w) ==
  /\ pc[w] = "claim"
  /\ \/ /\ current_build[held[w]] = NoBuild /\ status[job[w]] # "gone"
        /\ ClaimAgent(held[w], job[w])
        /\ Goto(w, "start")
        /\ UNCHANGED locals
     \/ /\ current_build[held[w]] # NoBuild \/ status[job[w]] = "gone"
        /\ Done(w)
        /\ UNCHANGED current_build
  /\ UNCHANGED <<buildRow, agentLink, live, maintenance, queue, faults, drops>>

(* Mutant of Start: the UPDATE does not ask for a pending build. *)
StartUnconditionally(w) ==
  /\ pc[w] = "start"
  /\ LET starts == status[job[w]] # "gone" /\ ~SiblingRuns(job[w])
     IN  /\ status' = [status EXCEPT ![job[w]] =
                          IF starts THEN "running" ELSE @]
         /\ Goto(w, IF starts THEN "steps" ELSE "release")
  /\ UNCHANGED <<agentLink, pipe, rev, runs_on, current_build, live,
                 maintenance, queue, locals, faults, drops>>

(* try_start_build: UPDATE ... WHERE status = 'pending', under the unique   *)
(* index on running builds.                                                 *)
Start(w) ==
  /\ pc[w] = "start"
  /\ LET b == job[w]
         starts == status[b] = "pending" /\ ~SiblingRuns(b)
     IN  /\ status' = [status EXCEPT ![b] = IF starts THEN "running" ELSE @]
         /\ Goto(w, IF starts THEN "steps" ELSE "release")
  /\ UNCHANGED <<agentLink, pipe, rev, runs_on, current_build, live,
                 maintenance, queue, locals, faults, drops>>

(* Mutant of StepsEnd: the final status is only set when a step failed. *)
StepsEndUnset(w) ==
  /\ pc[w] = "steps"
  /\ status[job[w]] # "gone"
  /\ Goto(w, "finish")
  /\ \E o \in {"none", "failed"} : outcome' = [outcome EXCEPT ![w] = o]
  /\ UNCHANGED <<outside, job, held, todo, arg>>

(* All steps ran, or one failed. *)
StepsEnd(w) ==
  /\ pc[w] = "steps"
  /\ status[job[w]] # "gone"
  /\ Goto(w, "finish")
  /\ \E o \in {"success", "failed"} : outcome' = [outcome EXCEPT ![w] = o]
  /\ UNCHANGED <<outside, job, held, todo, arg>>

(* A re-read of the status between steps finds the build cancelled. *)
SeesCancel(w) ==
  /\ pc[w] = "steps"
  /\ status[job[w]] = "cancelled"
  /\ Goto(w, "finish")
  /\ outcome' = [outcome EXCEPT ![w] = "cancelled"]
  /\ UNCHANGED <<outside, job, held, todo, arg>>

(* The row is gone: the refresh, or the write of the final status, raises.  *)
SeesGone(w) ==
  /\ pc[w] \in RunningPcs
  /\ status[job[w]] = "gone"
  /\ Goto(w, "release")
  /\ UNCHANGED <<outside, locals>>

(* The last re-read of the status decides the final status ... *)
Finish(w) ==
  /\ pc[w] = "finish"
  /\ status[job[w]] # "gone"
  /\ Goto(w, "commit")
  /\ outcome' = [outcome EXCEPT ![w] =
                   IF status[job[w]] = "cancelled" THEN "cancelled" ELSE @]
  /\ UNCHANGED <<outside, job, held, todo, arg>>

(* ... and the commit writes it over whatever the row says by then. *)
Commit(w) ==
  /\ pc[w] = "commit"
  /\ status[job[w]] # "gone"
  /\ status' = [status EXCEPT ![job[w]] = outcome[w]]
  /\ Goto(w, "release")
  /\ UNCHANGED <<agentLink, pipe, rev, runs_on, current_build, live,
                 maintenance, queue, locals, faults, drops>>

(* The finally block: release the agent, then run a dispatch pass. *)
Release(w) ==
  /\ pc[w] = "release"
  /\ ReleaseAgent(held[w], job[w])
  /\ Goto(w, "scan")
  /\ job'  = [job EXCEPT ![w] = NoBuild]
  /\ held' = [held EXCEPT ![w] = NoAgent]
  /\ outcome' = [outcome EXCEPT ![w] = "none"]
  /\ UNCHANGED <<buildRow, agentLink, live, maintenance, queue, todo, arg,
                 faults, drops>>

(* Mutant of Reconcile: it heals reservations and starts no pass. *)
ReconcileOnly(w) ==
  /\ pc[w] = "idle"
  /\ current_build' =
       [a \in Agents |->
          IF \E b \in Builds : current_build[a] = b /\ status[b] \in Terminal
          THEN NoBuild ELSE current_build[a]]
  /\ UNCHANGED <<buildRow, agentLink, live, maintenance, queue, pc, locals,
                 faults, drops>>

(* Mutant of Reconcile: it starts a pass and heals nothing. *)
DispatchOnly(w) ==
  /\ pc[w] = "idle"
  /\ Goto(w, "scan")
  /\ UNCHANGED <<outside, locals>>

(* reconcile_and_dispatch, every 30 seconds: clear the reservations whose   *)
(* build has ended, then run a dispatch pass.  One action: a build that has *)
(* ended stays so, and the UPDATE looks at the reservation again.           *)
Reconcile(w) ==
  /\ pc[w] = "idle"
  /\ current_build' =
       [a \in Agents |->
          IF \E b \in Builds : current_build[a] = b /\ status[b] \in Terminal
          THEN NoBuild ELSE current_build[a]]
  /\ Goto(w, "scan")
  /\ UNCHANGED <<buildRow, agentLink, live, maintenance, queue, locals,
                 faults, drops>>

Execute(w) ==
  \/ Gate(w) \/ Bail(w) \/ DropAgent(w) \/ Pick(w) \/ Claim(w) \/ Start(w)
  \/ StepsEnd(w) \/ SeesCancel(w) \/ SeesGone(w) \/ Finish(w) \/ Commit(w)
  \/ Release(w)
=============================================================================
