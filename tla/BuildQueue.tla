----------------------------- MODULE BuildQueue -----------------------------
EXTENDS DispatchPass, BuildExecutor, BuildRequests, AgentPresence
-----------------------------------------------------------------------------
(* What happens to the system *)

(* A worker process, or the API while it serves a request, is killed.       *)
Crash(x) ==
  /\ pc[x] # "idle" /\ faults < MaxFaults
  /\ faults' = faults + 1
  /\ Done(x)
  /\ UNCHANGED <<tables, queue, drops>>

(* An exception leaves _run_build_stages: the build is not finalised, the   *)
(* finally block of execute_build runs.                                     *)
StepsRaise(w) ==
  /\ pc[w] = "steps" /\ faults < MaxFaults
  /\ faults' = faults + 1
  /\ Goto(w, "release")
  /\ UNCHANGED <<tables, queue, locals, drops>>

-----------------------------------------------------------------------------

(* A request arrives. *)
Arrive(r) ==
  \/ Trigger(r) \/ TriggerStep(r) \/ Retry(r)
  \/ \E b \in Builds : Cancel(r, b) \/ Dispatch(r, b)
  \/ \E p \in Deletable : DeletePipeline(r, p)
  \/ Maintainable /\ (MaintenanceOn(r) \/ MaintenanceOff(r))
  \/ \E a \in Toggled : Enable(r, a) \/ Disable(r, a)
  \/ \E a \in Flaky : Connect(r, a)

(* A request in flight goes on. *)
Serve(r) ==
  \/ FindPending(r) \/ Insert(r) \/ Coalesce(r) \/ Enqueue(r)
  \/ CancelCommit(r) \/ Purge(r) \/ DropPipeline(r) \/ Kick(r) \/ Unset(r)

Receive(b, a) == \E w \in Workers : Take(w, b, a)
Beat == \E w \in Workers : Reconcile(w)

Fault ==
  \/ \E a \in Flaky : SessionEnds(a) \/ GoesStale(a)
  \/ \E x \in Actors : Crash(x) \/ SendFails(x)
  \/ \E w \in Workers : StepsRaise(w)

Next ==
  \/ \E x \in Actors : Pass(x)
  \/ \E w \in Workers : Execute(w)
  \/ \E r \in Requests : Arrive(r) \/ Serve(r)
  \/ \E b \in Builds, a \in Agents \cup {NoAgent} : Receive(b, a)
  \/ Beat
  \/ \E a \in Flaky : Heartbeat(a)
  \/ Fault

Spec == Init /\ [][Next]_vars

(* Processes that are not killed go on; steps end (every wait in them has a *)
(* timeout); the broker's list is first in, first out, so every task in it  *)
(* is received.                                                             *)
Progress ==
  /\ \A x \in Actors : WF_vars(Pass(x))
  /\ \A w \in Workers : WF_vars(Execute(w))
  /\ \A r \in Requests : WF_vars(Serve(r))
  /\ \A b \in Builds, a \in Agents \cup {NoAgent} : SF_vars(Receive(b, a))

(* Celery beat queues reconcile_and_dispatch every 30 seconds. *)
FairSpec == Spec /\ Progress /\ SF_vars(Beat)

-----------------------------------------------------------------------------
(* Safety *)

(* A pipeline never has two running builds, nor two pending ones, however   *)
(* its triggers, retries, dispatch passes and workers interleave.           *)
SingleRun ==
  \A b, c \in Builds :
    /\ b # c /\ pipe[b] = pipe[c] /\ status[b] = status[c]
    => status[b] \notin Active

(* Where a build is in its life, for PipelineSlots. *)
Phase == [b \in Builds |->
            CASE status[b] = "absent"  -> "new"
              [] status[b] = "pending" -> "waiting"
              [] status[b] = "running" -> "running"
              [] OTHER                 -> "over"]

Slots == INSTANCE PipelineSlots WITH phase <- Phase, of <- pipe

(* Every history of the tables is one of two slots per pipeline: a build    *)
(* takes the free waiting slot, moves to the free running slot, and is over *)
(* for good, whatever races in between.                                     *)
SlotsSpec == Slots!Spec

(* A build is executed by one worker, also when several workers received a  *)
(* task for it and some of them died.                                       *)
OneExecutor ==
  \A v, w \in Workers :
    v # w /\ pc[v] \in RunningPcs /\ pc[w] \in RunningPcs => job[v] # job[w]

(* The task or process that has the reservation of a for b. *)
Responsible(a, b) ==
  \/ queue[b][a] > 0
  \/ \E x \in Actors : pc[x] \in ClaimedPcs /\ job[x] = b /\ held[x] = a

(* Unless something fails, a reserved agent is always on somebody's list to *)
(* be released: no early return forgets the agent it was handed.            *)
NoOrphanedReservation ==
  faults = 0 =>
    \A a \in Agents :
      current_build[a] # NoBuild => Responsible(a, current_build[a])

(* The worker executes its build and the build has not been cancelled. *)
Runs(w) == pc[w] \in RunningPcs /\ status[job[w]] = "running"

(* Unless an agent lost its socket, the agent of a running build is reserved *)
(* for it, so no two running builds share an agent.                         *)
RunningHoldsAgent ==
  drops = 0 => \A w \in Workers : Runs(w) => current_build[held[w]] = job[w]

-----------------------------------------------------------------------------
(* Liveness *)

(* Unless something fails, a pending build starts, or is cancelled or       *)
(* deleted: whatever wakeup the edge-triggered passes miss, the beat makes  *)
(* up for.                                                                  *)
PendingServed ==
  \A b \in Builds :
    status[b] = "pending" ~> (status[b] # "pending" \/ faults + drops > 0)

(* A reservation whose build has ended does not last. *)
LeakHealed ==
  \A a \in Agents, b \in Builds :
    (current_build[a] = b /\ status[b] \in Terminal) ~> current_build[a] # b
=============================================================================
