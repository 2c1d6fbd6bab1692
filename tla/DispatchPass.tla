---------------------------- MODULE DispatchPass ----------------------------
EXTENDS BuildTables
-----------------------------------------------------------------------------
(* dispatch_pending_builds, run by a worker after a build or on the beat,   *)
(* and by the API when an agent connects or is enabled, or maintenance ends *)

Scan(x) ==
  /\ pc[x] = "scan"
  /\ IF maintenance \/ Dispatchable = {}
     THEN Done(x)
     ELSE /\ Goto(x, "offer")
          /\ job'  = [job EXCEPT ![x] = NoBuild]
          /\ held' = [held EXCEPT ![x] = NoAgent]
          /\ todo' = [todo EXCEPT ![x] = Dispatchable]
          /\ UNCHANGED <<outcome, arg>>
  /\ UNCHANGED outside

(* Go on with the pending builds in rest, or end the pass. *)
NextOffer(x, rest) ==
  IF rest = {} THEN Done(x)
  ELSE /\ Goto(x, "offer")
       /\ todo' = [todo EXCEPT ![x] = rest]
       /\ job'  = [job EXCEPT ![x] = NoBuild]
       /\ held' = [held EXCEPT ![x] = NoAgent]
       /\ UNCHANGED <<outcome, arg>>

(* pick_online_agent for the next pending build of the pass. *)
Offer(x) ==
  /\ pc[x] = "offer"
  /\ \E b \in Oldest(todo[x]) :
       \/ \E a \in Agents :
            /\ Eligible(a, b)
            /\ Goto(x, "reserve")
            /\ job'  = [job EXCEPT ![x] = b]
            /\ held' = [held EXCEPT ![x] = a]
            /\ UNCHANGED <<todo, outcome, arg>>
       \/ /\ \A a \in Agents : ~Eligible(a, b)
          /\ NextOffer(x, todo[x] \ {b})
  /\ UNCHANGED outside

(* claim_agent: lost to another caller, refused by the foreign key because  *)
(* the build is gone (which ends the pass), or won.                         *)
Reserve(x) ==
  /\ pc[x] = "reserve"
  /\ LET b == job[x]  a == held[x] IN
     \/ /\ current_build[a] # NoBuild
        /\ NextOffer(x, todo[x] \ {b})
        /\ UNCHANGED current_build
     \/ /\ current_build[a] = NoBuild /\ status[b] = "gone"
        /\ Done(x)
        /\ UNCHANGED current_build
     \/ /\ current_build[a] = NoBuild /\ status[b] # "gone"
        /\ ClaimAgent(a, b)
        /\ Goto(x, "send")
        /\ UNCHANGED locals
  /\ UNCHANGED <<buildRow, agentLink, live, maintenance, queue, faults, drops>>

(* run_build.delay(build, agent); one build per pipeline and pass. *)
SendTask(x) ==
  /\ pc[x] = "send"
  /\ Send(job[x], held[x])
  /\ NextOffer(x, todo[x] \ BuildsOf(pipe[job[x]]))
  /\ UNCHANGED <<tables, faults, drops>>

(* The broker refuses the task: the agent is released again. *)
SendFails(x) ==
  /\ pc[x] = "send"
  /\ faults < MaxFaults
  /\ faults' = faults + 1
  /\ ReleaseAgent(held[x], job[x])
  /\ NextOffer(x, todo[x] \ BuildsOf(pipe[job[x]]))
  /\ UNCHANGED <<buildRow, agentLink, live, maintenance, queue, drops>>

Pass(x) == Scan(x) \/ Offer(x) \/ Reserve(x) \/ SendTask(x)
=============================================================================
