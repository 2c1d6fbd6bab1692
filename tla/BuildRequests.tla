--------------------------- MODULE BuildRequests ----------------------------
EXTENDS BuildTables
-----------------------------------------------------------------------------
(* Trigger, retry, webhook and trigger_pipeline: create_or_coalesce_build   *)

Ask(r, p, v, needs) ==
  /\ pc[r] = "idle"
  /\ Goto(r, "find_pending")
  /\ arg' = [arg EXCEPT ![r] = [pipeline |-> p, rev |-> v, runs_on |-> needs]]
  (* bound: no more requests than builds left to create *)
  /\ \/ PendingOf(p) # {}
     \/ LET asking == {x \in Requests :
                         pc[x] \in {"find_pending", "insert", "refind"}}
        IN  Cardinality(asking) < Cardinality(Fresh)
  /\ UNCHANGED <<outside, job, held, todo, outcome>>

(* A manual or webhook trigger captures runs_on from the YAML. *)
Trigger(r) == \E p \in live, v \in Revs : Ask(r, p, v, Asks[p])

(* A trigger_pipeline step of a running build does not. *)
TriggerStep(r) ==
  \E p \in live, v \in Revs, w \in Workers :
    pc[w] = "steps" /\ Ask(r, p, v, {})

(* A retry copies the original build, whatever became of it. *)
Retry(r) ==
  \E b \in Builds :
    /\ status[b] \in {"pending"} \cup Terminal
    /\ Ask(r, pipe[b], rev[b], runs_on[b])

(* _find_pending, before the insert and again after it hit the index. *)
FindPending(r) ==
  /\ pc[r] \in {"find_pending", "refind"}
  /\ \/ \E b \in PendingOf(arg[r].pipeline) :
          /\ job' = [job EXCEPT ![r] = b]
          /\ Goto(r, "coalesce")
          /\ UNCHANGED <<held, todo, outcome, arg>>
     \/ /\ PendingOf(arg[r].pipeline) = {}
        /\ \/ /\ pc[r] = "find_pending"
              /\ Goto(r, "insert")
              /\ UNCHANGED locals
           \/ pc[r] = "refind" /\ Done(r)   (* the IntegrityError is raised *)
  /\ UNCHANGED outside

(* Mutant of Insert: there is no unique index on pending builds. *)
InsertUnchecked(r) ==
  /\ pc[r] = "insert"
  /\ arg[r].pipeline \in live
  /\ \E b \in Oldest(Fresh) :
       /\ status'  = [status EXCEPT ![b] = "pending"]
       /\ pipe'    = [pipe EXCEPT ![b] = arg[r].pipeline]
       /\ rev'     = [rev EXCEPT ![b] = arg[r].rev]
       /\ runs_on' = [runs_on EXCEPT ![b] = arg[r].runs_on]
       /\ job'     = [job EXCEPT ![r] = b]
  /\ Goto(r, "enqueue")
  /\ UNCHANGED <<agentLink, current_build, live, maintenance, queue, held,
                 todo, outcome, arg, faults, drops>>

(* INSERT and commit; the unique index on pending builds, or the foreign     *)
(* key of a deleted pipeline, refuses it.                                   *)
Insert(r) ==
  /\ pc[r] = "insert"
  /\ LET p == arg[r].pipeline
         refused == PendingOf(p) # {} \/ p \notin live
     IN
     \/ /\ refused
        /\ Goto(r, "refind")
        /\ UNCHANGED <<buildRow, job>>
     \/ /\ ~refused
        /\ \E b \in Oldest(Fresh) :
             /\ status'  = [status EXCEPT ![b] = "pending"]
             /\ pipe'    = [pipe EXCEPT ![b] = p]
             /\ rev'     = [rev EXCEPT ![b] = arg[r].rev]
             /\ runs_on' = [runs_on EXCEPT ![b] = arg[r].runs_on]
             /\ job'     = [job EXCEPT ![r] = b]
        /\ Goto(r, "enqueue")
  /\ UNCHANGED <<agentLink, current_build, live, maintenance, queue, held,
                 todo, outcome, arg, faults, drops>>

(* _coalesce: the latest trigger replaces what the found build will run.    *)
(* The write goes by primary key and does not look at the status again.     *)
Coalesce(r) ==
  /\ pc[r] = "coalesce"
  /\ rev' = [rev EXCEPT ![job[r]] =
               IF status[job[r]] = "gone" THEN @ ELSE arg[r].rev]
  /\ Done(r)
  /\ UNCHANGED <<agentLink, status, pipe, runs_on, current_build,
                 live, maintenance, queue, faults, drops>>

(* run_build.delay(build), after the commit. *)
Enqueue(r) ==
  /\ pc[r] = "enqueue"
  /\ Send(job[r], NoAgent)
  /\ Done(r)
  /\ UNCHANGED <<tables, faults, drops>>

-----------------------------------------------------------------------------
(* The other requests *)

(* cancel_build reads a status that can be cancelled ... *)
Cancel(r, b) ==
  /\ pc[r] = "idle"
  /\ status[b] \in Active
  /\ job' = [job EXCEPT ![r] = b]
  /\ Goto(r, "cancel")
  /\ UNCHANGED <<outside, held, todo, outcome, arg>>

(* ... and writes "cancelled" by primary key (an error if the row is gone). *)
CancelCommit(r) ==
  /\ pc[r] = "cancel"
  /\ status' = [status EXCEPT ![job[r]] =
                  IF @ = "gone" THEN @ ELSE "cancelled"]
  /\ Done(r)
  /\ UNCHANGED <<agentLink, pipe, rev, runs_on, current_build,
                 live, maintenance, queue, faults, drops>>

(* dispatch_build: a dispatch pass over one build. *)
Dispatch(r, b) ==
  /\ pc[r] = "idle"
  /\ status[b] = "pending" /\ ~maintenance /\ ~SiblingRuns(b)
  /\ todo' = [todo EXCEPT ![r] = {b}]
  /\ Goto(r, "offer")
  /\ UNCHANGED <<outside, job, held, outcome, arg>>

(* delete_pipeline?force=true: read the active builds, cancel them, delete. *)
DeletePipeline(r, p) ==
  /\ pc[r] = "idle" /\ p \in live
  /\ todo' = [todo EXCEPT ![r] = {b \in BuildsOf(p) : status[b] \in Active}]
  /\ arg'  = [arg EXCEPT ![r] = [NoArg EXCEPT !.pipeline = p]]
  /\ Goto(r, "purge")
  /\ UNCHANGED <<outside, job, held, outcome>>

Purge(r) ==
  /\ pc[r] = "purge"
  /\ status' = [b \in Builds |-> IF b \in todo[r] /\ status[b] # "gone"
                                 THEN "cancelled" ELSE status[b]]
  /\ Goto(r, "delete")
  /\ UNCHANGED <<agentLink, pipe, rev, runs_on, current_build, live,
                 maintenance, queue, locals, faults, drops>>

(* The cascade takes the builds along; agents.current_build_id is SET NULL. *)
DropPipeline(r) ==
  /\ pc[r] = "delete"
  /\ LET p == arg[r].pipeline IN
     /\ live' = live \ {p}
     /\ status' = [b \in Builds |->
                     IF b \in BuildsOf(p) THEN "gone" ELSE status[b]]
     /\ current_build' = [a \in Agents |-> IF current_build[a] \in BuildsOf(p)
                                           THEN NoBuild ELSE current_build[a]]
  /\ Done(r)
  /\ UNCHANGED <<agentLink, pipe, rev, runs_on, maintenance, queue,
                 faults, drops>>

MaintenanceOn(r) ==
  /\ pc[r] = "idle" /\ ~maintenance
  /\ maintenance' = TRUE
  /\ UNCHANGED <<buildRow, agentLink, current_build, live, queue, pc, locals,
                 faults, drops>>

(* set_maintenance(enabled=False): the new value is flushed, the dispatcher *)
(* is kicked in a session of its own, which reads the committed value, and  *)
(* get_db commits after the handler has returned.                           *)
MaintenanceOff(r) ==
  /\ pc[r] = "idle" /\ maintenance
  /\ Goto(r, "kick")
  /\ UNCHANGED <<outside, locals>>

Kick(r) ==
  /\ pc[r] = "kick"
  /\ Goto(r, IF maintenance THEN "unset" ELSE "scan")
  /\ UNCHANGED <<outside, locals>>

Unset(r) ==
  /\ pc[r] = "unset"
  /\ maintenance' = FALSE
  /\ Done(r)
  /\ UNCHANGED <<buildRow, agentLink, current_build, live, queue,
                 faults, drops>>
=============================================================================
