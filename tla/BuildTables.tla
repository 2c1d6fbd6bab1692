---------------------------- MODULE BuildTables -----------------------------
(***************************************************************************)
(* How a build gets from a trigger to an agent and back.                   *)
(*                                                                         *)
(* The state is the builds and agents tables, the maintenance setting, the *)
(* Celery queue of run_build tasks, and one control point per process that *)
(* reads and writes them: the Celery workers (which run execute_build and  *)
(* the periodic reconcile_and_dispatch) and the API requests in flight     *)
(* (trigger, retry, cancel, dispatch, maintenance, agent, delete).         *)
(*                                                                         *)
(* Grain of atomicity: one action per committed database statement or per  *)
(* message sent.  Reads of one transaction that only decide where to go    *)
(* next are one action; between a read and the write that relies on it     *)
(* every other process may run, as READ COMMITTED allows.                  *)
(*                                                                         *)
(* The steps of a running build are one control point here ("steps").      *)
(***************************************************************************)
EXTENDS Naturals, FiniteSets

CONSTANTS
  Pipelines,    (* the pipelines                                            *)
  Agents,       (* the registered agents                                    *)
  Workers,      (* the Celery worker processes                              *)
  Requests,     (* the API requests that can be in flight at once           *)
  NoAgent,      (* None, where an agent id is expected                      *)
  NoPipeline,   (* None, where a pipeline id is expected                    *)
  MaxBuilds,    (* bound: the builds that can ever be created               *)
  MaxRev,       (* bound: the revisions (commit, branch, params) asked for  *)
  MaxFaults,    (* bound: crashes, raised errors, failed sends              *)
  MaxDrops,     (* bound: control sockets that end, heartbeats that lapse   *)
  MaxSessions,  (* bound: open control sockets of one agent on the server   *)
  ScanLimit,    (* builds one dispatch pass looks at (20 in the code)       *)
  Labels,       (* what runs_on may ask for: os, arch and labels alike      *)
  Has,          (* Has[a]: the labels of agent a                            *)
  Asks,         (* Asks[p]: the runs_on of the YAML of pipeline p           *)
  Flaky,        (* the agents whose socket may drop or go stale             *)
  Toggled,      (* the agents an operator may disable and enable            *)
  Deletable,    (* the pipelines an operator may delete                     *)
  Maintainable  (* whether an administrator may toggle maintenance          *)

Builds  == 1 .. MaxBuilds      (* in the order of created_at *)
NoBuild == 0
Actors  == Workers \cup Requests

ASSUME ConstantsAssumption ==
  /\ NoAgent \notin Agents
  /\ NoPipeline \notin Pipelines
  /\ Workers \cap Requests = {}
  /\ {MaxBuilds, MaxRev, MaxFaults, MaxDrops, MaxSessions, ScanLimit}
       \subseteq Nat
  /\ Has \in [Agents -> SUBSET Labels]
  /\ Asks \in [Pipelines -> SUBSET Labels]
  /\ Flaky \subseteq Agents /\ Toggled \subseteq Agents
  /\ Deletable \subseteq Pipelines
  /\ Maintainable \in BOOLEAN

VARIABLES
  status,        (* Build.status; "absent": not created, "gone": row deleted *)
  pipe,          (* Build.pipeline_id                                        *)
  rev,           (* Build.commit_sha, branch and params_json, as one value   *)
  runs_on,       (* Build.runs_on                                            *)
  online,        (* Agent.status = 'online'                                  *)
  connected,     (* Agent.connected_at is not None                           *)
  enabled,       (* Agent.enabled                                            *)
  current_build, (* Agent.current_build_id                                   *)
  sessions,      (* the control sockets the API holds open for an agent      *)
  live,          (* the pipelines whose row exists                           *)
  maintenance,   (* the committed maintenance setting                        *)
  queue,         (* queue[b][a]: run_build(b, a) tasks not yet received      *)
  pc,            (* where a process is                                       *)
  job,           (* the build it works on                                    *)
  held,          (* the agent it works with (claimed, or about to be)        *)
  todo,          (* the rest of the pending builds its dispatch pass read    *)
  outcome,       (* the final status a worker has decided on                 *)
  arg,           (* what a trigger request asks for                          *)
  faults,        (* the crashes and errors that have happened                *)
  drops          (* the sockets and heartbeats lost so far                   *)

buildRow == <<status, pipe, rev, runs_on>>
agentLink == <<online, connected, enabled, sessions>>
tables == <<buildRow, agentLink, current_build, live, maintenance>>
locals == <<job, held, todo, outcome, arg>>
outside == <<tables, queue, faults, drops>>  (* not the process's own *)
vars == <<status, pipe, rev, runs_on, online, connected, enabled,
          current_build, sessions, live, maintenance, queue,
          pc, job, held, todo, outcome, arg, faults, drops>>

Active   == {"pending", "running"}
Terminal == {"success", "failed", "cancelled"}
Statuses == {"absent", "gone"} \cup Active \cup Terminal
Revs     == 1 .. MaxRev
NoArg    == [pipeline |-> NoPipeline, rev |-> 0, runs_on |-> {}]

(* The lines of code a process can be at, by the routine they belong to.    *)
TriggerPcs == {"find_pending", "insert", "refind", "coalesce", "enqueue"}
AdminPcs   == {"cancel", "purge", "delete", "kick", "unset"}
PassPcs    == {"scan", "offer", "reserve", "send"}
ExecPcs    == {"gate", "bail", "drop_agent", "pick", "claim", "start",
               "steps", "finish", "commit", "release"}
(* Where "held" is an agent the process has claimed, not just looked at.    *)
ClaimedPcs == {"gate", "bail", "drop_agent", "start", "steps", "finish",
               "commit", "release", "send"}
(* Where a worker has started its build and not yet written how it ended.   *)
RunningPcs == {"steps", "finish", "commit"}

-----------------------------------------------------------------------------
(* Helpers *)

Goto(x, l) == pc' = [pc EXCEPT ![x] = l]

(* The process is through with its task or request. *)
Done(x) ==
  /\ pc'   = [pc EXCEPT ![x] = "idle"]
  /\ job'  = [job EXCEPT ![x] = NoBuild]
  /\ held' = [held EXCEPT ![x] = NoAgent]
  /\ todo' = [todo EXCEPT ![x] = {}]
  /\ outcome' = [outcome EXCEPT ![x] = "none"]
  /\ arg'  = [arg EXCEPT ![x] = NoArg]

BuildsOf(p) == {b \in Builds : pipe[b] = p}
PendingOf(p) == {b \in BuildsOf(p) : status[b] = "pending"}

(* pipeline_has_running_build(exclude b); also what the partial unique      *)
(* index on running builds rejects.                                         *)
SiblingRuns(b) == \E c \in BuildsOf(pipe[b]) \ {b} : status[c] = "running"

(* dispatchable_pending_builds_stmt: oldest first, at most ScanLimit. *)
Dispatchable ==
  LET waiting == {b \in Builds : status[b] = "pending" /\ ~SiblingRuns(b)}
  IN  {b \in waiting : Cardinality({c \in waiting : c < b}) < ScanLimit}

(* The builds of S created first: one, unless S is empty. *)
Oldest(S) == {b \in S : \A c \in S : b <= c}

(* pick_online_agent: the agents it may return.  It takes the one whose     *)
(* heartbeat is oldest, which any of them can be.                           *)
Eligible(a, b) ==
  /\ enabled[a] /\ online[a] /\ connected[a]
  /\ current_build[a] = NoBuild
  /\ runs_on[b] \subseteq Has[a]

Fresh == {b \in Builds : status[b] = "absent"}

(* Mutant of ReleaseAgent: the reservation is not compared first. *)
ReleaseBlindly(a, b) == current_build' = [current_build EXCEPT ![a] = NoBuild]

(* UPDATE agents SET current_build_id = NULL WHERE id = a AND               *)
(* current_build_id = b (release_agent with a build id).                    *)
ReleaseAgent(a, b) ==
  current_build' = [current_build EXCEPT ![a] = IF @ = b THEN NoBuild ELSE @]

(* claim_agent: only if the agent is idle. *)
ClaimAgent(a, b) == current_build' = [current_build EXCEPT ![a] = b]

(* run_build.delay(b, a) *)
Send(b, a) == queue' = [queue EXCEPT ![b][a] = @ + 1]

-----------------------------------------------------------------------------
(* Initial state: an installed system whose agents have connected.          *)

Init ==
  /\ status  = [b \in Builds |-> "absent"]
  /\ pipe    = [b \in Builds |-> NoPipeline]
  /\ rev     = [b \in Builds |-> 0]
  /\ runs_on = [b \in Builds |-> {}]
  /\ online = [a \in Agents |-> TRUE]
  /\ connected = [a \in Agents |-> TRUE]
  /\ enabled = [a \in Agents |-> TRUE]
  /\ current_build = [a \in Agents |-> NoBuild]
  /\ sessions = [a \in Agents |-> 1]
  /\ live = Pipelines
  /\ maintenance = FALSE
  /\ queue = [b \in Builds |-> [a \in Agents \cup {NoAgent} |-> 0]]
  /\ pc = [x \in Actors |-> "idle"]
  /\ job = [x \in Actors |-> NoBuild]
  /\ held = [x \in Actors |-> NoAgent]
  /\ todo = [x \in Actors |-> {}]
  /\ outcome = [x \in Actors |-> "none"]
  /\ arg = [x \in Actors |-> NoArg]
  /\ faults = 0
  /\ drops = 0

(* Every variable has its type. *)
TypeOK ==
  /\ status \in [Builds -> Statuses]
  /\ pipe \in [Builds -> Pipelines \cup {NoPipeline}]
  /\ rev \in [Builds -> Nat]
  /\ runs_on \in [Builds -> SUBSET Labels]
  /\ online \in [Agents -> BOOLEAN]
  /\ connected \in [Agents -> BOOLEAN]
  /\ enabled \in [Agents -> BOOLEAN]
  /\ current_build \in [Agents -> Builds \cup {NoBuild}]
  /\ sessions \in [Agents -> Nat]
  /\ live \subseteq Pipelines
  /\ maintenance \in BOOLEAN
  /\ queue \in [Builds -> [Agents \cup {NoAgent} -> Nat]]
  /\ pc \in [Actors -> {"idle"} \cup TriggerPcs \cup AdminPcs
                         \cup PassPcs \cup ExecPcs]
  /\ job \in [Actors -> Builds \cup {NoBuild}]
  /\ held \in [Actors -> Agents \cup {NoAgent}]
  /\ todo \in [Actors -> SUBSET Builds]
  /\ outcome \in [Actors -> {"none"} \cup Terminal]
  /\ arg \in [Actors -> [pipeline : Pipelines \cup {NoPipeline}, rev : Nat,
                         runs_on : SUBSET Labels]]
  /\ faults \in Nat
  /\ drops \in Nat
=============================================================================
