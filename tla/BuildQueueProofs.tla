-------------------------- MODULE BuildQueueProofs --------------------------
(***************************************************************************)
(* The type invariant of the build queue, and which process moves in a     *)
(* step; then what becomes of a build: one slot per pipeline for a waiting *)
(* and for a running build, one worker per running build.  For those the   *)
(* steps of every routine are first reduced to four ways to change the     *)
(* builds table (RowStep), and the theorems follow from those.  Last, what *)
(* holds an agent: the reservation, its holder and its release.            *)
(***************************************************************************)
EXTENDS BuildQueue, TLAPS

(* A worker that is about to write a final status has one, and an executor  *)
(* always has a build.                                                      *)
Decided ==
  /\ \A w \in Workers : pc[w] \in {"finish", "commit"} => outcome[w] \in Terminal
  /\ \A x \in Actors : pc[x] \in ExecPcs => job[x] \in Builds

(* The part of TypeOK that is about processes, made inductive by Decided.   *)
LocalsTyped ==
  /\ pc \in [Actors -> {"idle"} \cup TriggerPcs \cup AdminPcs
                         \cup PassPcs \cup ExecPcs]
  /\ job \in [Actors -> Builds \cup {NoBuild}]
  /\ held \in [Actors -> Agents \cup {NoAgent}]
  /\ todo \in [Actors -> SUBSET Builds]
  /\ outcome \in [Actors -> {"none"} \cup Terminal]
  /\ arg \in [Actors -> [pipeline : Pipelines \cup {NoPipeline}, rev : Nat,
                         runs_on : SUBSET Labels]]
  /\ Decided

(* The part of TypeOK that is about the tables and the queue.               *)
TablesTyped ==
  /\ status \in [Builds -> Statuses]
  /\ pipe \in [Builds -> Pipelines \cup {NoPipeline}]
  /\ rev \in [Builds -> Nat]
  /\ runs_on \in [Builds -> SUBSET Labels]
  /\ online \in [Agents -> BOOLEAN]
  /\ connected \in [Agents -> BOOLEAN]
  /\ enabled \in [Agents -> BOOLEAN]
  /\ current_build \in [Agents -> Builds \cup {NoBuild}]
  /\ sessions \in [Agents -> Nat]
  /\ live \subseteq Pipelines
  /\ maintenance \in BOOLEAN
  /\ queue \in [Builds -> [Agents \cup {NoAgent} -> Nat]]
  /\ faults \in Nat
  /\ drops \in Nat

Typed == TablesTyped /\ LocalsTyped

USE DEF buildRow, agentLink, tables, locals, outside, Goto, NoBuild, NoArg,
        TriggerPcs, AdminPcs, PassPcs, ExecPcs

(* Workers and requests are the actors.                                     *)
LEMMA WorkersAct == Workers \subseteq Actors /\ Requests \subseteq Actors
BY DEF Actors

(* A process that is through has well-typed locals.                         *)
LEMMA DoneTyped ==
  ASSUME LocalsTyped, NEW x \in Actors, Done(x)
  PROVE  LocalsTyped'
BY WorkersAct DEF LocalsTyped, Decided, Done

(* So has one that goes on with the rest of its dispatch pass.              *)
LEMMA NextOfferTyped ==
  ASSUME LocalsTyped, NEW x \in Actors, NEW rest \in SUBSET Builds,
         NextOffer(x, rest)
  PROVE  LocalsTyped'
<1>1. CASE rest = {}
  BY <1>1, DoneTyped DEF NextOffer
<1>2. CASE rest # {}
  BY <1>2, WorkersAct DEF NextOffer, LocalsTyped, Decided
<1>. QED BY <1>1, <1>2

(* The type of the queue, alone: the solvers need it out of the way.        *)
Queued == queue \in [Builds -> [Agents \cup {NoAgent} -> Nat]]

(* run_build.delay keeps the queue well-typed.                              *)
LEMMA SendTyped ==
  ASSUME Queued, NEW b, NEW a \in Agents \cup {NoAgent}, Send(b, a)
  PROVE  Queued'
<1>1. CASE b \in Builds
  <2>1. queue[b] \in [Agents \cup {NoAgent} -> Nat]
    BY <1>1 DEF Queued
  <2>2. [queue[b] EXCEPT ![a] = @ + 1] \in [Agents \cup {NoAgent} -> Nat]
    BY <2>1
  <2>. QED BY <1>1, <2>2 DEF Queued, Send
<1>2. CASE b \notin Builds
  BY <1>2 DEF Queued, Send
<1>. QED BY <1>1, <1>2

(* Every step of a dispatch pass keeps the types.                           *)
LEMMA PassTyped ==
  ASSUME Typed, NEW x \in Actors, Pass(x)
  PROVE  Typed'
<1>1. CASE Scan(x)
  <2>1. TablesTyped'
    BY <1>1 DEF Typed, TablesTyped, Scan
  <2>2. CASE maintenance \/ Dispatchable = {}
    BY <1>1, <2>1, <2>2, DoneTyped DEF Typed, Scan
  <2>3. CASE ~(maintenance \/ Dispatchable = {})
    <3>1. Dispatchable \in SUBSET Builds
      BY DEF Dispatchable
    <3>2. LocalsTyped'
      BY <1>1, <2>3, <3>1, WorkersAct DEF Typed, Scan, LocalsTyped, Decided
    <3>. QED BY <2>1, <3>2 DEF Typed
  <2>. QED BY <2>2, <2>3
<1>2. CASE Offer(x)
  <2>1. TablesTyped'
    BY <1>2 DEF Typed, TablesTyped, Offer
  <2>2. PICK b \in Oldest(todo[x]) : Offer(x)!2!(b)
    BY <1>2 DEF Offer
  <2>3. b \in Builds /\ todo[x] \ {b} \in SUBSET Builds
    BY DEF Oldest, Typed, LocalsTyped
  <2>4. CASE \A a \in Agents : ~Eligible(a, b)
    BY <2>1, <2>2, <2>3, <2>4, NextOfferTyped DEF Typed
  <2>5. CASE ~ \A a \in Agents : ~Eligible(a, b)
    <3>1. PICK a \in Agents :
            /\ Goto(x, "reserve")
            /\ job'  = [job EXCEPT ![x] = b]
            /\ held' = [held EXCEPT ![x] = a]
            /\ UNCHANGED <<todo, outcome, arg>>
      BY <2>2, <2>5
    <3>2. LocalsTyped'
      BY <2>3, <3>1, WorkersAct DEF Typed, LocalsTyped, Decided
    <3>. QED BY <2>1, <3>2 DEF Typed
  <2>. QED BY <2>4, <2>5
<1>3. CASE Reserve(x)
  <2>1. TablesTyped'
    BY <1>3 DEF Typed, TablesTyped, LocalsTyped, Reserve, ClaimAgent
  <2>2. todo[x] \ {job[x]} \in SUBSET Builds
    BY DEF Typed, LocalsTyped
  <2>3. CASE NextOffer(x, todo[x] \ {job[x]})
    BY <2>1, <2>2, <2>3, NextOfferTyped DEF Typed
  <2>4. CASE Done(x)
    BY <2>1, <2>4, DoneTyped DEF Typed
  <2>5. CASE Goto(x, "send") /\ UNCHANGED locals
    <3>1. LocalsTyped'
      BY <2>5, WorkersAct DEF Typed, LocalsTyped, Decided
    <3>. QED BY <2>1, <3>1 DEF Typed
  <2>. QED BY <1>3, <2>3, <2>4, <2>5 DEF Reserve
<1>4. CASE SendTask(x)
  <2>. Queued'
    BY <1>4, SendTyped DEF Typed, TablesTyped, LocalsTyped, Queued, SendTask
  <2>1. TablesTyped'
    BY <1>4 DEF Typed, TablesTyped, SendTask, Queued
  <2>2. todo[x] \ BuildsOf(pipe[job[x]]) \in SUBSET Builds
    BY DEF Typed, LocalsTyped
  <2>3. LocalsTyped'
    BY <1>4, <2>2, NextOfferTyped DEF Typed, SendTask
  <2>. QED BY <2>1, <2>3 DEF Typed
<1>. QED BY <1>1, <1>2, <1>3, <1>4 DEF Pass

(* Every step of execute_build keeps the types.                             *)
LEMMA ExecuteTyped ==
  ASSUME Typed, NEW w \in Workers, Execute(w)
  PROVE  Typed'
<1>1. CASE Gate(w)
  <2>1. TablesTyped'
    BY <1>1
    DEF Typed, TablesTyped, Gate
  <2>2. CASE Done(w)
    BY <2>1, <2>2, WorkersAct, DoneTyped DEF Typed
  <2>3. CASE ~Done(w)
    <3>1. LocalsTyped'
      BY <1>1, <2>3, WorkersAct
      DEF Typed, LocalsTyped, Decided, Gate
    <3>. QED BY <2>1, <3>1 DEF Typed
  <2>. QED BY <2>2, <2>3
<1>2. CASE Bail(w)
  <2>1. TablesTyped'
    BY <1>2
    DEF Typed, TablesTyped, Bail, ReleaseAgent
  <2>2. Done(w)
    BY <1>2 DEF Bail
  <2>. QED BY <2>1, <2>2, WorkersAct, DoneTyped DEF Typed
<1>3. CASE DropAgent(w)
  <2>1. TablesTyped'
    BY <1>3
    DEF Typed, TablesTyped, DropAgent, ReleaseAgent
  <2>2. LocalsTyped'
    BY <1>3, WorkersAct
    DEF Typed, LocalsTyped, Decided, DropAgent
  <2>. QED BY <2>1, <2>2 DEF Typed
<1>4. CASE Pick(w)
  <2>1. TablesTyped'
    BY <1>4
    DEF Typed, TablesTyped, Pick
  <2>2. CASE Done(w)
    BY <2>1, <2>2, WorkersAct, DoneTyped DEF Typed
  <2>3. CASE ~Done(w)
    <3>1. LocalsTyped'
      BY <1>4, <2>3, WorkersAct
      DEF Typed, LocalsTyped, Decided, Pick
    <3>. QED BY <2>1, <3>1 DEF Typed
  <2>. QED BY <2>2, <2>3
<1>5. CASE Claim(w)
  <2>1. TablesTyped'
    BY <1>5, WorkersAct
    DEF Typed, TablesTyped, Claim, LocalsTyped, ClaimAgent
  <2>2. CASE Done(w)
    BY <2>1, <2>2, WorkersAct, DoneTyped DEF Typed
  <2>3. CASE ~Done(w)
    <3>1. LocalsTyped'
      BY <1>5, <2>3, WorkersAct
      DEF Typed, LocalsTyped, Decided, Claim
    <3>. QED BY <2>1, <3>1 DEF Typed
  <2>. QED BY <2>2, <2>3
<1>6. CASE Start(w)
  <2>1. TablesTyped'
    BY <1>6
    DEF Typed, TablesTyped, Start, Statuses, Active
  <2>2. LocalsTyped'
    BY <1>6, WorkersAct
    DEF Typed, LocalsTyped, Decided, Start
  <2>. QED BY <2>1, <2>2 DEF Typed
<1>7. CASE StepsEnd(w)
  <2>1. TablesTyped'
    BY <1>7
    DEF Typed, TablesTyped, StepsEnd
  <2>2. LocalsTyped'
    BY <1>7, WorkersAct
    DEF Typed, LocalsTyped, Decided, StepsEnd, Terminal
  <2>. QED BY <2>1, <2>2 DEF Typed
<1>8. CASE SeesCancel(w)
  <2>1. TablesTyped'
    BY <1>8
    DEF Typed, TablesTyped, SeesCancel
  <2>2. LocalsTyped'
    BY <1>8, WorkersAct
    DEF Typed, LocalsTyped, Decided, SeesCancel, Terminal
  <2>. QED BY <2>1, <2>2 DEF Typed
<1>9. CASE SeesGone(w)
  <2>1. TablesTyped'
    BY <1>9
    DEF Typed, TablesTyped, SeesGone
  <2>2. LocalsTyped'
    <3>1. pc[w] \in ExecPcs /\ Goto(w, "release") /\ UNCHANGED locals
      BY <1>9 DEF SeesGone, RunningPcs
    <3>. QED BY <3>1, WorkersAct DEF Typed, LocalsTyped, Decided
  <2>. QED BY <2>1, <2>2 DEF Typed
<1>10. CASE Finish(w)
  <2>1. TablesTyped'
    BY <1>10
    DEF Typed, TablesTyped, Finish
  <2>2. LocalsTyped'
    BY <1>10, WorkersAct
    DEF Typed, LocalsTyped, Decided, Finish, Terminal
  <2>. QED BY <2>1, <2>2 DEF Typed
<1>11. CASE Commit(w)
  <2>1. TablesTyped'
    BY <1>11, WorkersAct
    DEF Typed, TablesTyped, Commit, LocalsTyped, Decided, Statuses
  <2>2. LocalsTyped'
    BY <1>11, WorkersAct
    DEF Typed, LocalsTyped, Decided, Commit
  <2>. QED BY <2>1, <2>2 DEF Typed
<1>12. CASE Release(w)
  <2>1. TablesTyped'
    BY <1>12
    DEF Typed, TablesTyped, Release, ReleaseAgent
  <2>2. LocalsTyped'
    BY <1>12, WorkersAct
    DEF Typed, LocalsTyped, Decided, Release
  <2>. QED BY <2>1, <2>2 DEF Typed
<1>. QED
  BY <1>1, <1>2, <1>3, <1>4, <1>5, <1>6, <1>7, <1>8, <1>9, <1>10, <1>11, <1>12
  DEF Execute

(* Every step of a request in flight keeps the types.                       *)
LEMMA ServeTyped ==
  ASSUME Typed, NEW r \in Requests, Serve(r)
  PROVE  Typed'
<1>. DEFINE p == arg[r].pipeline
<1>. r \in Actors
  BY WorkersAct
<1>. /\ arg[r].rev \in Nat
     /\ arg[r].runs_on \in SUBSET Labels
     /\ job[r] \in Builds \cup {NoBuild}
     /\ held[r] \in Agents \cup {NoAgent}
  BY DEF Typed, LocalsTyped
<1>1. CASE FindPending(r)
  <2>1. TablesTyped'
    BY <1>1
    DEF Typed, TablesTyped, FindPending
  <2>2. CASE \E b \in PendingOf(p) :
               /\ job' = [job EXCEPT ![r] = b]
               /\ Goto(r, "coalesce")
               /\ UNCHANGED <<held, todo, outcome, arg>>
    <3>1. LocalsTyped'
      BY <2>2, WorkersAct DEF Typed, LocalsTyped, Decided, PendingOf, BuildsOf
    <3>. QED BY <2>1, <3>1 DEF Typed
  <2>3. CASE Goto(r, "insert") /\ UNCHANGED locals
    <3>1. LocalsTyped'
      BY <2>3, WorkersAct DEF Typed, LocalsTyped, Decided
    <3>. QED BY <2>1, <3>1 DEF Typed
  <2>4. CASE Done(r)
    BY <2>1, <2>4, DoneTyped DEF Typed
  <2>. QED BY <1>1, <2>2, <2>3, <2>4 DEF FindPending
<1>2. CASE Insert(r)
  <2>1. CASE Goto(r, "refind") /\ UNCHANGED <<buildRow, job>>
    <3>1. TablesTyped'
      BY <1>2, <2>1 DEF Typed, TablesTyped, Insert
    <3>2. LocalsTyped'
      BY <1>2, <2>1, WorkersAct DEF Typed, LocalsTyped, Decided, Insert
    <3>. QED BY <3>1, <3>2 DEF Typed
  <2>2. CASE ~(Goto(r, "refind") /\ UNCHANGED <<buildRow, job>>)
    <3>1. PICK b \in Oldest(Fresh) :
            /\ status'  = [status EXCEPT ![b] = "pending"]
            /\ pipe'    = [pipe EXCEPT ![b] = p]
            /\ rev'     = [rev EXCEPT ![b] = arg[r].rev]
            /\ runs_on' = [runs_on EXCEPT ![b] = arg[r].runs_on]
            /\ job'     = [job EXCEPT ![r] = b]
      BY <1>2, <2>2 DEF Insert
    <3>2. b \in Builds /\ p \in Pipelines /\ Goto(r, "enqueue")
      BY <1>2, <2>2 DEF Insert, Oldest, Fresh, Typed, TablesTyped
    <3>3. TablesTyped'
      BY <1>2, <3>1, <3>2 DEF Typed, TablesTyped, Insert, Statuses, Active
    <3>4. LocalsTyped'
      BY <1>2, <3>1, <3>2, WorkersAct DEF Typed, LocalsTyped, Decided, Insert
    <3>. QED BY <3>3, <3>4 DEF Typed
  <2>. QED BY <2>1, <2>2
<1>3. CASE Coalesce(r)
  <2>1. TablesTyped'
    BY <1>3
    DEF Typed, TablesTyped, Coalesce
  <2>2. Done(r)
    BY <1>3 DEF Coalesce
  <2>. QED BY <2>1, <2>2, WorkersAct, DoneTyped DEF Typed
<1>4. CASE Enqueue(r)
  <2>. Queued'
    BY <1>4, SendTyped DEF Typed, TablesTyped, Queued, Enqueue
  <2>1. TablesTyped'
    BY <1>4
    DEF Typed, TablesTyped, Enqueue, Queued
  <2>2. Done(r)
    BY <1>4 DEF Enqueue
  <2>. QED BY <2>1, <2>2, DoneTyped DEF Typed
<1>5. CASE CancelCommit(r)
  <2>1. TablesTyped'
    BY <1>5
    DEF Typed, TablesTyped, CancelCommit, Statuses, Terminal
  <2>2. Done(r)
    BY <1>5 DEF CancelCommit
  <2>. QED BY <2>1, <2>2, WorkersAct, DoneTyped DEF Typed
<1>6. CASE Purge(r)
  <2>1. TablesTyped'
    BY <1>6
    DEF Typed, TablesTyped, Purge, Statuses, Terminal
  <2>2. LocalsTyped'
    BY <1>6, WorkersAct
    DEF Typed, LocalsTyped, Decided, Purge
  <2>. QED BY <2>1, <2>2 DEF Typed
<1>7. CASE DropPipeline(r)
  <2>1. TablesTyped'
    BY <1>7
    DEF Typed, TablesTyped, DropPipeline, Statuses
  <2>2. Done(r)
    BY <1>7 DEF DropPipeline
  <2>. QED BY <2>1, <2>2, WorkersAct, DoneTyped DEF Typed
<1>8. CASE Kick(r)
  <2>1. TablesTyped'
    BY <1>8
    DEF Typed, TablesTyped, Kick
  <2>2. LocalsTyped'
    BY <1>8, WorkersAct
    DEF Typed, LocalsTyped, Decided, Kick
  <2>. QED BY <2>1, <2>2 DEF Typed
<1>9. CASE Unset(r)
  <2>1. TablesTyped'
    BY <1>9
    DEF Typed, TablesTyped, Unset
  <2>2. Done(r)
    BY <1>9 DEF Unset
  <2>. QED BY <2>1, <2>2, WorkersAct, DoneTyped DEF Typed
<1>. QED
  BY <1>1, <1>2, <1>3, <1>4, <1>5, <1>6, <1>7, <1>8, <1>9 DEF Serve

(* Every request that arrives keeps the types.                              *)
LEMMA ArriveTyped ==
  ASSUME Typed, NEW r \in Requests, Arrive(r)
  PROVE  Typed'
<1>. USE WorkersAct
<1>1. ASSUME NEW q \in [pipeline : Pipelines \cup {NoPipeline}, rev : Nat,
                         runs_on : SUBSET Labels],
             Goto(r, "find_pending"),
             arg' = [arg EXCEPT ![r] = q],
             UNCHANGED <<outside, job, held, todo, outcome>>
      PROVE  Typed'
  BY <1>1 DEF Typed, TablesTyped, LocalsTyped, Decided
<1>2. CASE Trigger(r)
  <2>1. PICK p \in live, v \in Revs : Ask(r, p, v, Asks[p])
    BY <1>2 DEF Trigger
  <2>2. [pipeline |-> p, rev |-> v, runs_on |-> Asks[p]]
          \in [pipeline : Pipelines \cup {NoPipeline}, rev : Nat,
               runs_on : SUBSET Labels]
    BY ConstantsAssumption DEF Typed, TablesTyped, Revs
  <2>. QED BY <1>1, <2>1, <2>2 DEF Ask
<1>3. CASE TriggerStep(r)
  <2>1. PICK p \in live, v \in Revs : Ask(r, p, v, {})
    BY <1>3 DEF TriggerStep
  <2>2. [pipeline |-> p, rev |-> v, runs_on |-> {}]
          \in [pipeline : Pipelines \cup {NoPipeline}, rev : Nat,
               runs_on : SUBSET Labels]
    BY ConstantsAssumption DEF Typed, TablesTyped, Revs
  <2>. QED BY <1>1, <2>1, <2>2 DEF Ask
<1>4. CASE Retry(r)
  <2>1. PICK b \in Builds : Ask(r, pipe[b], rev[b], runs_on[b])
    BY <1>4 DEF Retry
  <2>2. [pipeline |-> pipe[b], rev |-> rev[b], runs_on |-> runs_on[b]]
          \in [pipeline : Pipelines \cup {NoPipeline}, rev : Nat,
               runs_on : SUBSET Labels]
    BY DEF Typed, TablesTyped
  <2>. QED BY <1>1, <2>1, <2>2 DEF Ask
<1>5. ASSUME NEW b \in Builds, Cancel(r, b) PROVE Typed'
  BY <1>5 DEF Typed, TablesTyped, LocalsTyped, Decided, Cancel
<1>6. ASSUME NEW b \in Builds, Dispatch(r, b) PROVE Typed'
  BY <1>6 DEF Typed, TablesTyped, LocalsTyped, Decided, Dispatch
<1>7. ASSUME NEW p \in Deletable, DeletePipeline(r, p) PROVE Typed'
  BY <1>7 DEF Typed, TablesTyped, LocalsTyped, Decided, DeletePipeline, BuildsOf
<1>8. CASE MaintenanceOn(r)
  BY <1>8 DEF Typed, TablesTyped, LocalsTyped, Decided, MaintenanceOn
<1>9. CASE MaintenanceOff(r)
  BY <1>9 DEF Typed, TablesTyped, LocalsTyped, Decided, MaintenanceOff
<1>10. ASSUME NEW a \in Toggled, Enable(r, a) PROVE Typed'
  BY <1>10 DEF Typed, TablesTyped, LocalsTyped, Decided, Enable
<1>11. ASSUME NEW a \in Toggled, Disable(r, a) PROVE Typed'
  BY <1>11 DEF Typed, TablesTyped, LocalsTyped, Decided, Disable
<1>12. ASSUME NEW a \in Flaky, Connect(r, a) PROVE Typed'
  <2>1. TablesTyped'
    <3>1. sessions' \in [Agents -> Nat]
      BY <1>12, ConstantsAssumption DEF Typed, TablesTyped, Connect
    <3>. QED BY <1>12, <3>1 DEF Typed, TablesTyped, Connect
  <2>2. LocalsTyped'
    BY <1>12 DEF Typed, LocalsTyped, Decided, Connect
  <2>. QED BY <2>1, <2>2 DEF Typed
<1>. QED
  BY <1>2, <1>3, <1>4, <1>5, <1>6, <1>7, <1>8, <1>9, <1>10, <1>11, <1>12
  DEF Arrive

(* Tasks received, the beat, heartbeats and faults keep the types.          *)
LEMMA OthersTyped ==
  ASSUME Typed
  PROVE  /\ \A b \in Builds, a \in Agents \cup {NoAgent} :
              Receive(b, a) => Typed'
         /\ Beat => Typed'
         /\ \A a \in Flaky : Heartbeat(a) => Typed'
         /\ Fault => Typed'
<1>. USE WorkersAct
<1>1. ASSUME NEW b \in Builds, NEW a \in Agents \cup {NoAgent},
             NEW w \in Workers, Take(w, b, a)
      PROVE  Typed'
  <2>1. Queued'
    <3>1. queue[b] \in [Agents \cup {NoAgent} -> Nat] /\ queue[b][a] > 0
      BY <1>1 DEF Typed, TablesTyped, Take
    <3>2. [queue[b] EXCEPT ![a] = @ - 1] \in [Agents \cup {NoAgent} -> Nat]
      BY <3>1
    <3>. QED BY <1>1, <3>2 DEF Typed, TablesTyped, Queued, Take
  <2>. QED BY <1>1, <2>1
           DEF Typed, TablesTyped, LocalsTyped, Decided, Queued, Take
<1>2. ASSUME NEW w \in Workers, Reconcile(w) PROVE Typed'
  <2>1. TablesTyped'
    BY <1>2 DEF Typed, TablesTyped, Reconcile
  <2>2. LocalsTyped'
    BY <1>2 DEF Typed, LocalsTyped, Decided, Reconcile
  <2>. QED BY <2>1, <2>2 DEF Typed
<1>3. ASSUME NEW a \in Flaky, Heartbeat(a) PROVE Typed'
  BY <1>3 DEF Typed, TablesTyped, LocalsTyped, Decided, Heartbeat
<1>4. ASSUME NEW a \in Flaky, SessionEnds(a) PROVE Typed'
  <2>1. TablesTyped'
    <3>1. drops' \in Nat
      BY <1>4 DEF Typed, TablesTyped, SessionEnds
    <3>2. sessions' \in [Agents -> Nat]
      BY <1>4, ConstantsAssumption DEF Typed, TablesTyped, SessionEnds
    <3>. QED BY <1>4, <3>1, <3>2 DEF Typed, TablesTyped, SessionEnds
  <2>2. LocalsTyped'
    BY <1>4 DEF Typed, LocalsTyped, Decided, SessionEnds
  <2>. QED BY <2>1, <2>2 DEF Typed
<1>5. ASSUME NEW a \in Flaky, GoesStale(a) PROVE Typed'
  <2>1. TablesTyped'
    <3>1. drops' \in Nat
      BY <1>5 DEF Typed, TablesTyped, GoesStale
    <3>. QED BY <1>5, <3>1 DEF Typed, TablesTyped, GoesStale
  <2>2. LocalsTyped'
    BY <1>5 DEF Typed, LocalsTyped, Decided, GoesStale
  <2>. QED BY <2>1, <2>2 DEF Typed
<1>6. ASSUME NEW x \in Actors, Crash(x) PROVE Typed'
  <2>1. TablesTyped'
    <3>1. faults' \in Nat
      BY <1>6 DEF Typed, TablesTyped, Crash
    <3>. QED BY <1>6, <3>1 DEF Typed, TablesTyped, Crash
  <2>. QED BY <1>6, <2>1, DoneTyped DEF Typed, Crash
<1>7. ASSUME NEW x \in Actors, SendFails(x) PROVE Typed'
  <2>1. TablesTyped'
    <3>1. faults' \in Nat
      BY <1>7 DEF Typed, TablesTyped, SendFails
    <3>. QED BY <1>7, <3>1 DEF Typed, TablesTyped, SendFails, ReleaseAgent
  <2>2. todo[x] \ BuildsOf(pipe[job[x]]) \in SUBSET Builds
    BY DEF Typed, LocalsTyped
  <2>. QED BY <1>7, <2>1, <2>2, NextOfferTyped DEF Typed, SendFails
<1>8. ASSUME NEW w \in Workers, StepsRaise(w) PROVE Typed'
  <2>1. TablesTyped'
    <3>1. faults' \in Nat
      BY <1>8 DEF Typed, TablesTyped, StepsRaise
    <3>. QED BY <1>8, <3>1 DEF Typed, TablesTyped, StepsRaise
  <2>2. LocalsTyped'
    BY <1>8 DEF Typed, LocalsTyped, Decided, StepsRaise
  <2>. QED BY <2>1, <2>2 DEF Typed
<1>. QED
  BY <1>1, <1>2, <1>3, <1>4, <1>5, <1>6, <1>7, <1>8
  DEF Receive, Beat, Fault

(* The strengthened type invariant is inductive.                            *)
LEMMA TypedKept ==
  ASSUME Typed, [Next]_vars
  PROVE  Typed'
<1>1. CASE Next
  BY <1>1, PassTyped, ExecuteTyped, ServeTyped, ArriveTyped, OthersTyped DEF Next
<1>2. CASE UNCHANGED vars
  BY <1>2 DEF vars, Typed, TablesTyped, LocalsTyped, Decided
<1>. QED BY <1>1, <1>2

(* The strengthened type invariant holds in every reachable state: an       *)
(* executor always has a build, and decides on a final status before it     *)
(* writes one.                                                              *)
THEOREM TypedAlways == Spec => []Typed
<1>1. Init => Typed
  <2>. SUFFICES ASSUME Init PROVE TablesTyped /\ LocalsTyped
    BY DEF Typed
  <2>1. TablesTyped
    BY DEF Init, TablesTyped, Statuses, Active, Terminal
  <2>2. LocalsTyped
    <3>1. arg \in [Actors -> [pipeline : Pipelines \cup {NoPipeline}, rev : Nat,
                              runs_on : SUBSET Labels]]
      BY DEF Init
    <3>2. \A x \in Actors : pc[x] = "idle"
      BY DEF Init
    <3>. QED BY <3>1, <3>2, WorkersAct DEF Init, LocalsTyped, Decided
  <2>. QED BY <2>1, <2>2
<1>2. Typed /\ [Next]_vars => Typed'
  BY TypedKept
<1>. QED BY <1>1, <1>2, PTL DEF Spec

(* Every variable has its type in every reachable state; in particular no   *)
(* build ends without a final status (the commit at the end of              *)
(* _run_build_stages).                                                      *)
THEOREM TypeCorrect == Spec => []TypeOK
<1>1. Typed => TypeOK
  BY DEF Typed, TablesTyped, LocalsTyped, TypeOK
<1>. QED BY <1>1, TypedAlways, PTL

(* In a step of x every other process stays as it is. *)
OnlyMoves(x) ==
  \A y \in Actors \ {x} :
    /\ pc'[y] = pc[y] /\ job'[y] = job[y] /\ held'[y] = held[y]
    /\ todo'[y] = todo[y] /\ outcome'[y] = outcome[y] /\ arg'[y] = arg[y]

(* A process that is through leaves the others alone.                       *)
LEMMA DoneAlone ==
  ASSUME LocalsTyped, NEW x \in Actors, Done(x)
  PROVE  OnlyMoves(x)
BY DEF LocalsTyped, Done, OnlyMoves

(* So does one that goes on with its dispatch pass.                         *)
LEMMA NextOfferAlone ==
  ASSUME LocalsTyped, NEW x \in Actors, NEW rest, NextOffer(x, rest)
  PROVE  OnlyMoves(x)
BY DoneAlone DEF LocalsTyped, NextOffer, OnlyMoves

(* A step of a dispatch pass, or its end by a fault, is a step of one       *)
(* process.                                                                 *)
LEMMA PassAlone ==
  ASSUME LocalsTyped, NEW x \in Actors,
         Pass(x) \/ SendFails(x) \/ Crash(x)
  PROVE  OnlyMoves(x)
<1>1. CASE Scan(x)
  BY <1>1, DoneAlone DEF LocalsTyped, OnlyMoves, Scan
<1>2. CASE Offer(x)
  BY <1>2, NextOfferAlone DEF LocalsTyped, OnlyMoves, Offer
<1>3. CASE Reserve(x)
  BY <1>3, DoneAlone, NextOfferAlone DEF LocalsTyped, OnlyMoves, Reserve
<1>4. CASE SendTask(x) \/ SendFails(x) \/ Crash(x)
  BY <1>4, DoneAlone, NextOfferAlone DEF SendTask, SendFails, Crash
<1>. QED BY <1>1, <1>2, <1>3, <1>4 DEF Pass

(* A step of a worker is a step of one process.                             *)
LEMMA ExecuteAlone ==
  ASSUME LocalsTyped, NEW x \in Actors,
         Execute(x) \/ Reconcile(x) \/ StepsRaise(x)
  PROVE  OnlyMoves(x)
<1>1. CASE Bail(x) \/ Gate(x) \/ Claim(x) \/ Pick(x)
  BY <1>1, DoneAlone DEF Bail, Gate, Claim, Pick, LocalsTyped, OnlyMoves
<1>2. CASE ~(Bail(x) \/ Gate(x) \/ Claim(x) \/ Pick(x))
  BY <1>2 DEF Execute, DropAgent, Start, StepsEnd, SeesCancel, SeesGone, Finish,
              Commit, Release, Reconcile, StepsRaise, LocalsTyped, OnlyMoves
<1>. QED BY <1>1, <1>2

(* A step of a request in flight is a step of one process.                  *)
LEMMA ServeAlone ==
  ASSUME LocalsTyped, NEW x \in Actors, Serve(x)
  PROVE  OnlyMoves(x)
<1>1. CASE FindPending(x)
  BY <1>1, DoneAlone DEF FindPending, LocalsTyped, OnlyMoves
<1>2. CASE Insert(x)
  BY <1>2 DEF Insert, LocalsTyped, OnlyMoves
<1>3. CASE ~FindPending(x) /\ ~Insert(x)
  BY <1>3, DoneAlone
  DEF Serve, Coalesce, Enqueue, CancelCommit, Purge, DropPipeline, Kick, Unset,
      LocalsTyped, OnlyMoves
<1>. QED BY <1>1, <1>2, <1>3

(* A request or a task that arrives occupies one process.                   *)
LEMMA ArriveAlone ==
  ASSUME LocalsTyped, NEW x \in Actors,
         \/ Arrive(x)
         \/ \E b \in Builds, a \in Agents \cup {NoAgent} : Take(x, b, a)
  PROVE  OnlyMoves(x)
BY DEF Arrive, Trigger, TriggerStep, Retry, Ask, Cancel, Dispatch,
       DeletePipeline, MaintenanceOn, MaintenanceOff, Enable, Disable, Connect,
       Take, LocalsTyped, OnlyMoves

(* In a step either no process moves, or exactly one does.                  *)
LEMMA OneMoves ==
  ASSUME LocalsTyped, [Next]_vars
  PROVE  \/ UNCHANGED <<pc, locals>>
         \/ \E x \in Actors :
              OnlyMoves(x) /\ (Pass(x) \/ SendFails(x) \/ Crash(x))
         \/ \E x \in Workers :
              /\ OnlyMoves(x)
              /\ \/ Execute(x) \/ Reconcile(x) \/ StepsRaise(x)
                 \/ \E b \in Builds, a \in Agents \cup {NoAgent} : Take(x, b, a)
         \/ \E x \in Requests : OnlyMoves(x) /\ (Serve(x) \/ Arrive(x))
<1>. USE WorkersAct
<1>1. CASE \E x \in Actors : Pass(x) \/ SendFails(x) \/ Crash(x)
  BY <1>1, PassAlone
<1>2. CASE \E x \in Workers : Execute(x) \/ Reconcile(x) \/ StepsRaise(x)
  BY <1>2, ExecuteAlone
<1>3. CASE \E b \in Builds, a \in Agents \cup {NoAgent} : Receive(b, a)
  BY <1>3, ArriveAlone DEF Receive
<1>4. CASE \E x \in Requests : Serve(x) \/ Arrive(x)
  BY <1>4, ServeAlone, ArriveAlone
<1>5. CASE \/ \E a \in Flaky : Heartbeat(a) \/ SessionEnds(a) \/ GoesStale(a)
           \/ UNCHANGED vars
  BY <1>5 DEF Heartbeat, SessionEnds, GoesStale, vars
<1>. QED BY <1>1, <1>2, <1>3, <1>4, <1>5 DEF Next, Beat, Fault

(* The queue changes by a task sent or a task received.                     *)
LEMMA QueueSteps ==
  ASSUME [Next]_vars
  PROVE  \/ UNCHANGED queue
         \/ \E x \in Actors : SendTask(x) \/ Enqueue(x)
         \/ \E b \in Builds, a \in Agents \cup {NoAgent}, w \in Workers :
              Take(w, b, a)
<1>1. CASE \E x \in Actors : Pass(x)
  BY <1>1 DEF Pass, Scan, Offer, Reserve
<1>2. CASE \E w \in Workers : Execute(w)
  BY <1>2 DEF Execute, Gate, Bail, DropAgent, Pick, Claim, Start, StepsEnd,
              SeesCancel, SeesGone, Finish, Commit, Release
<1>3. CASE \E r \in Requests : Serve(r)
  BY <1>3, WorkersAct DEF Serve, FindPending, Insert, Coalesce, CancelCommit,
                          Purge, DropPipeline, Kick, Unset
<1>4. CASE \E r \in Requests : Arrive(r)
  BY <1>4 DEF Arrive, Trigger, TriggerStep, Retry, Ask, Cancel, Dispatch,
              DeletePipeline, MaintenanceOn, MaintenanceOff, Enable, Disable,
              Connect
<1>5. CASE \E b \in Builds, a \in Agents \cup {NoAgent} : Receive(b, a)
  BY <1>5 DEF Receive
<1>6. CASE Beat \/ (\E a \in Flaky : Heartbeat(a)) \/ Fault \/ UNCHANGED vars
  BY <1>6 DEF Beat, Reconcile, Heartbeat, Fault, SessionEnds, GoesStale, Crash,
              SendFails, StepsRaise, vars
<1>. QED BY <1>1, <1>2, <1>3, <1>4, <1>5, <1>6 DEF Next

-----------------------------------------------------------------------------
USE DEF buildRow, agentLink, tables, locals, outside, Goto, NoBuild, NoArg

(***************************************************************************)
(* What the builds table can become in one step.                           *)
(***************************************************************************)
Exists(b) == status[b] # "absent"

(* create_or_coalesce_build inserts b.                                      *)
Created(b, p) ==
  /\ status[b] = "absent" /\ PendingOf(p) = {}
  /\ status' = [status EXCEPT ![b] = "pending"]
  /\ pipe' = [pipe EXCEPT ![b] = p]

(* try_start_build starts b.                                                *)
Started(b) ==
  /\ status[b] = "pending" /\ ~SiblingRuns(b)
  /\ status' = [status EXCEPT ![b] = "running"]
  /\ UNCHANGED pipe

(* The builds of S end, are cancelled or are deleted.                       *)
Ended(S) ==
  /\ \A b \in S : Exists(b) /\ status'[b] \in Terminal \cup {"gone"}
  /\ \A b \in Builds \ S : status'[b] = status[b]
  /\ UNCHANGED pipe

RowStep ==
  \/ UNCHANGED <<status, pipe>>
  \/ \E b \in Builds, p \in Pipelines : Created(b, p)
  \/ \E b \in Builds : Started(b)
  \/ \E S \in SUBSET Builds : Ended(S)

(* Processes and tasks only ever speak of builds that were created, and     *)
(* only a pipeline that exists is deleted.                                  *)
PipesKnown == \A b \in Builds : Exists(b) <=> pipe[b] # NoPipeline

(* A task in the queue is for a build that exists.                          *)
TasksKnown ==
  \A b \in Builds, a \in Agents \cup {NoAgent} : queue[b][a] > 0 => Exists(b)

(* What process x speaks of exists.                                         *)
KnownBy(x) ==
  /\ job[x] \in Builds => Exists(job[x])
  /\ \A b \in todo[x] : Exists(b)
  /\ pc[x] \in {"purge", "delete"} => arg[x].pipeline \in Pipelines

Known == PipesKnown /\ TasksKnown /\ \A x \in Actors : KnownBy(x)

(* execute_build changes the builds table in one of these ways only.        *)
LEMMA ExecuteRowStep ==
  ASSUME Typed, Known, NEW w \in Workers, Execute(w)
  PROVE  RowStep
<1>. USE WorkersAct
<1>1. CASE Start(w)
  <2>1. CASE status[job[w]] = "pending" /\ ~SiblingRuns(job[w])
    <3>1. CASE job[w] \in Builds
      <4>1. Started(job[w])
        BY <1>1, <2>1 DEF Start, Started
      <4>. QED BY <3>1, <4>1 DEF RowStep
    <3>2. CASE job[w] \notin Builds
      BY <1>1, <3>2 DEF Start, Typed, TablesTyped, RowStep
    <3>. QED BY <3>1, <3>2
  <2>2. CASE ~(status[job[w]] = "pending" /\ ~SiblingRuns(job[w]))
    BY <1>1, <2>2 DEF Start, Typed, TablesTyped, RowStep
  <2>. QED BY <2>1, <2>2
<1>2. CASE Commit(w)
  <2>1. outcome[w] \in Terminal
    BY <1>2 DEF Typed, LocalsTyped, Decided, Commit
  <2>2. Ended({job[w]} \cap Builds)
    BY <1>2, <2>1 DEF Ended, Commit, Known, KnownBy, Typed, TablesTyped
  <2>. QED BY <2>2 DEF RowStep
<1>3. CASE ~Start(w) /\ ~Commit(w)
  <2>1. UNCHANGED <<status, pipe>>
    BY <1>3 DEF Execute, Gate, Bail, DropAgent, Pick, Claim, StepsEnd, SeesCancel,
                SeesGone, Finish, Release
  <2>. QED BY <2>1 DEF RowStep
<1>. QED BY <1>1, <1>2, <1>3

(* So do the requests.                                                      *)
LEMMA ServeRowStep ==
  ASSUME Typed, Known, NEW r \in Requests, Serve(r)
  PROVE  RowStep
<1>. USE WorkersAct
<1>1. CASE Insert(r)
  <2>1. CASE UNCHANGED <<buildRow, job>>
    BY <2>1 DEF RowStep
  <2>2. CASE ~UNCHANGED <<buildRow, job>>
    <3>. DEFINE p == arg[r].pipeline
    <3>1. PICK b \in Oldest(Fresh) :
            /\ status' = [status EXCEPT ![b] = "pending"]
            /\ pipe'   = [pipe EXCEPT ![b] = p]
      BY <1>1, <2>2 DEF Insert
    <3>2. p \in Pipelines /\ PendingOf(p) = {}
      BY <1>1, <2>2 DEF Insert, Typed, TablesTyped
    <3>3. b \in Builds /\ status[b] = "absent"
      BY DEF Oldest, Fresh
    <3>4. Created(b, p)
      BY <3>1, <3>2, <3>3 DEF Created
    <3>. QED BY <3>2, <3>3, <3>4 DEF RowStep
  <2>. QED BY <2>1, <2>2
<1>2. CASE CancelCommit(r)
  <2>1. Ended({job[r]} \cap Builds)
    BY <1>2 DEF Ended, CancelCommit, Known, KnownBy, Typed, TablesTyped, Terminal
  <2>. QED BY <2>1 DEF RowStep
<1>3. CASE Purge(r)
  <2>1. todo[r] \in SUBSET Builds
    BY DEF Typed, LocalsTyped
  <2>2. Ended({b \in todo[r] : status[b] # "gone"})
    BY <1>3, <2>1 DEF Ended, Purge, Known, KnownBy, Terminal
  <2>3. {b \in todo[r] : status[b] # "gone"} \in SUBSET Builds
    BY <2>1
  <2>. QED BY <2>2, <2>3 DEF RowStep
<1>4. CASE DropPipeline(r)
  <2>1. Ended(BuildsOf(arg[r].pipeline))
    <3>1. arg[r].pipeline \in Pipelines
      BY <1>4 DEF DropPipeline, Known, KnownBy
    <3>2. \A b \in BuildsOf(arg[r].pipeline) : b \in Builds /\ Exists(b)
      BY <3>1, ConstantsAssumption DEF BuildsOf, Known, PipesKnown
    <3>. QED BY <1>4, <3>2 DEF Ended, DropPipeline
  <2>2. BuildsOf(arg[r].pipeline) \in SUBSET Builds
    BY DEF BuildsOf
  <2>. QED BY <2>1, <2>2 DEF RowStep
<1>5. CASE \/ FindPending(r) \/ Coalesce(r) \/ Enqueue(r) \/ Kick(r) \/ Unset(r)
  <2>1. UNCHANGED <<status, pipe>>
    BY <1>5 DEF FindPending, Coalesce, Enqueue, Kick, Unset
  <2>. QED BY <2>1 DEF RowStep
<1>. QED BY <1>1, <1>2, <1>3, <1>4, <1>5 DEF Serve

(* So does every step of the system.                                        *)
LEMMA RowSteps ==
  ASSUME Typed, Known, [Next]_vars
  PROVE  RowStep
<1>1. CASE \E x \in Actors : Pass(x)
  <2>1. UNCHANGED <<status, pipe>>
    BY <1>1 DEF Pass, Scan, Offer, Reserve, SendTask
  <2>. QED BY <2>1 DEF RowStep
<1>2. CASE \E w \in Workers : Execute(w)
  BY <1>2, ExecuteRowStep
<1>3. CASE \E r \in Requests : Serve(r)
  BY <1>3, ServeRowStep
<1>4. CASE \E r \in Requests : Arrive(r)
  <2>1. UNCHANGED <<status, pipe>>
    BY <1>4 DEF Arrive, Trigger, TriggerStep, Retry, Ask, Cancel, Dispatch,
                DeletePipeline, MaintenanceOn, MaintenanceOff, Enable, Disable,
                Connect
  <2>. QED BY <2>1 DEF RowStep
<1>5. CASE \/ \E b \in Builds, a \in Agents \cup {NoAgent} : Receive(b, a)
           \/ Beat
           \/ \E a \in Flaky : Heartbeat(a)
           \/ Fault
  <2>1. UNCHANGED <<status, pipe>>
    BY <1>5 DEF Receive, Take, Beat, Reconcile, Heartbeat, Fault, SessionEnds,
                GoesStale, Crash, SendFails, StepsRaise
  <2>. QED BY <2>1 DEF RowStep
<1>6. CASE UNCHANGED vars
  <2>1. UNCHANGED <<status, pipe>>
    BY <1>6 DEF vars
  <2>. QED BY <2>1 DEF RowStep
<1>. QED BY <1>1, <1>2, <1>3, <1>4, <1>5, <1>6 DEF Next

(* A build that exists never ceases to, and knows its pipeline.             *)
LEMMA ExistenceKept ==
  ASSUME Typed, PipesKnown, RowStep
  PROVE  PipesKnown' /\ \A b \in Builds : Exists(b) => Exists(b)'
<1>1. CASE UNCHANGED <<status, pipe>>
  BY <1>1 DEF PipesKnown, Exists
<1>2. ASSUME NEW b \in Builds, NEW p \in Pipelines, Created(b, p)
      PROVE  PipesKnown' /\ \A c \in Builds : Exists(c) => Exists(c)'
  BY <1>2, ConstantsAssumption
  DEF PipesKnown, Exists, Created, Typed, TablesTyped
<1>3. ASSUME NEW b \in Builds, Started(b)
      PROVE  PipesKnown' /\ \A c \in Builds : Exists(c) => Exists(c)'
  BY <1>3 DEF PipesKnown, Exists, Started, Typed, TablesTyped
<1>4. ASSUME NEW S \in SUBSET Builds, Ended(S)
      PROVE  PipesKnown' /\ \A c \in Builds : Exists(c) => Exists(c)'
  BY <1>4 DEF PipesKnown, Exists, Ended, Terminal
<1>. QED BY <1>1, <1>2, <1>3, <1>4 DEF RowStep

(* None is not a build.                                                     *)
LEMMA NoBuildIsNone == NoBuild \notin Builds
BY DEF Builds

(* A step of x keeps what is known if it keeps it of x.                      *)
LEMMA KnownStep ==
  ASSUME Typed, Known, NEW x \in Actors, OnlyMoves(x),
         \A b \in Builds : Exists(b) => Exists(b)',
         KnownBy(x)'
  PROVE  \A y \in Actors : KnownBy(y)'
<1>. SUFFICES ASSUME NEW y \in Actors, y # x PROVE KnownBy(y)'
  OBVIOUS
<1>1. /\ job'[y] = job[y] /\ todo'[y] = todo[y]
      /\ pc'[y] = pc[y] /\ arg'[y] = arg[y]
  BY DEF OnlyMoves
<1>2. KnownBy(y) /\ todo[y] \in SUBSET Builds
  BY DEF Known, Typed, LocalsTyped
<1>. QED BY <1>1, <1>2 DEF KnownBy, Exists

(* A process that is through speaks of no build.                            *)
LEMMA DoneKnown ==
  ASSUME LocalsTyped, NEW x \in Actors, Done(x)
  PROVE  KnownBy(x)'
BY NoBuildIsNone DEF LocalsTyped, Done, KnownBy

(* A dispatch pass goes on with builds that it has read.                    *)
LEMMA NextOfferKnown ==
  ASSUME Typed, Known, NEW x \in Actors, NEW rest \in SUBSET todo[x],
         NextOffer(x, rest), UNCHANGED status
  PROVE  KnownBy(x)'
<1>1. CASE rest = {}
  BY <1>1, DoneKnown DEF Typed, NextOffer
<1>2. CASE rest # {}
  <2>1. /\ job'[x] = NoBuild /\ pc'[x] = "offer" /\ todo'[x] = rest
    BY <1>2 DEF Typed, LocalsTyped, NextOffer
  <2>. QED BY <2>1, NoBuildIsNone DEF Known, KnownBy, Exists
<1>. QED BY <1>1, <1>2

(* A step of a dispatch pass speaks of builds that exist.                   *)
LEMMA PassKnown ==
  ASSUME Typed, Known, NEW x \in Actors,
         Pass(x) \/ SendFails(x) \/ Crash(x)
  PROVE  KnownBy(x)'
<1>. USE DEF Typed, LocalsTyped
<1>1. CASE Scan(x)
  <2>1. CASE Done(x)
    BY <2>1, DoneKnown
  <2>2. CASE ~Done(x)
    <3>1. /\ job'[x] = NoBuild /\ pc'[x] = "offer"
          /\ todo'[x] = Dispatchable /\ UNCHANGED status
      BY <1>1, <2>2 DEF Scan
    <3>2. \A b \in Dispatchable : Exists(b)
      BY DEF Dispatchable, Exists
    <3>. QED BY <3>1, <3>2, NoBuildIsNone DEF KnownBy, Exists
  <2>. QED BY <2>1, <2>2
<1>2. CASE Offer(x)
  <2>1. PICK b \in Oldest(todo[x]) : Offer(x)!2!(b)
    BY <1>2 DEF Offer
  <2>2. b \in todo[x] /\ b \in Builds /\ Exists(b)
    BY DEF Oldest, Known, KnownBy
  <2>3. CASE NextOffer(x, todo[x] \ {b})
    BY <1>2, <2>3, NextOfferKnown DEF Offer
  <2>4. CASE ~NextOffer(x, todo[x] \ {b})
    BY <1>2, <2>1, <2>2, <2>4 DEF Offer, Known, KnownBy, Exists
  <2>. QED BY <2>3, <2>4
<1>3. CASE Reserve(x)
  <2>1. CASE Done(x) \/ NextOffer(x, todo[x] \ {job[x]})
    BY <1>3, <2>1, DoneKnown, NextOfferKnown DEF Reserve
  <2>2. CASE Goto(x, "send") /\ UNCHANGED locals
    BY <1>3, <2>2 DEF Reserve, Known, KnownBy, Exists
  <2>. QED BY <1>3, <2>1, <2>2 DEF Reserve
<1>4. CASE SendTask(x) \/ SendFails(x)
  BY <1>4, NextOfferKnown DEF SendTask, SendFails
<1>5. CASE Crash(x)
  BY <1>5, DoneKnown DEF Crash
<1>. QED BY <1>1, <1>2, <1>3, <1>4, <1>5 DEF Pass

(* So does a step of execute_build.                                         *)
LEMMA ExecuteKnown ==
  ASSUME Typed, Known, NEW x \in Actors,
         Execute(x) \/ Reconcile(x) \/ StepsRaise(x),
         \A b \in Builds : Exists(b) => Exists(b)'
  PROVE  KnownBy(x)'
<1>1. CASE Done(x)
  BY <1>1, DoneKnown DEF Typed
<1>2. CASE ~Done(x)
  <2>1. /\ job'[x] \in {job[x], NoBuild} /\ todo'[x] = todo[x]
        /\ pc'[x] \notin {"purge", "delete"}
    BY <1>2 DEF Typed, LocalsTyped, Execute, Gate, Bail, DropAgent, Pick, Claim,
                Start, StepsEnd, SeesCancel, SeesGone, Finish, Commit, Release,
                Reconcile, StepsRaise
  <2>2. KnownBy(x) /\ todo[x] \in SUBSET Builds
    BY DEF Known, Typed, LocalsTyped
  <2>. QED BY <2>1, <2>2, NoBuildIsNone DEF KnownBy, Exists
<1>. QED BY <1>1, <1>2

(* So does a step of a request in flight.                                   *)
LEMMA ServeKnown ==
  ASSUME Typed, Known, NEW x \in Actors, Serve(x),
         \A b \in Builds : Exists(b) => Exists(b)'
  PROVE  KnownBy(x)'
<1>. USE DEF Typed, LocalsTyped
<1>1. CASE Done(x)
  BY <1>1, DoneKnown
<1>2. CASE FindPending(x) /\ ~Done(x)
  BY <1>2 DEF FindPending, PendingOf, BuildsOf, Known, KnownBy, Exists
<1>3. CASE Insert(x)
  <2>1. CASE job'[x] = job[x]
    BY <1>3, <2>1 DEF Insert, Known, KnownBy
  <2>2. CASE job'[x] # job[x]
    <3>1. PICK b \in Oldest(Fresh) :
            /\ status' = [status EXCEPT ![b] = "pending"]
            /\ job'    = [job EXCEPT ![x] = b]
      BY <1>3, <2>2 DEF Insert
    <3>2. b \in Builds
      BY DEF Oldest, Fresh
    <3>. QED BY <1>3, <3>1, <3>2
             DEF Insert, Known, KnownBy, Exists, TablesTyped
  <2>. QED BY <2>1, <2>2
<1>4. CASE Purge(x)
  BY <1>4 DEF Purge, Known, KnownBy
<1>5. CASE Kick(x)
  BY <1>5 DEF Kick, Known, KnownBy
<1>6. CASE \/ Coalesce(x) \/ Enqueue(x) \/ CancelCommit(x) \/ DropPipeline(x)
           \/ Unset(x)
  BY <1>6, <1>1 DEF Coalesce, Enqueue, CancelCommit, DropPipeline, Unset
<1>. QED BY <1>1, <1>2, <1>3, <1>4, <1>5, <1>6 DEF Serve

(* So does a process that starts on a request or a task.                    *)
LEMMA ArriveKnown ==
  ASSUME Typed, Known, NEW x \in Actors,
         \/ Arrive(x)
         \/ \E b \in Builds, a \in Agents \cup {NoAgent} : Take(x, b, a)
  PROVE  KnownBy(x)'
<1>. USE DEF Typed, LocalsTyped, Known, KnownBy, Exists
<1>1. CASE \E b \in Builds, a \in Agents \cup {NoAgent} : Take(x, b, a)
  BY <1>1 DEF Take, TasksKnown
<1>2. CASE Trigger(x) \/ TriggerStep(x) \/ Retry(x)
  BY <1>2 DEF Trigger, TriggerStep, Retry, Ask
<1>3. CASE \E b \in Builds : Cancel(x, b) \/ Dispatch(x, b)
  BY <1>3 DEF Cancel, Dispatch, Active
<1>4. CASE \E p \in Deletable : DeletePipeline(x, p)
  BY <1>4, ConstantsAssumption DEF DeletePipeline, Active, BuildsOf
<1>5. CASE MaintenanceOn(x) \/ MaintenanceOff(x)
  BY <1>5 DEF MaintenanceOn, MaintenanceOff
<1>6. CASE \/ \E a \in Toggled : Enable(x, a) \/ Disable(x, a)
           \/ \E a \in Flaky : Connect(x, a)
  BY <1>6 DEF Enable, Disable, Connect
<1>. QED BY <1>1, <1>2, <1>3, <1>4, <1>5, <1>6 DEF Arrive

(* A task is only ever sent for a build that exists.                        *)
LEMMA SendKnown ==
  ASSUME Typed, Known, NEW x \in Actors, NEW d \in Agents \cup {NoAgent},
         Send(job[x], d)
  PROVE  \A b \in Builds, a \in Agents \cup {NoAgent} :
           queue'[b][a] > 0 => Exists(b)
<1>. SUFFICES ASSUME NEW b \in Builds, NEW a \in Agents \cup {NoAgent},
                     queue'[b][a] > 0
              PROVE  Exists(b)
  OBVIOUS
<1>1. CASE b = job[x]
  BY <1>1 DEF Known, KnownBy
<1>2. CASE b # job[x]
  <2>1. queue'[b] = queue[b]
    BY <1>2 DEF Send, Typed, TablesTyped
  <2>. QED BY <2>1 DEF Known, TasksKnown
<1>. QED BY <1>1, <1>2

(* No step leaves a task for a build that was never created.                *)
LEMMA TasksStep ==
  ASSUME Typed, Known, [Next]_vars,
         \A b \in Builds : Exists(b) => Exists(b)'
  PROVE  TasksKnown'
<1>1. SUFFICES \A b \in Builds, a \in Agents \cup {NoAgent} :
                 queue'[b][a] > 0 => Exists(b)
  BY DEF TasksKnown
<1>2. CASE UNCHANGED queue
  BY <1>2 DEF Known, TasksKnown
<1>3. ASSUME NEW x \in Actors, SendTask(x) \/ Enqueue(x)
      PROVE  \A b \in Builds, a \in Agents \cup {NoAgent} :
               queue'[b][a] > 0 => Exists(b)
  BY <1>3, SendKnown DEF SendTask, Enqueue, Typed, LocalsTyped
<1>4. ASSUME NEW b \in Builds, NEW a \in Agents \cup {NoAgent},
             NEW w \in Workers, Take(w, b, a)
      PROVE  \A c \in Builds, d \in Agents \cup {NoAgent} :
               queue'[c][d] > 0 => Exists(c)
  <2>1. /\ queue[b] \in [Agents \cup {NoAgent} -> Nat] /\ queue[b][a] > 0
        /\ queue' = [queue EXCEPT ![b] = [queue[b] EXCEPT ![a] = @ - 1]]
    BY <1>4 DEF Take, Typed, TablesTyped
  <2>. SUFFICES ASSUME NEW c \in Builds, NEW d \in Agents \cup {NoAgent},
                       queue'[c][d] > 0
                PROVE  Exists(c)
    OBVIOUS
  <2>2. CASE c = b
    BY <2>1, <2>2 DEF Known, TasksKnown
  <2>3. CASE c # b
    BY <2>1, <2>3 DEF Known, TasksKnown, Typed, TablesTyped
  <2>. QED BY <2>2, <2>3
<1>. QED BY <1>1, <1>2, <1>3, <1>4, QueueSteps

(* At every step either the processes stay as they are, or one of them moves. *)
LEMMA KnownKept ==
  ASSUME Typed, Known, [Next]_vars
  PROVE  Known'
<1>. USE WorkersAct
<1>1. PipesKnown' /\ \A b \in Builds : Exists(b) => Exists(b)'
  BY RowSteps, ExistenceKept DEF Known
<1>2. TasksKnown'
  BY <1>1, TasksStep
<1>3. ASSUME NEW x \in Actors, OnlyMoves(x), KnownBy(x)'
      PROVE  \A y \in Actors : KnownBy(y)'
  BY <1>1, <1>3, KnownStep
<1>4. ASSUME UNCHANGED <<pc, locals>> PROVE \A y \in Actors : KnownBy(y)'
  BY <1>1, <1>4 DEF Known, KnownBy, Exists, Typed, LocalsTyped
<1>5. CASE \E x \in Actors : Pass(x) \/ SendFails(x) \/ Crash(x)
  BY <1>3, <1>5, <1>1, <1>2, PassKnown, PassAlone DEF Known, Typed
<1>6. CASE \E x \in Workers : Execute(x) \/ Reconcile(x) \/ StepsRaise(x)
  BY <1>3, <1>6, <1>1, <1>2, ExecuteKnown, ExecuteAlone DEF Known, Typed
<1>7. CASE \E x \in Requests : Serve(x)
  BY <1>3, <1>7, <1>1, <1>2, ServeKnown, ServeAlone DEF Known, Typed
<1>8. CASE \/ \E x \in Requests : Arrive(x)
           \/ \E b \in Builds, a \in Agents \cup {NoAgent} : Receive(b, a)
  BY <1>3, <1>8, <1>1, <1>2, ArriveKnown, ArriveAlone DEF Known, Typed, Receive
<1>9. CASE \/ \E a \in Flaky : Heartbeat(a) \/ SessionEnds(a) \/ GoesStale(a)
           \/ UNCHANGED vars
  BY <1>4, <1>9, <1>1, <1>2 DEF Known, Heartbeat, SessionEnds, GoesStale, vars
<1>. QED BY <1>5, <1>6, <1>7, <1>8, <1>9 DEF Next, Beat, Fault

(* Whatever is queued, held in a local variable or about to be written      *)
(* speaks of a build that was created; a late write (cancel, coalesce,      *)
(* delete) can never bring a row into being.                                *)
THEOREM KnownAlways == Spec => [](Typed /\ Known)
<1>1. Init => Known
  BY ConstantsAssumption, NoBuildIsNone
  DEF Init, Known, KnownBy, PipesKnown, TasksKnown, Exists
<1>2. Typed /\ Known /\ [Next]_vars => Known'
  BY KnownKept
<1>. QED BY <1>1, <1>2, TypedAlways, PTL DEF Spec

(* No change of the builds table gives a pipeline a second pending or a     *)
(* second running build.                                                    *)
LEMMA SingleRunKept ==
  ASSUME Typed, SingleRun, RowStep
  PROVE  SingleRun'
<1>1. CASE UNCHANGED <<status, pipe>>
  BY <1>1 DEF SingleRun
<1>2. ASSUME NEW b \in Builds, NEW p \in Pipelines, Created(b, p)
      PROVE  SingleRun'
  BY <1>2 DEF SingleRun, Created, PendingOf, BuildsOf, Active, Typed, TablesTyped
<1>3. ASSUME NEW b \in Builds, Started(b)
      PROVE  SingleRun'
  BY <1>3
  DEF SingleRun, Started, SiblingRuns, BuildsOf, Active, Typed, TablesTyped
<1>4. ASSUME NEW S \in SUBSET Builds, Ended(S)
      PROVE  SingleRun'
  BY <1>4 DEF SingleRun, Ended, Active, Terminal
<1>. QED BY <1>1, <1>2, <1>3, <1>4 DEF RowStep

(* A pipeline never has two running builds, nor two pending ones, for any   *)
(* number of triggers, retries, workers and dispatch passes (the two        *)
(* partial unique indexes, create_or_coalesce_build and try_start_build     *)
(* together).                                                               *)
THEOREM SingleRunAlways == Spec => []SingleRun
<1>1. Init => SingleRun
  BY DEF Init, SingleRun, Active
<1>2. Typed /\ Known /\ SingleRun /\ [Next]_vars => SingleRun'
  BY RowSteps, SingleRunKept
<1>. QED BY <1>1, <1>2, KnownAlways, PTL DEF Spec

(* Every change of the builds table is a step of PipelineSlots, or none.    *)
LEMMA SlotsStep ==
  ASSUME Typed, RowStep
  PROVE  Slots!Next \/ UNCHANGED <<Phase, pipe>>
<1>1. CASE UNCHANGED <<status, pipe>>
  BY <1>1 DEF Phase
<1>2. ASSUME NEW b \in Builds, NEW p \in Pipelines, Created(b, p)
      PROVE  Slots!Request(b, p)
  <2>1. Phase[b] = "new" /\ Slots!Free(p, "waiting")
    BY <1>2
    DEF Created, Phase, Slots!Free, PendingOf, BuildsOf, Typed, TablesTyped,
        Statuses, Active, Terminal
  <2>2. Phase' = [Phase EXCEPT ![b] = "waiting"]
    BY <1>2 DEF Created, Phase, Typed, TablesTyped
  <2>. QED BY <1>2, <2>1, <2>2 DEF Created, Slots!Request
<1>3. ASSUME NEW b \in Builds, Started(b)
      PROVE  Slots!Start(b)
  <2>1. Phase[b] = "waiting"
    BY <1>3 DEF Started, Phase
  <2>2. Slots!Free(pipe[b], "running")
    BY <1>3
    DEF Started, Phase, Slots!Free, SiblingRuns, BuildsOf, Typed, TablesTyped,
        Statuses, Active, Terminal
  <2>3. Phase' = [Phase EXCEPT ![b] = "running"]
    BY <1>3 DEF Started, Phase, Typed, TablesTyped
  <2>. QED BY <1>3, <2>1, <2>2, <2>3 DEF Started, Slots!Start
<1>4. ASSUME NEW S \in SUBSET Builds, Ended(S)
      PROVE  \E T \in SUBSET Builds : Slots!End(T)
  <2>. DEFINE T == {b \in S : status[b] \in Active}
  <2>1. \A b \in T : Phase[b] \in {"waiting", "running"}
    BY DEF Phase, Active
  <2>2. Phase' = [b \in Builds |-> IF b \in T THEN "over" ELSE Phase[b]]
    <3>1. \A b \in Builds : Phase'[b] = IF b \in T THEN "over" ELSE Phase[b]
      BY <1>4
      DEF Ended, Exists, Phase, Active, Terminal, Typed, TablesTyped, Statuses
    <3>. QED BY <3>1 DEF Phase
  <2>. QED BY <1>4, <2>1, <2>2 DEF Ended, Slots!End
<1>. QED BY <1>1, <1>2, <1>3, <1>4 DEF RowStep, Slots!Next

(* The build queue implements PipelineSlots: a pipeline has one slot for a  *)
(* waiting and one for a running build, a build goes through them in this   *)
(* order, and a build that is over (finished, cancelled, deleted) never     *)
(* comes back.                                                              *)
THEOREM ImplementsSlots == Spec => SlotsSpec
<1>1. Init => Slots!Init
  BY DEF Init, Slots!Init, Phase
<1>2. Typed /\ Known /\ [Next]_vars => [Slots!Next]_<<Phase, pipe>>
  BY RowSteps, SlotsStep
<1>. QED BY <1>1, <1>2, KnownAlways, PTL DEF Spec, SlotsSpec, Slots!Spec

(* While a worker runs a build, the build has left the queue for good.       *)
Begun ==
  \A w \in Workers :
    pc[w] \in RunningPcs =>
      job[w] \in Builds /\ status[job[w]] \notin {"absent", "pending"}

(* A build that left the queue never returns to it.                         *)
LEMMA BegunStays ==
  ASSUME Typed, RowStep, NEW b \in Builds, status[b] \notin {"absent", "pending"}
  PROVE  status'[b] \notin {"absent", "pending"}
BY DEF RowStep, Created, Started, Ended, Terminal, Typed, TablesTyped

(* A worker that executes a build either started it or executed it before.  *)
LEMMA WhoRuns ==
  ASSUME Typed, [Next]_vars, NEW w \in Workers, pc'[w] \in RunningPcs
  PROVE  /\ job'[w] = job[w]
         /\ \/ pc[w] \in RunningPcs
            \/ Start(w) /\ pc'[w] = "steps"
<1>. USE WorkersAct DEF Typed, LocalsTyped, RunningPcs
<1>1. CASE UNCHANGED <<pc, locals>>
  BY <1>1
<1>2. CASE \E x \in Actors : OnlyMoves(x) /\ x # w
  BY <1>2 DEF OnlyMoves
<1>3. ~Done(w)
  BY DEF Done
<1>4. CASE Pass(w) \/ SendFails(w) \/ Crash(w)
  BY <1>3, <1>4
  DEF Pass, Scan, Offer, Reserve, SendTask, SendFails, Crash, NextOffer
<1>5. CASE Execute(w)
  BY <1>3, <1>5 DEF Execute, Gate, Bail, DropAgent, Pick, Claim, Start, StepsEnd,
                    SeesCancel, SeesGone, Finish, Commit, Release
<1>6. CASE \/ Reconcile(w) \/ StepsRaise(w)
           \/ \E b \in Builds, a \in Agents \cup {NoAgent} : Take(w, b, a)
  BY <1>6 DEF Reconcile, StepsRaise, Take
<1>7. w \notin Requests
  BY ConstantsAssumption
<1>. QED BY <1>1, <1>2, <1>4, <1>5, <1>6, <1>7, OneMoves

(* What a worker executes stays out of the queue.                           *)
LEMMA BegunKept ==
  ASSUME Typed, Known, Begun, [Next]_vars
  PROVE  Begun'
<1>. SUFFICES ASSUME NEW w \in Workers, pc'[w] \in RunningPcs
              PROVE  /\ job'[w] \in Builds
                     /\ status'[job'[w]] \notin {"absent", "pending"}
  BY DEF Begun
<1>1. job'[w] = job[w]
  BY WhoRuns
<1>2. CASE pc[w] \in RunningPcs
  BY <1>1, <1>2, RowSteps, BegunStays DEF Begun
<1>3. CASE Start(w) /\ pc'[w] = "steps"
  <2>1. job[w] \in Builds /\ status'[job[w]] = "running"
    <3>1. pc[w] \in ExecPcs /\ w \in Actors
      BY <1>3, WorkersAct DEF Start, ExecPcs
    <3>2. job[w] \in Builds
      BY <3>1 DEF Typed, LocalsTyped, Decided
    <3>. QED BY <1>3, <3>2, WorkersAct
             DEF Start, Typed, TablesTyped, LocalsTyped
  <2>. QED BY <1>1, <2>1
<1>. QED BY <1>2, <1>3, WhoRuns

(* No worker starts a build that another one executes.                      *)
LEMMA OneExecutorKept ==
  ASSUME Typed, Begun, OneExecutor, [Next]_vars
  PROVE  OneExecutor'
<1>. SUFFICES ASSUME NEW v \in Workers, NEW w \in Workers, v # w,
                     pc'[v] \in RunningPcs, pc'[w] \in RunningPcs
              PROVE  job'[v] # job'[w]
  BY DEF OneExecutor
<1>1. job'[v] = job[v] /\ job'[w] = job[w]
  BY WhoRuns
<1>2. CASE pc[v] \in RunningPcs /\ pc[w] \in RunningPcs
  BY <1>1, <1>2 DEF OneExecutor
<1>3. ASSUME NEW x \in Workers, NEW y \in Workers, x # y,
             pc[x] \in RunningPcs, Start(y), pc'[y] = "steps"
      PROVE  job[x] # job[y]
  BY <1>3, WorkersAct DEF Begun, Start, Typed, LocalsTyped
<1>4. ~(Start(v) /\ Start(w) /\ pc'[v] = "steps" /\ pc'[w] = "steps")
  BY WorkersAct DEF Start, Typed, LocalsTyped
<1>. QED BY <1>1, <1>2, <1>3, <1>4, WhoRuns

(* A build is executed by one worker, whatever tasks were sent for it,      *)
(* whoever died meanwhile (the conditional UPDATE of try_start_build).      *)
THEOREM OneExecutorAlways == Spec => []OneExecutor
<1>1. Init => Begun /\ OneExecutor
  BY WorkersAct DEF Init, Begun, OneExecutor, RunningPcs
<1>2. Typed /\ Known /\ Begun /\ OneExecutor /\ [Next]_vars
        => Begun' /\ OneExecutor'
  BY BegunKept, OneExecutorKept
<1>. QED BY <1>1, <1>2, KnownAlways, PTL DEF Spec

-----------------------------------------------------------------------------
(* A reservation is always somebody's to release, and whoever works on a   *)
(* build that has not ended has the reservation of its agent.              *)

(* Process x holds agent a for build b.                                     *)
HeldBy(x, a, b) == pc[x] \in ClaimedPcs /\ job[x] = b /\ held[x] = a

(* Who holds an agent keeps it, passes it on with a task, or releases it.   *)
LEMMA HolderStep ==
  ASSUME Typed, [Next]_vars, faults = 0, faults' = 0,
         NEW a \in Agents, NEW b \in Builds, NEW x \in Actors,
         HeldBy(x, a, b), current_build[a] = b, current_build'[a] = b
  PROVE  queue'[b][a] > 0 \/ HeldBy(x, a, b)'
<1>. USE WorkersAct DEF Typed, LocalsTyped, TablesTyped
<1>1. CASE UNCHANGED <<pc, locals>>
  BY <1>1 DEF HeldBy
<1>2. CASE \E y \in Actors : OnlyMoves(y) /\ y # x
  BY <1>2 DEF HeldBy, OnlyMoves
<1>3. pc[x] \in ClaimedPcs /\ job[x] = b /\ held[x] = a /\ a # NoAgent
  BY ConstantsAssumption DEF HeldBy
<1>4. CASE Pass(x)
  <2>1. SendTask(x)
    BY <1>3, <1>4 DEF Pass, Scan, Offer, Reserve, ClaimedPcs
  <2>2. queue[b] \in [Agents \cup {NoAgent} -> Nat]
    OBVIOUS
  <2>. QED BY <1>3, <2>1, <2>2 DEF SendTask, Send
<1>5. CASE SendFails(x) \/ Crash(x) \/ StepsRaise(x)
  BY <1>5 DEF SendFails, Crash, StepsRaise
<1>6. CASE Bail(x) \/ DropAgent(x) \/ Release(x)
  <2>1. ReleaseAgent(a, b)
    BY <1>3, <1>6 DEF Bail, DropAgent, Release
  <2>. QED BY <2>1 DEF ReleaseAgent, Builds
<1>7. CASE Gate(x)
  <2>1. UNCHANGED <<job, held>> /\ pc'[x] \in {"bail", "start", "drop_agent"}
    BY <1>3, <1>7 DEF Gate
  <2>. QED BY <1>3, <2>1 DEF HeldBy, ClaimedPcs
<1>8. CASE \/ Start(x) \/ StepsEnd(x) \/ SeesCancel(x) \/ SeesGone(x)
           \/ Finish(x) \/ Commit(x)
  <2>1. /\ UNCHANGED <<job, held>>
        /\ pc'[x] \in {"steps", "release", "finish", "commit"}
    BY <1>8 DEF Start, StepsEnd, SeesCancel, SeesGone, Finish, Commit
  <2>. QED BY <1>3, <2>1 DEF HeldBy, ClaimedPcs
<1>9. CASE \/ Pick(x) \/ Claim(x) \/ Reconcile(x)
           \/ \E c \in Builds, d \in Agents \cup {NoAgent} : Take(x, c, d)
  BY <1>3, <1>9 DEF Pick, Claim, Reconcile, Take, ClaimedPcs
<1>10. CASE Serve(x)
  BY <1>3, <1>10 DEF Serve, FindPending, Insert, Coalesce, Enqueue, CancelCommit,
                     Purge, DropPipeline, Kick, Unset, ClaimedPcs
<1>11. CASE Arrive(x)
  BY <1>3, <1>11 DEF Arrive, Trigger, TriggerStep, Retry, Ask, Cancel, Dispatch,
                     DeletePipeline, MaintenanceOn, MaintenanceOff, Enable,
                     Disable, Connect, ClaimedPcs
<1>. QED
  BY <1>1, <1>2, <1>4, <1>5, <1>6, <1>7, <1>8, <1>9, <1>10, <1>11, OneMoves
  DEF Execute

(* A task stays in the queue until a worker takes it and the agent with it. *)
LEMMA TaskStep ==
  ASSUME Typed, [Next]_vars,
         NEW a \in Agents, NEW b \in Builds, queue[b][a] > 0
  PROVE  queue'[b][a] > 0 \/ \E x \in Actors : HeldBy(x, a, b)'
<1>. USE WorkersAct DEF Typed, LocalsTyped, TablesTyped
<1>1. CASE UNCHANGED queue
  BY <1>1
<1>2. ASSUME NEW c, NEW d \in Agents \cup {NoAgent}, Send(c, d)
      PROVE  queue'[b][a] > 0
  <2>1. queue[b] \in [Agents \cup {NoAgent} -> Nat]
    OBVIOUS
  <2>2. CASE c = b
    BY <1>2, <2>1, <2>2 DEF Send
  <2>3. CASE c # b
    BY <1>2, <2>3 DEF Send
  <2>. QED BY <2>2, <2>3
<1>3. ASSUME NEW c \in Builds, NEW d \in Agents \cup {NoAgent},
             NEW w \in Workers, Take(w, c, d)
      PROVE  queue'[b][a] > 0 \/ \E x \in Actors : HeldBy(x, a, b)'
  <2>1. CASE c = b /\ d = a
    BY <1>3, <2>1 DEF Take, HeldBy, ClaimedPcs
  <2>2. CASE c # b
    BY <1>3, <2>2 DEF Take
  <2>3. CASE c = b /\ d # a
    <3>1. queue[b] \in [Agents \cup {NoAgent} -> Nat]
      OBVIOUS
    <3>. QED BY <1>3, <2>3, <3>1 DEF Take
  <2>. QED BY <2>1, <2>2, <2>3
<1>4. ASSUME NEW x \in Actors, SendTask(x) \/ Enqueue(x)
      PROVE  queue'[b][a] > 0
  BY <1>2, <1>4 DEF SendTask, Enqueue
<1>5. \/ UNCHANGED queue
      \/ \E x \in Actors : SendTask(x) \/ Enqueue(x)
      \/ \E c \in Builds, d \in Agents \cup {NoAgent}, w \in Workers :
           Take(w, c, d)
  BY QueueSteps
<1>. QED BY <1>1, <1>3, <1>4, <1>5

(* Only a process that holds it from then on reserves an agent.             *)
LEMMA ClaimStep ==
  ASSUME Typed, [Next]_vars,
         NEW a \in Agents, NEW b \in Builds,
         current_build'[a] = b, current_build[a] # b
  PROVE  \E x \in Actors : HeldBy(x, a, b)'
<1>. USE WorkersAct DEF Typed, LocalsTyped, TablesTyped
<1>. b # NoBuild
  BY DEF Builds
<1>0. ASSUME NEW x \in Actors, NEW l \in ClaimedPcs,
             ClaimAgent(held[x], job[x]), Goto(x, l), UNCHANGED locals
      PROVE  HeldBy(x, a, b)'
  <2>1. held[x] = a /\ job[x] = b
    BY <1>0 DEF ClaimAgent
  <2>2. pc'[x] = l
    BY <1>0
  <2>. QED BY <1>0, <2>1, <2>2 DEF HeldBy
<1>1. CASE \E x \in Actors : Pass(x)
  <2>1. PICK x \in Actors : Reserve(x) /\ current_build' # current_build
    BY <1>1 DEF Pass, Scan, Offer, SendTask
  <2>2. ClaimAgent(held[x], job[x]) /\ Goto(x, "send") /\ UNCHANGED locals
    BY <2>1 DEF Reserve
  <2>3. "send" \in ClaimedPcs
    BY DEF ClaimedPcs
  <2>. QED BY <1>0, <2>2, <2>3
<1>2. CASE \E w \in Workers : Execute(w)
  <2>1. PICK w \in Workers : Execute(w)
    BY <1>2
  <2>2. CASE Claim(w)
    <3>1. ClaimAgent(held[w], job[w]) /\ Goto(w, "start") /\ UNCHANGED locals
      BY <2>2 DEF Claim
    <3>2. "start" \in ClaimedPcs
      BY DEF ClaimedPcs
    <3>. QED BY <1>0, <3>1, <3>2
  <2>3. CASE Bail(w) \/ DropAgent(w) \/ Release(w)
    BY <2>3 DEF Bail, DropAgent, Release, ReleaseAgent
  <2>4. CASE \/ Gate(w) \/ Pick(w) \/ Start(w) \/ StepsEnd(w) \/ SeesCancel(w)
             \/ SeesGone(w) \/ Finish(w) \/ Commit(w)
    BY <2>4 DEF Gate, Pick, Start, StepsEnd, SeesCancel, SeesGone, Finish, Commit
  <2>. QED BY <2>1, <2>2, <2>3, <2>4 DEF Execute
<1>3. CASE \E r \in Requests : Serve(r)
  BY <1>3 DEF Serve, FindPending, Insert, Coalesce, Enqueue, CancelCommit, Purge,
              DropPipeline, Kick, Unset
<1>4. CASE \E r \in Requests : Arrive(r)
  BY <1>4 DEF Arrive, Trigger, TriggerStep, Retry, Ask, Cancel, Dispatch,
              DeletePipeline, MaintenanceOn, MaintenanceOff, Enable, Disable,
              Connect
<1>5. CASE \/ \E c \in Builds, d \in Agents \cup {NoAgent} : Receive(c, d)
           \/ Beat
           \/ \E d \in Flaky : Heartbeat(d)
           \/ UNCHANGED vars
  BY <1>5 DEF Receive, Take, Beat, Reconcile, Heartbeat, vars
<1>6. CASE Fault
  <2>1. CASE \E x \in Actors : SendFails(x)
    BY <2>1 DEF SendFails, ReleaseAgent
  <2>2. CASE ~ \E x \in Actors : SendFails(x)
    BY <1>6, <2>2 DEF Fault, SessionEnds, GoesStale, Crash, StepsRaise
  <2>. QED BY <2>1, <2>2
<1>. QED BY <1>1, <1>2, <1>3, <1>4, <1>5, <1>6 DEF Next

(* The number of faults never falls.                                        *)
LEMMA FaultsStay ==
  ASSUME Typed, [Next]_vars, faults' = 0
  PROVE  faults = 0
<1>1. CASE \E x \in Actors : Pass(x)
  BY <1>1 DEF Pass, Scan, Offer, Reserve, SendTask
<1>2. CASE \E w \in Workers : Execute(w)
  BY <1>2 DEF Execute, Gate, Bail, DropAgent, Pick, Claim, Start, StepsEnd,
              SeesCancel, SeesGone, Finish, Commit, Release
<1>3. CASE \E r \in Requests : Serve(r)
  BY <1>3 DEF Serve, FindPending, Insert, Coalesce, Enqueue, CancelCommit, Purge,
              DropPipeline, Kick, Unset
<1>4. CASE \E r \in Requests : Arrive(r)
  BY <1>4 DEF Arrive, Trigger, TriggerStep, Retry, Ask, Cancel, Dispatch,
              DeletePipeline, MaintenanceOn, MaintenanceOff, Enable, Disable,
              Connect
<1>5. CASE \/ \E b \in Builds, a \in Agents \cup {NoAgent} : Receive(b, a)
           \/ Beat
           \/ \E a \in Flaky : Heartbeat(a)
           \/ UNCHANGED vars
  BY <1>5 DEF Receive, Take, Beat, Reconcile, Heartbeat, vars
<1>6. CASE Fault
  <2>1. faults' # faults + 1
    BY DEF Typed, TablesTyped
  <2>. QED BY <1>6, <2>1
           DEF Fault, SessionEnds, GoesStale, Crash, SendFails, StepsRaise
<1>. QED BY <1>1, <1>2, <1>3, <1>4, <1>5, <1>6 DEF Next

(* As long as no process dies and no send fails, a reserved agent is in the *)
(* hands of a process or of a queued task, so some finally block, early     *)
(* return or dispatch failure path will release it (execute_build,          *)
(* dispatch_pending_builds).                                                *)
THEOREM NoOrphanedReservationAlways == Spec => []NoOrphanedReservation
<1>1. Init => NoOrphanedReservation
  BY DEF Init, NoOrphanedReservation
<1>2. Typed /\ NoOrphanedReservation /\ [Next]_vars => NoOrphanedReservation'
  <2>. SUFFICES ASSUME Typed, NoOrphanedReservation, [Next]_vars, faults' = 0,
                       NEW a \in Agents, current_build'[a] # NoBuild
                PROVE  Responsible(a, current_build[a])'
    BY DEF NoOrphanedReservation
  <2>1. faults = 0
    BY FaultsStay
  <2>2. PICK b \in Builds : current_build'[a] = b
    BY TypedKept DEF Typed, TablesTyped
  <2>3. queue'[b][a] > 0 \/ \E x \in Actors : HeldBy(x, a, b)'
    <3>1. CASE current_build[a] # b
      BY <2>2, <3>1, ClaimStep
    <3>2. CASE current_build[a] = b
      <4>1. queue[b][a] > 0 \/ \E x \in Actors : HeldBy(x, a, b)
        BY <2>1, <3>2 DEF NoOrphanedReservation, Responsible, HeldBy, Builds
      <4>. QED BY <2>1, <2>2, <3>2, <4>1, TaskStep, HolderStep
    <3>. QED BY <3>1, <3>2
  <2>. QED BY <2>2, <2>3 DEF Responsible, HeldBy
<1>. QED BY <1>1, <1>2, TypedAlways, PTL DEF Spec

-----------------------------------------------------------------------------
(* The other way round: a build that may still run has one holder at most of *)
(* an agent, a task or a process, and the holder has the reservation.       *)

(* A build that has ended may be reserved for once more, by a pass that read *)
(* it before: its holders release nothing that matters.                     *)
OneHolder(a, b) ==
  /\ queue[b][a] <= 1
  /\ \A x \in Actors : HeldBy(x, a, b) =>
       queue[b][a] = 0 /\ \A y \in Actors : HeldBy(y, a, b) => y = x

HolderReserves(a, b) ==
  /\ Responsible(a, b) => current_build[a] = b
  /\ OneHolder(a, b)

Reserved ==
  drops = 0 => \A a \in Agents, b \in Builds :
                 status[b] \in Active => HolderReserves(a, b)

(* What is held by fewer, with the reservation still there.                 *)
LEMMA FewerHold ==
  ASSUME Typed, NEW a \in Agents, NEW b \in Builds, HolderReserves(a, b),
         UNCHANGED queue, \A x \in Actors : HeldBy(x, a, b)' => HeldBy(x, a, b),
         current_build[a] = b => current_build'[a] = b
  PROVE  HolderReserves(a, b)'
BY DEF HolderReserves, OneHolder, Responsible, HeldBy

(* Who lets go of its agent and releases it was the only holder.            *)
LEMMA ReleaseStep ==
  ASSUME Typed, NEW a \in Agents, NEW b \in Builds, HolderReserves(a, b),
         NEW x \in Actors, pc[x] \in ClaimedPcs, pc'[x] \notin ClaimedPcs,
         OnlyMoves(x), UNCHANGED queue, ReleaseAgent(held[x], job[x])
  PROVE  HolderReserves(a, b)'
<1>1. \A y \in Actors : HeldBy(y, a, b)' => HeldBy(y, a, b) /\ y # x
  BY DEF HeldBy, OnlyMoves
<1>2. CASE held[x] = a /\ job[x] = b
  <2>1. HeldBy(x, a, b)
    BY <1>2 DEF HeldBy
  <2>2. queue[b][a] = 0 /\ \A y \in Actors : ~HeldBy(y, a, b)'
    BY <1>1, <2>1 DEF HolderReserves, OneHolder
  <2>. QED BY <2>2 DEF HolderReserves, OneHolder, Responsible, HeldBy
<1>3. CASE ~(held[x] = a /\ job[x] = b)
  <2>1. current_build[a] = b => current_build'[a] = b
    BY <1>3 DEF ReleaseAgent, Typed, TablesTyped
  <2>. QED BY <1>1, <2>1, FewerHold
<1>. QED BY <1>2, <1>3

(* Who claims an agent finds it idle, so that nobody held it.               *)
LEMMA ClaimKept ==
  ASSUME Typed, NEW a \in Agents, NEW b \in Builds, HolderReserves(a, b),
         NEW x \in Actors, pc[x] \notin ClaimedPcs, OnlyMoves(x),
         UNCHANGED <<queue, job, held>>,
         current_build[held[x]] = NoBuild, ClaimAgent(held[x], job[x])
  PROVE  HolderReserves(a, b)'
<1>. b # NoBuild
  BY DEF Builds
<1>1. CASE held[x] = a
  <2>1. current_build[a] # b
    BY <1>1
  <2>2. queue[b][a] = 0 /\ \A y \in Actors : ~HeldBy(y, a, b)
    BY <2>1 DEF HolderReserves, Responsible, HeldBy, Typed, TablesTyped
  <2>3. \A y \in Actors : HeldBy(y, a, b)' => y = x /\ job[x] = b
    BY <2>2 DEF HeldBy, OnlyMoves
  <2>4. current_build'[a] = job[x]
    BY <1>1 DEF ClaimAgent, Typed, TablesTyped
  <2>5. OneHolder(a, b)'
    BY <2>2, <2>3 DEF OneHolder, HeldBy
  <2>6. Responsible(a, b)' => current_build'[a] = b
    BY <2>2, <2>3, <2>4 DEF Responsible, HeldBy
  <2>. QED BY <2>5, <2>6 DEF HolderReserves
<1>2. CASE held[x] # a
  <2>1. current_build'[a] = current_build[a]
    BY <1>2 DEF ClaimAgent, Typed, TablesTyped
  <2>2. \A y \in Actors : HeldBy(y, a, b)' => HeldBy(y, a, b)
    BY <1>2 DEF HeldBy, OnlyMoves
  <2>. QED BY <2>1, <2>2, FewerHold
<1>. QED BY <1>1, <1>2

(* A step of a dispatch pass, or its end by a fault.                        *)
LEMMA PassReserves ==
  ASSUME Typed, NEW a \in Agents, NEW b \in Builds, HolderReserves(a, b),
         NEW x \in Actors, Pass(x) \/ SendFails(x) \/ Crash(x)
  PROVE  HolderReserves(a, b)'
<1>. USE WorkersAct DEF Typed, LocalsTyped
<1>0. OnlyMoves(x)
  BY PassAlone
<1>1. ASSUME NEW rest, NextOffer(x, rest)
      PROVE  pc'[x] \notin ClaimedPcs
  BY <1>1 DEF NextOffer, Done, ClaimedPcs
<1>2. ASSUME pc'[x] \notin ClaimedPcs, UNCHANGED <<queue, current_build>>
      PROVE  HolderReserves(a, b)'
  BY <1>0, <1>2, FewerHold DEF HeldBy, OnlyMoves
<1>3. CASE Scan(x) \/ Offer(x) \/ Crash(x)
  <2>1. pc'[x] \notin ClaimedPcs
    BY <1>1, <1>3 DEF Scan, Offer, Crash, Done, ClaimedPcs
  <2>. QED BY <1>2, <1>3, <2>1 DEF Scan, Offer, Crash
<1>4. CASE Reserve(x)
  <2>1. CASE UNCHANGED current_build /\ pc'[x] \notin ClaimedPcs
    BY <1>2, <1>4, <2>1 DEF Reserve
  <2>2. CASE /\ current_build[held[x]] = NoBuild
             /\ ClaimAgent(held[x], job[x]) /\ UNCHANGED locals
    BY <1>0, <1>4, <2>2, ClaimKept DEF Reserve, ClaimedPcs
  <2>. QED BY <1>1, <1>4, <2>1, <2>2 DEF Reserve, Done, ClaimedPcs
<1>5. CASE SendFails(x)
  <2>1. pc[x] \in ClaimedPcs /\ pc'[x] \notin ClaimedPcs
    BY <1>1, <1>5 DEF SendFails, ClaimedPcs
  <2>. QED BY <1>0, <1>5, <2>1, ReleaseStep DEF SendFails
<1>6. CASE SendTask(x)
  <2>1. \A y \in Actors : HeldBy(y, a, b)' => HeldBy(y, a, b) /\ y # x
    BY <1>0, <1>1, <1>6 DEF SendTask, HeldBy, OnlyMoves
  <2>2. job[x] = b /\ held[x] = a => HeldBy(x, a, b)
    BY <1>6 DEF SendTask, HeldBy, ClaimedPcs
  <2>3. queue[b] \in [Agents \cup {NoAgent} -> Nat]
    BY DEF TablesTyped
  <2>4. queue'[b][a] = IF job[x] = b /\ held[x] = a THEN queue[b][a] + 1
                       ELSE queue[b][a]
    BY <1>6, <2>3 DEF SendTask, Send, TablesTyped
  <2>5. UNCHANGED current_build
    BY <1>6 DEF SendTask
  <2>6. CASE HeldBy(x, a, b)
    <3>1. queue'[b][a] <= 1 /\ \A y \in Actors : ~HeldBy(y, a, b)'
      BY <2>1, <2>3, <2>4, <2>6 DEF HolderReserves, OneHolder
    <3>2. current_build[a] = b
      BY <2>6 DEF HolderReserves, Responsible, HeldBy
    <3>. QED BY <2>5, <3>1, <3>2 DEF HolderReserves, OneHolder
  <2>7. CASE ~HeldBy(x, a, b)
    <3>1. queue'[b][a] = queue[b][a]
      BY <2>2, <2>4, <2>7
    <3>. QED BY <2>1, <2>5, <3>1 DEF HolderReserves, OneHolder, Responsible, HeldBy
  <2>. QED BY <2>6, <2>7
<1>. QED BY <1>3, <1>4, <1>5, <1>6 DEF Pass

(* A step of execute_build.                                                 *)
LEMMA ExecuteReserves ==
  ASSUME Typed, NEW a \in Agents, NEW b \in Builds, HolderReserves(a, b),
         NEW x \in Workers, Execute(x) \/ StepsRaise(x)
  PROVE  HolderReserves(a, b)'
<1>. USE WorkersAct DEF Typed, LocalsTyped
<1>0. OnlyMoves(x)
  BY ExecuteAlone
<1>1. CASE Bail(x) \/ DropAgent(x) \/ Release(x)
  <2>1. /\ pc[x] \in ClaimedPcs /\ pc'[x] \notin ClaimedPcs
        /\ ReleaseAgent(held[x], job[x]) /\ UNCHANGED queue
    BY <1>1 DEF Bail, DropAgent, Release, Done, ClaimedPcs
  <2>. QED BY <1>0, <2>1, ReleaseStep
<1>2. CASE Claim(x)
  <2>1. CASE /\ current_build[held[x]] = NoBuild
             /\ ClaimAgent(held[x], job[x]) /\ UNCHANGED locals
    BY <1>0, <1>2, <2>1, ClaimKept DEF Claim, ClaimedPcs
  <2>2. CASE Done(x) /\ UNCHANGED current_build
    BY <1>0, <1>2, <2>2, FewerHold DEF Claim, Done, HeldBy, OnlyMoves, ClaimedPcs
  <2>. QED BY <1>2, <2>1, <2>2 DEF Claim
<1>3. CASE Gate(x) \/ Pick(x)
  <2>1. UNCHANGED queue /\ UNCHANGED current_build
    BY <1>3 DEF Gate, Pick
  <2>2. CASE pc'[x] \notin ClaimedPcs
    BY <1>0, <2>1, <2>2, FewerHold DEF HeldBy, OnlyMoves
  <2>3. CASE pc'[x] \in ClaimedPcs
    <3>1. UNCHANGED <<job, held>> /\ pc[x] \in ClaimedPcs
      BY <1>3, <2>3 DEF Gate, Pick, Done, ClaimedPcs
    <3>. QED BY <1>0, <2>1, <3>1, FewerHold DEF HeldBy, OnlyMoves
  <2>. QED BY <2>2, <2>3
<1>4. CASE \/ Start(x) \/ StepsEnd(x) \/ SeesCancel(x) \/ SeesGone(x)
           \/ Finish(x) \/ Commit(x) \/ StepsRaise(x)
  <2>1. /\ pc[x] \in ClaimedPcs /\ UNCHANGED <<job, held>>
        /\ UNCHANGED queue /\ UNCHANGED current_build
    BY <1>4 DEF Start, StepsEnd, SeesCancel, SeesGone, Finish, Commit, StepsRaise,
                ClaimedPcs, RunningPcs
  <2>2. \A y \in Actors : HeldBy(y, a, b)' => HeldBy(y, a, b)
    BY <1>0, <2>1 DEF HeldBy, OnlyMoves
  <2>. QED BY <2>1, <2>2, FewerHold
<1>. QED BY <1>1, <1>2, <1>3, <1>4 DEF Execute

(* The task goes to the worker, and the agent with it.                      *)
LEMMA TakeReserves ==
  ASSUME Typed, NEW a \in Agents, NEW b \in Builds, HolderReserves(a, b),
         NEW w \in Workers, NEW c \in Builds, NEW d \in Agents \cup {NoAgent},
         Take(w, c, d)
  PROVE  HolderReserves(a, b)'
<1>. USE WorkersAct DEF Typed, LocalsTyped
<1>0. OnlyMoves(w)
  BY ArriveAlone
<1>1. pc[w] \notin ClaimedPcs /\ UNCHANGED current_build
  BY DEF Take, ClaimedPcs
<1>2. queue[b] \in [Agents \cup {NoAgent} -> Nat] /\ queue[c][d] > 0
  BY DEF TablesTyped, Take
<1>3. queue'[b][a] = IF c = b /\ d = a THEN queue[b][a] - 1 ELSE queue[b][a]
  BY <1>2 DEF Take, TablesTyped
<1>4. \A y \in Actors : HeldBy(y, a, b)' =>
        \/ HeldBy(y, a, b) /\ y # w
        \/ y = w /\ c = b /\ d = a
  <2>1. job'[w] = c /\ held'[w] = d
    BY DEF Take
  <2>2. \A y \in Actors \ {w} : HeldBy(y, a, b)' => HeldBy(y, a, b)
    BY <1>0 DEF HeldBy, OnlyMoves
  <2>. QED BY <2>1, <2>2 DEF HeldBy
<1>5. CASE c = b /\ d = a
  <2>1. queue[b][a] = 1 /\ \A y \in Actors : ~HeldBy(y, a, b)
    BY <1>2, <1>5 DEF HolderReserves, OneHolder
  <2>2. current_build[a] = b
    BY <2>1 DEF HolderReserves, Responsible
  <2>3. queue'[b][a] = 0
    BY <1>3, <1>5, <2>1
  <2>4. \A y \in Actors : HeldBy(y, a, b)' => y = w
    BY <1>4, <2>1
  <2>5. OneHolder(a, b)'
    BY <2>3, <2>4 DEF OneHolder
  <2>. QED BY <1>1, <2>2, <2>5 DEF HolderReserves
<1>6. CASE ~(c = b /\ d = a)
  BY <1>1, <1>3, <1>4, <1>6 DEF HolderReserves, OneHolder, Responsible, HeldBy
<1>. QED BY <1>5, <1>6

(* Requests hold no agent outside a pass; what they take away is of a build *)
(* that has ended or is deleted, and so is what the beat clears.            *)
LEMMA OthersReserve ==
  ASSUME Typed, NEW a \in Agents, NEW b \in Builds, HolderReserves(a, b),
         status'[b] \in Active,
         NEW x \in Actors, Serve(x) \/ Arrive(x) \/ Reconcile(x)
  PROVE  HolderReserves(a, b)'
<1>. USE WorkersAct DEF Typed, LocalsTyped
<1>. b # NoBuild
  BY DEF Builds
<1>0. OnlyMoves(x)
  BY ServeAlone, ArriveAlone, ExecuteAlone
<1>1. pc'[x] \notin ClaimedPcs \/ pc'[x] = pc[x]
  BY DEF Serve, FindPending, Insert, Coalesce, Enqueue, CancelCommit, Purge,
         DropPipeline, Kick, Unset, Arrive, Trigger, TriggerStep, Retry, Ask,
         Cancel, Dispatch, DeletePipeline, MaintenanceOn, MaintenanceOff, Enable,
         Disable, Connect, Reconcile, Done, ClaimedPcs
<1>2. pc[x] \notin ClaimedPcs
  BY DEF Serve, FindPending, Insert, Coalesce, Enqueue, CancelCommit, Purge,
         DropPipeline, Kick, Unset, Arrive, Trigger, TriggerStep, Retry, Ask,
         Cancel, Dispatch, DeletePipeline, MaintenanceOn, MaintenanceOff, Enable,
         Disable, Connect, Reconcile, ClaimedPcs
<1>3. \A y \in Actors : HeldBy(y, a, b)' => HeldBy(y, a, b)
  BY <1>0, <1>1, <1>2 DEF HeldBy, OnlyMoves
<1>4. CASE DropPipeline(x)
  <2>1. b \notin BuildsOf(arg[x].pipeline)
    BY <1>4 DEF DropPipeline, Active
  <2>2. current_build[a] = b => current_build'[a] = b
    BY <1>4, <2>1 DEF DropPipeline
  <2>. QED BY <1>3, <1>4, <2>2, FewerHold DEF DropPipeline
<1>5. CASE Reconcile(x)
  <2>1. status[b] \notin Terminal
    BY <1>5 DEF Reconcile, Active, Terminal
  <2>2. current_build[a] = b => current_build'[a] = b
    BY <1>5, <2>1 DEF Reconcile
  <2>. QED BY <1>3, <1>5, <2>2, FewerHold DEF Reconcile
<1>6. CASE Enqueue(x)
  <2>1. queue[b] \in [Agents \cup {NoAgent} -> Nat] /\ a # NoAgent
    BY ConstantsAssumption DEF TablesTyped
  <2>2. queue'[b][a] = queue[b][a] /\ UNCHANGED current_build
    BY <1>6, <2>1 DEF Enqueue, Send, TablesTyped
  <2>. QED BY <1>3, <2>2 DEF HolderReserves, OneHolder, Responsible, HeldBy
<1>7. CASE \/ FindPending(x) \/ Insert(x) \/ Coalesce(x) \/ CancelCommit(x)
           \/ Purge(x) \/ Kick(x) \/ Unset(x) \/ Arrive(x)
  <2>1. UNCHANGED <<queue, current_build>>
    BY <1>7 DEF FindPending, Insert, Coalesce, CancelCommit, Purge, Kick, Unset,
         Arrive, Trigger, TriggerStep, Retry, Ask, Cancel, Dispatch, DeletePipeline,
         MaintenanceOn, MaintenanceOff, Enable, Disable, Connect
  <2>. QED BY <1>3, <2>1, FewerHold
<1>. QED BY <1>4, <1>5, <1>6, <1>7 DEF Serve

(* No step gives back a socket that was lost.                               *)
LEMMA DropsStay ==
  ASSUME Typed, [Next]_vars, drops' = 0
  PROVE  drops = 0 /\ \A d \in Flaky : ~SessionEnds(d) /\ ~GoesStale(d)
<1>1. drops' # drops + 1
  BY DEF Typed, TablesTyped
<1>2. \A d \in Flaky : ~SessionEnds(d) /\ ~GoesStale(d)
  BY <1>1 DEF SessionEnds, GoesStale
<1>3. UNCHANGED drops
  <2>1. CASE \E x \in Actors : Pass(x)
    BY <2>1 DEF Pass, Scan, Offer, Reserve, SendTask
  <2>2. CASE \E w \in Workers : Execute(w)
    BY <2>2 DEF Execute, Gate, Bail, DropAgent, Pick, Claim, Start, StepsEnd,
                SeesCancel, SeesGone, Finish, Commit, Release
  <2>3. CASE \E r \in Requests : Serve(r)
    BY <2>3 DEF Serve, FindPending, Insert, Coalesce, Enqueue, CancelCommit,
                Purge, DropPipeline, Kick, Unset
  <2>4. CASE \E r \in Requests : Arrive(r)
    BY <2>4 DEF Arrive, Trigger, TriggerStep, Retry, Ask, Cancel, Dispatch,
                DeletePipeline, MaintenanceOn, MaintenanceOff, Enable, Disable,
                Connect
  <2>5. CASE \/ \E c \in Builds, d \in Agents \cup {NoAgent} : Receive(c, d)
             \/ Beat
             \/ \E d \in Flaky : Heartbeat(d)
             \/ UNCHANGED vars
    BY <2>5 DEF Receive, Take, Beat, Reconcile, Heartbeat, vars
  <2>6. CASE Fault
    BY <1>2, <2>6 DEF Fault, Crash, SendFails, StepsRaise
  <2>. QED BY <2>1, <2>2, <2>3, <2>4, <2>5, <2>6 DEF Next
<1>. QED BY <1>1, <1>2, <1>3

(* So no step changes who holds what of a build that has not ended.         *)
LEMMA HolderKept ==
  ASSUME Typed, [Next]_vars, drops' = 0,
         NEW a \in Agents, NEW b \in Builds, HolderReserves(a, b),
         status'[b] \in Active
  PROVE  HolderReserves(a, b)'
<1>. USE WorkersAct
<1>1. CASE \E x \in Actors : Pass(x) \/ SendFails(x) \/ Crash(x)
  BY <1>1, PassReserves
<1>2. CASE \E w \in Workers : Execute(w) \/ StepsRaise(w)
  BY <1>2, ExecuteReserves
<1>3. CASE \/ \E r \in Requests : Arrive(r) \/ Serve(r)
           \/ Beat
  BY <1>3, OthersReserve DEF Beat
<1>4. CASE \E c \in Builds, d \in Agents \cup {NoAgent} : Receive(c, d)
  BY <1>4, TakeReserves DEF Receive
<1>5. CASE (\E d \in Flaky : Heartbeat(d)) \/ UNCHANGED vars
  BY <1>5, FewerHold DEF Heartbeat, vars, HeldBy
<1>. QED BY <1>1, <1>2, <1>3, <1>4, <1>5, DropsStay DEF Next, Fault

(* A worker about to start its build, or executing it, has an agent.        *)
WithAgent ==
  \A w \in Workers : pc[w] \in {"claim", "start"} \cup RunningPcs => held[w] \in Agents

LEMMA WithAgentKept ==
  ASSUME Typed, WithAgent, [Next]_vars
  PROVE  WithAgent'
<1>. USE WorkersAct DEF Typed, LocalsTyped
<1>. SUFFICES ASSUME NEW w \in Workers,
                     pc'[w] \in {"claim", "start"} \cup RunningPcs
              PROVE  held'[w] \in Agents
  BY DEF WithAgent
<1>1. CASE UNCHANGED <<pc, locals>>
  BY <1>1 DEF WithAgent
<1>2. CASE \E y \in Actors : OnlyMoves(y) /\ y # w
  BY <1>2 DEF WithAgent, OnlyMoves
<1>3. CASE Gate(w)
  BY <1>3 DEF Gate, Done, RunningPcs
<1>4. CASE Pick(w)
  BY <1>4 DEF Pick, Done, RunningPcs
<1>5. CASE Claim(w)
  BY <1>5 DEF Claim, Done, RunningPcs, WithAgent
<1>6. CASE \/ Start(w) \/ StepsEnd(w) \/ SeesCancel(w) \/ Finish(w)
  BY <1>6 DEF Start, StepsEnd, SeesCancel, Finish, WithAgent, RunningPcs
<1>7. CASE \/ Bail(w) \/ DropAgent(w) \/ SeesGone(w) \/ Commit(w) \/ Release(w)
           \/ StepsRaise(w) \/ Reconcile(w) \/ Crash(w)
           \/ \E b \in Builds, a \in Agents \cup {NoAgent} : Take(w, b, a)
  BY <1>7 DEF Bail, DropAgent, SeesGone, Commit, Release, StepsRaise, Reconcile,
              Crash, Take, Done, RunningPcs
<1>8. CASE Pass(w) \/ SendFails(w)
  BY <1>8 DEF Pass, Scan, Offer, Reserve, SendTask, SendFails, NextOffer, Done,
              RunningPcs
<1>9. CASE Serve(w) \/ Arrive(w)
  <2>1. pc'[w] \notin {"claim", "start"} \cup RunningPcs \/ pc'[w] = pc[w]
    BY <1>9 DEF Serve, FindPending, Insert, Coalesce, Enqueue, CancelCommit, Purge,
         DropPipeline, Kick, Unset, Arrive, Trigger, TriggerStep, Retry, Ask,
         Cancel, Dispatch, DeletePipeline, MaintenanceOn, MaintenanceOff, Enable,
         Disable, Connect, Done, RunningPcs
  <2>2. pc[w] \notin {"claim", "start"} \cup RunningPcs
    BY <1>9 DEF Serve, FindPending, Insert, Coalesce, Enqueue, CancelCommit, Purge,
         DropPipeline, Kick, Unset, Arrive, Trigger, TriggerStep, Retry, Ask,
         Cancel, Dispatch, DeletePipeline, MaintenanceOn, MaintenanceOff, Enable,
         Disable, Connect, RunningPcs
  <2>. QED BY <2>1, <2>2
<1>. QED BY <1>1, <1>2, <1>3, <1>4, <1>5, <1>6, <1>7, <1>8, <1>9, OneMoves
         DEF Execute

(* As long as no agent loses its socket, whoever works on a build that has  *)
(* not ended has the reservation of its agent: no release, reconciliation   *)
(* or deletion takes it away, and nobody else is given the agent.           *)
THEOREM RunningHoldsAgentAlways == Spec => []RunningHoldsAgent
<1>1. Init => Reserved /\ WithAgent
  BY WorkersAct DEF Init, Reserved, Active, WithAgent, RunningPcs
<1>2. Typed /\ Known /\ Reserved /\ [Next]_vars => Reserved'
  <2>. SUFFICES ASSUME Typed, Known, Reserved, [Next]_vars, drops' = 0,
                       NEW a \in Agents, NEW b \in Builds, status'[b] \in Active
                PROVE  HolderReserves(a, b)'
    BY DEF Reserved
  <2>1. HolderReserves(a, b)
    <3>1. CASE status[b] \in Active
      BY <3>1, DropsStay DEF Reserved
    <3>2. CASE status[b] \notin Active
      <4>1. status[b] = "absent"
        BY <3>2, RowSteps DEF RowStep, Created, Started, Ended, Active, Terminal,
                              Typed, TablesTyped
      <4>2. ~(queue[b][a] > 0) /\ \A x \in Actors : job[x] # b
        BY <4>1 DEF Known, TasksKnown, KnownBy, Exists
      <4>3. queue[b] \in [Agents \cup {NoAgent} -> Nat]
        BY DEF Typed, TablesTyped
      <4>. QED BY <4>2, <4>3 DEF HolderReserves, OneHolder, Responsible, HeldBy
    <3>. QED BY <3>1, <3>2
  <2>. QED BY <2>1, HolderKept
<1>3. Typed /\ WithAgent /\ Reserved => RunningHoldsAgent
  <2>. SUFFICES ASSUME Typed, WithAgent, Reserved, drops = 0, NEW w \in Workers, Runs(w)
                PROVE  current_build[held[w]] = job[w]
    BY DEF RunningHoldsAgent
  <2>1. w \in Actors /\ job[w] \in Builds
    BY WorkersAct DEF Runs, RunningPcs, ExecPcs, Typed, LocalsTyped, Decided
  <2>2. held[w] \in Agents
    BY DEF WithAgent, Runs
  <2>3. Responsible(held[w], job[w])
    BY <2>1 DEF Responsible, Runs, RunningPcs, ClaimedPcs
  <2>. QED BY <2>1, <2>2, <2>3 DEF Reserved, HolderReserves, Runs, Active
<1>. QED BY <1>1, <1>2, <1>3, WithAgentKept, KnownAlways, PTL DEF Spec
=============================================================================
