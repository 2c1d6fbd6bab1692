# MegooCI in TLA+

MegooCI is a CI server: a FastAPI backend with Celery workers, PostgreSQL and
Redis, agents written in Go that run the steps of builds, and a web frontend.
This directory holds TLA+ models of what the server and its agents do, TLC
configurations that check them, and proofs checked by TLAPS.

Paths below are relative to the repository; `app/` is `backend/app/`.

## 1. Inventory

| Component | State | Operations | Talks to | What is hard |
|---|---|---|---|---|
| Build queue (`services/build_concurrency.py`, `api/v1/builds.py`, `api/v1/pipelines.py`, migration 021) | `builds` rows: status, pipeline, commit, runs_on | trigger, retry, webhook and `trigger_pipeline` creation; coalescing; cancel; manual dispatch; forced pipeline deletion | database, Celery | two triggers racing, cancel racing start, coalescing into a build that just started, a row that disappears |
| Dispatcher (`services/agent_dispatcher.py`) | `agents.current_build_id`, the Celery queue | pick, claim, release, dispatch pass, reconciliation | queue, agents, workers | several passes racing, reservations leaked by crashes, lost wakeups |
| Build executor (`services/build_executor.py`, `tasks/`) | the build it works on, its agent, the final status it decided | gate, claim, start, stages and steps, finish, release, next pass | all of the above | duplicate tasks, cancellation between read and write, crashes |
| Agent presence (`api/v1/agents_ws.py`, `api/v1/agents.py`) | `agents.status`, `connected_at`, `enabled` | connect, teardown, heartbeat, going stale, enable, disable | dispatcher | an old socket's teardown after a reconnect |
| Step dispatch (second half of `agent_dispatcher.py`, `agents_ws.py`) | Redis list per agent, pub/sub channels, `steps` rows | push a step, wait for its result, cancel | executor, Go agent | lossy pub/sub, timeouts racing results, cancel before start |
| Go agent (`agent/internal/controller/client.go`) | steps in flight, steps per build, workspaces, timers | run, cancel, finish, reconnect | step dispatch | timer racing a new step, cancel racing registration |
| Gates (`step_actions/wait.py`, `api/v1/gates.py`) | a Redis key per gate, the cancel flag | answer, poll, time out, cancel | executor | answer, timeout and cancel at once; a read and a delete that are two calls |
| Chained pipelines (`step_actions/trigger.py`) | the parent's wait for its child | create or join a build, poll | executor, queue | parents holding the agents their children need |
| Compiler (`services/pipeline_compiler.py`, `step_labels.py`) and the agent's handlers (`agent/internal/executor/`) | none | YAML to stages and named steps | queue, agent | two programs in two languages that must agree on what a step may say |
| Git webhooks (`api/v1/webhooks_git.py`) | rate-limit counters, recorded deliveries | receive, rotate the secret, unlink | queue | redeliveries that overlap, requests that die half-way, pruned records |
| Registry (`api/v1/registry_oci.py`, `services/registry_storage.py`, `tasks/registry_tasks.py`) | upload files, blobs, manifest files, image and tag rows | token, upload, push, pull, delete, collect | - | repeated chunks, a push racing a push, a deletion or the collection |
| Two-step sign-in (`services/two_step/`) | the account's row, passkeys, codes, tickets | sign in, answer, add and remove methods, forced setup, reset | - | concurrent tries, single use |
| Accounts (`api/v1/users.py`, `auth.py`, `services/administrators.py`) | accounts, roles, invitations | create, change, delete, sign up, invite, assign | - | the last administrator, with nothing locked |
| Git providers (`services/git_providers.py`) | none: the provider has it | list repositories and branches, page by page | the provider | pages of different moments |
| Connections (`api/v1/git_connections.py`) | the connection's row, repositories linked through it | create, update, test, delete, link, unlink | the provider | a call of ten seconds in the middle of a transaction |
| Configuration backups (`services/backup/`) | files, lock file, schedule, last run | create, upload, restore, prune, scheduled tick | builds, maintenance | overlapping ticks, stale lock, builds let through before a restore |
| Restore statements (`services/backup/restore.py`) | every configuration table | free, rename, write, remove, in the order of the tables | the database's constraints | names that change hands, accounts known by another id |
| Notifications (`services/build_notifications.py`) | tasks beside a build, one send after another | started, waiting, ended | executor, channels | news that comes when the next build has begun; sends that time out and arrive |
| The rest: live updates, secrets, projects, artifacts, search, settings, MCP, AI assistant, frontend | rows, files | create, read, update, delete; calls to other services | - | no concurrency of their own |

What makes each correct:

* **Queue.** At most one running and one pending build per pipeline; a build
  that ended stays ended; latest trigger wins and is built; a cancelled build
  stays cancelled.
* **Dispatcher.** An agent is reserved for one build; every reservation is
  released; a pending build does not wait for ever while an agent is free.
* **Executor.** One worker per build; it holds its agent while it runs.
* **Presence.** Only a connected agent is given work.
* **Step dispatch and agent.** A step runs once; its row ends with what the agent
  reported, or with the timeout, not with a mixture; no workspace is removed
  under a running step.
* **Gates, chains.** Every wait ends, and a build passes one only for a reason.
* **Compiler.** What validates can be run; no two steps share a made-up label.
* **Webhooks.** A delivery takes effect once, and a retry of a failed one does.
* **Registry.** A blob is what its digest says; a listed image can be pulled.
* **Two-step.** A code, a challenge, a ticket are used once; the pause begins
  after five wrong tries, whatever is concurrent.
* **Accounts.** Somebody can always administer the server.
* **Backups.** One at a time; what a restore replaced can be had back; a slot of
  the schedule is served once; no configuration is replaced under a build.
* **Restore.** Every statement is legal; the end is the backup; the administrator is
  not locked out.
* **Providers, connections.** A listing misses nothing that stayed; a status is about
  the credential that is there.
* **Notifications.** "Fixed" is said of what was broken; news comes in order.

`PROJECT.json` lists every hazard with its line and the property that covers it.

## 2. The modules

```
BuildTables            the tables, the processes' control points, helpers, Init, TypeOK
  DispatchPass         dispatch_pending_builds and dispatch_single_build
  BuildExecutor        execute_build, reconcile_and_dispatch (Celery workers)
  BuildRequests        trigger, retry, cancel, dispatch, delete, maintenance (API)
  AgentPresence        control socket, heartbeat, enable and disable
    BuildQueue         composes the four: crashes, Next, fairness, properties
      BuildClaims      what documents and comments say and the code does not do
        MCBuildQueue   constants and symmetry for TLC
PipelineSlots          abstract: one waiting and one running slot per pipeline

BuildRun               abstract: a build's steps in their order, each at most once
StepTables             steps in flight: rows, executor, Redis list, sockets, the Go agent's maps
  AgentSteps           the Go agent: frames, goroutines, semaphore, counts, workspaces, timers
    StepDispatch       the executor's step loop, the socket handlers, cancel; properties
StepWaits              the steps that wait on the server: gates and trigger_pipeline
      BuildSteps       composes StepDispatch and StepWaits
        MCBuildSteps, MCStepDispatch   constants for TLC

Registry               uploads, blobs, manifests, deletions, the collection
SignIn                 tickets, tries, methods and codes of one account
Accounts               accounts, administrators, roles, invitations
Backups                lock file, jobs, schedule, retention, when a restore may run
Restore                the statements of a restore, over any two configurations
StepContract           what the server checks of a step, and what the agent asks of it
  PipelineCompiler     validation and compilation of a pipeline's YAML
GitWebhooks            receive_webhook
GitProviders           the page loops of the adapters, while the provider changes
GitConnections         one connection, its tests, and what is linked through it
Notifications          which events, to whom, in which order
  Services             composes the ten
    MCServices, MCRegistry             constants for TLC

BuildQueueProofs       typing, and which parts of the state a step leaves alone; one build
                       per slot, refinement, one worker per build; no reservation is
                       forgotten, no running build loses its own
BuildStepsProofs       steps: one at a time, no made-up success, orphans are failures;
                       waits: what passes one, and that a lone answer is heard;
                       both kinds together, with their types
AccessProofs           one session per ticket, bounded tries, codes once; what makes an
                       administrator, and that one remains
GitProofs              redeliveries and duplicates, complete listings, verdicts on connections
StorageProofs          blobs are what their digests say, rows refer to rows; backups:
                       one at a time, a slot once, restores quiet and undone
RestoreProofs          legal statements, the backup in the end, nobody locked out
PipelineProofs         names and steps of what is compiled; news true, single, in order
  ServicesProofs       EXTENDS the five above: all of it holds of the server as a whole
```

### The build queue

The builds and agents tables are functions over `Builds` and `Agents`; a build
number is its place in the order of `created_at`. `rev` stands for commit, branch
and parameters together; `runs_on` and `Has` are sets of labels (os, arch and
labels are matched alike). The Celery broker is a count of undelivered
`run_build(b, a)` tasks. A **process** is a Celery worker or an API request in
flight: `pc` says which line it is at, `job`, `held`, `todo`, `outcome` and `arg`
are its local variables. An action is one committed statement, or one message
sent, or the reads of one transaction that lead there. Between a read and the
write that relies on it every other process may move: that is where the races
are. In particular:

* `FindPending` and `Insert`, `Insert` and `Enqueue`, `FindPending` and
  `Coalesce` are apart (`build_concurrency.py:129-165`);
* `Cancel` (the status check) and `CancelCommit` are apart (`builds.py:197-204`);
* `Offer` (pick_online_agent) and `Reserve` (claim_agent's conditional UPDATE)
  and `SendTask` are apart, in every pass of every process;
* `Gate`, `Bail`, `DropAgent`, `Pick`, `Claim`, `Start` are the branches of
  `execute_build` before the steps; `Gate` is one action for its four reads;
* `StepsEnd` or `SeesCancel`, `Finish` (the last re-read) and `Commit` (the write
  of the final status) are apart (`build_executor.py:402-415`);
* `Release` and the dispatch pass of the `finally` block are apart;
* `MaintenanceOff`, `Kick` and `Unset` are apart, because `get_db` commits after
  the handler returned.

Partial unique indexes (migration 021) are the conditions under which `Insert`
and `Start` fail. Deleting a pipeline cascades to its builds ("gone") and clears
the reservations, as the foreign keys say; a process that has the build in hand
finds out at its next statement (`SeesGone`).

A build created by a `trigger_pipeline` step is a request of its own that arrives
while some worker is in its steps (`TriggerStep`); the parent's wait for it is in
`StepWaits`.

### Steps

`StepTables`, `AgentSteps` and `StepDispatch` open up the control point "steps" of
the executor. The state has three sides. The database: the build's and its steps'
rows, and the agent's reservation. The backend: `epc`, `cur`, `seen` (the
executor's session keeps its own copy of a step's status and writes only what it
changed), `mail` (the result waiting in its subscription), the Redis list `tasks`.
The agent: `apc` for each step's goroutine, `stopped` for its context, `count`,
`dir` and `nets` for `buildStepCounts`, `buildWorkspaces` and the pending timers.
Between them are the control sockets: `up[c]` per socket, because the API may
still read from an old socket while the agent has a new one, `down` and `cancels`
for the current one. Cancel frames are a set beside the queue `down`: another task
forwards them, so they may overtake. What is on its way down is lost with the
socket, what is on its way up may still be handled or not.

* `BeginStep` (the commit), `Send` (subscribe and RPUSH), `Wake` or `TimeOut` are
  apart; `Wake` re-reads the row, so it takes what the row says by then;
* `CancelCommits` and `Notify` are apart, and so are the frame's arrival
  (`CancelStep`), the step's (`HandleRunStep`) and its registration (`Begin`);
* `End`, `Report`, `Untrack` and `NetFires` are apart: `build_finished` may come
  between any two;
* `Conclude` is one action, its re-read and commit included: that race is `Finish`
  and `Commit` of `BuildExecutor`. An absent count and a count of zero are alike
  in the code, which only compares with zero, and are one value here;
* timers are not timed: the oldest one set may fire whenever it likes. What is
  said of them does not depend on how long five minutes are.

`SessionEnds` may end a socket while the request that opened it is still in its
dispatch pass; the handler would notice only afterwards. The model allows more
interleavings than the code there.

`StepWaits` is a step that never reaches an agent. `waiting` is the loop's place,
the time it has counted (its own sleeps: the code has no clock there) and what it
read; `gate` is the Redis key, `posts` what the endpoints have accepted. `Get` and
`Judge` are apart because the key is read and deleted in two calls
(`wait.py:158`); `Post` writes the key whenever the row still says "running",
which it does until `SaveResult`. For `trigger_pipeline`, `ChildStarts` needs an
agent the parent does not hold: with `Agents = 1` the child never starts, and the
parent ends by its timeout. `_execute_step` decides by the type of the step which
of the two it is, and they share no state, so `BuildSteps` has a behaviour be
about one kind or the other.

### The services

They share the database and the processes with one another and with the queue,
but no row, key or file: their steps commute. `Services` therefore composes them
with a `focus`, chosen at the start: a behaviour is about one of them, the others
rest. The state space is the sum of theirs, not the product, and no behaviour
that matters to a property of one is lost.

* **Registry.** A blob's digest is its content (a sequence of chunks), which is
  what a collision-free hash means; `blobs[d]` is the file under that name and
  may hold something else. An upload is a file that anybody with its id appends
  to. `put_manifest` is `PutCheck`, `PutStore` (both files) and `PutCommit` (the
  rows); `Undisturbed` says which rows of other transactions let it commit. The
  collection is `CollectMark` (the digests) and `CollectSweep` (list the files,
  delete), as in `registry_tasks.py:32-51`.
* **SignIn.** One account: its `user_two_step` row, passkeys with their counters,
  unused codes, tickets. `Verify` looks the ticket up before it asks for the row
  lock, `Guard` takes the lock (`holder`), `Accept` or `Reject` commit and release
  it; so several browsers may have found the same ticket. The clock counts TOTP
  steps, and `Window` has the three that are right. `sessions`, `accepted` and
  `tries` are histories.
* **Accounts.** A request reads and decides (`Update`, `Delete`, `Create`,
  `AssignRoles`, ...) and commits later (`CommitUpdate`, ...): nothing it read is
  locked. An administrator is a flag and rows of `user_roles`, which the code
  keeps equal; a commit that meets a row that is gone, or a unique key that is
  taken, fails as a whole. `overlapped` and `unguarded` are histories that say
  when a property makes no promise.
* **Backups.** A job is a request or a beat tick. `Stat`, `UnlinkStale`,
  `CreateLock` and `Unlock` are the four calls on the lock file; `ReadState` and
  `SavedState` read and write the JSON setting as a whole. The clock counts in
  the half hours after which a lock is stale. A restore is `CheckRestore`, a
  whole pre-restore backup, then `Apply`. `clashed`, `overstayed` and `surprised`
  are histories that say when a property makes no promise.
* **Restore.** `Apply` opened up. `db` is the database inside the transaction, an
  action a statement: `FreeDoomed` and `FreeRenamed` make way for names, `WriteRow`
  writes a row after those it refers to, `RemoveDoomed` goes through the tables
  backwards. Tables are numbers in the order of `TABLES`, a row is its unique value,
  the rows it refers to and a mark. `Wanted` is what `_keep_acting_admin`,
  `_keep_acting_admin_two_step` and `_keep_agent_connections` make of the backup.
  `RestoreAssumption` says which table refers to which, as the models do;
  `MCServices` has eight tables.
* **PipelineCompiler, StepContract.** A YAML value is known by its shape (a text,
  a blank text, a fraction, a list of others, ...), the finest distinction any
  check in Python or in Go makes. `Valid`, `Compile` and `AgentAccepts` are pure;
  `CompilerInit` enumerates definitions: a step of every type with every shape of
  value and up to three fields, up to three steps whose labels repeat, every shape
  at the top. `NobodyChecks` names what neither side looks at.
* **GitWebhooks.** A request is the record in `posts`; `Check` (the replay check),
  `Enqueue` (one commit per pipeline) and `Record` are apart, and `Abort` may end
  it between any two. `forgotten` is a history of pruned records.
* **GitProviders.** `there` and `key` are what the provider has, in its order; a
  change puts one to the front, anywhere, or removes it. Each `TakePage` is one
  request for a page, whose size is `min(limit, 100)`; it takes the first ones that
  are still wanted. `disturbed` and `shrunk` observe what changed meanwhile.
* **GitConnections.** A request is `asks[a]`, with the row as its session read it.
  `FlushUpdate` is the UPDATE that keeps the row (`writer`) through the test,
  `Commit` writes only the columns the session changed. POST /test holds nothing
  while it asks; `rotated` observes that a credential came meanwhile.
* **Notifications.** `sends[n]` are the tasks beside build `n`; a send waits for
  the ones begun before it (`MayBegin`), reads the YAML when its turn has come
  (`ReadBlock`), and a message whose time ran out may arrive later (`adrift`).
  The next build may begin before the news of the last one is sent.

## 3. The runs

Bounds of the queue: `MaxBuilds` builds ever created, `MaxRev` revisions,
`MaxFaults` crashes, raised errors and refused sends, `MaxDrops` socket and
heartbeat losses, `MaxSessions` open sockets per agent, `ScanLimit` builds per
pass. `Flaky`, `Toggled`, `Deletable` and `Maintainable` switch groups of
environment actions on. A request is reused for any number of calls, so the number
of requests bounds only how many are in flight at once.

| Run | Instance | Checks | Shows |
|---|---|---|---|
| `queue_requests` | 1 worker, 2 requests, 1 agent, 2 builds; toggling, deletion, maintenance | `TypeOK`, `SingleRun`, `SlotsSpec` | any two requests racing with a worker |
| `queue_faults` | 2 workers, 1 request, 1 flaky agent, 2 builds, 1 fault, 1 drop | `OneExecutor`, `RunningHoldsAgent`, `NoOrphanedReservation` | two workers and their passes at one agent; crashes, exceptions, refused sends |
| `queue_live` | 1 worker, 1 request, 1 agent, 2 builds, 1 fault, no drop, `FairSpec` | `PendingServed`, `LeakHealed` | the beat makes up for missed wakeups and leaked reservations |
| `steps` | 1 build of 2 steps, 2 control sockets, 1 slot; a waiting step with a timeout of 3 polls, 2 agents; `BuildStepsSpec` | `BuildStepsTypeOK`, `SuccessIsReal`, `OrphanMeansFailed`, `StepsInOrder`, `PassedForAReason`, `LoneAnswerIsHeard`, `BuildEnds`, `NoPileUp`, `ServerStepEnds` | lost frames, late frames, timeouts, answers and cancellation at any moment; `BuildRun` is implemented, and the timeouts make up for what is lost |
| `services` | see below | `ServicesTypeOK` and the 22 properties of the ten services | overlapping, repeated and dying requests |
| `queue_crash` | 1 worker, 1 build, 1 fault, `FairSpec` | violates `ServedDespiteCrash` | a reservation of a pending build is never healed |
| `cancelled_final` | 1 worker, 1 request, 1 build | violates `CancelledIsFinal` | a cancellation overwritten by the final commit |
| `coalesce_late` | 1 worker, 2 requests, 2 builds, 2 revisions | violates `CoalescesOnlyPending` | a trigger coalesced into a build that has started |
| `trigger_runs_on` | 2 workers, 2 pipelines, 2 agents with different labels | violates `RoutedByYaml` | a child build on an agent its pipeline rules out |
| `safety_net` | the steps of `steps`, `Spec` | violates `NetAfterQuiet` | a timer of an older step removes the workspace under the build |
| `cancel_reaches` | the same | violates `CancelReachesStep` | a cancel frame that overtakes its step is forgotten |
| `registry_gc` | 2 manifests that share a layer, 1 client | violates `CollectsOnlyGarbage` | the collection deletes the layers of listed images |

What a `violates` run disagrees with is quoted, with its line, under `findings` in
`PROJECT.json`.

**Why the queue's bounds are enough to be interesting.** Single-run hazards need
one pipeline, one build that runs, one that waits and two callers; double dispatch
needs a build with two tasks (its own, and a pass's) and two workers;
clobbering a reservation needs two builds and one agent. A second agent multiplies
the states of `queue_faults` beyond what a run can hold; what two agents could add
(one build reserved twice) is in `RunningHoldsAgentAlways` and
`NoOrphanedReservationAlways`, which are for any number. A reservation leaks with
one fault. No run has more than two builds alive at once per pipeline, which is
what the unique indexes allow.

**Steps.** Two of them are needed for one to follow another (and for a timer of
the first to meet the second), two sockets for a reconnect with the old one still
served. `MaxConns` bounds the sockets; the number of steps bounds everything else.
One build at a time is on the agent, so its semaphore never makes a step wait. A
timeout of three polls gives an answer before, between and after the polls; any
number of answers may be posted.

**Services.** What each instance needs:

* Registry: an upload has no owner, so one client with several requests meets
  itself as two would; `MaxChunks = 2` has chunks repeated and swapped. In
  `registry_gc` a second manifest shares the layer.
* SignIn: two browsers, two tickets and `MaxFailures = 1`: with one wrong answer
  allowed the pause is met at once, and two browsers are at the lock. A ticket
  lives one step of the clock, so that it expires; two sets of codes, so that an
  old list meets a new one; one secret, replaced by removing it.
* Accounts: two persons, one role, one project, and four requests ever begun: four
  are what it takes to make two administrators and have each remove the other.
* Backups: two jobs, three files, three units of clock with one slot, one edit, one
  death. One job holds a lock that goes stale, the other breaks it. Fewer files
  would prune nothing, fewer units make no lock stale. A scheduled run that has more
  than one file to prune is not reached.
* Restore: two users, two passkeys and up to two projects, that swap names, ids and
  owners between what is there and what the backup holds: every configuration of
  `TheContents` in the database with every one in the backup.
* GitProviders: three repositories and pages of up to two, so that a listing has two
  pages and a limit falls on, before and after their edge; one change meanwhile.
* GitConnections: three requests and two credentials: a creation and two updates, or
  an update and a test, on one row.
* GitWebhooks: one delivery posted three times (the original, an overlap, a retry),
  a retention of one record, two pipelines, so that a request may die between them.
* Notifications: two builds, one moment of each while it runs and its end,
  one destination under several events: the next build begins while news of the last
  is unsent.

The generator of new passkeys (`AddPasskey`), of uploads (`Upload`) and the last
chunk of an upload (`CompleteUpload`) take their values from bounded sets; each is
marked in its module.

### Mutants

Each property of a passing run has a mutant of the code that violates it, beside
the definition it mutates.

* Queue: `InsertUnchecked` (the index on pending builds is missing),
  `StartUnconditionally` (the UPDATE does not ask for a pending build),
  `BailKeepsAgent` (an early return forgets the agent), `ReleaseBlindly` (the
  reservation is not compared), `ReconcileOnly` and `DispatchOnly` (half of the
  beat), `StepsEndUnset`.
* Steps: `TimeOutGoesOn`, `TimeOutIfLost`, `TimeOutOrCancelled` (leave the wait in a
  wrong case or a wrong way), `FinishedDefault`, `UntrackExact` (the timer is set at
  exactly zero), `NextStepTooFar`.
* Waits: `JudgeAnybody` (whose answer it is, is not looked at), `JudgeAtOnce` (an
  answer that does not count takes no time), `GetLate` (the poll that finds an answer
  only sees that it is there, and deletes it).
* Services: `FinalizeUnverified` (the digest is believed), `ConsumeUnchecked` (the
  row count of the delete is not looked at), `TotpAgain` (the last step is not
  compared), `GuardUnlocked` (no FOR UPDATE), `FlagOnly` (the role is forgotten),
  `UpdateUncounted` (the other administrators are not counted), `CreateAnyway` (no
  O_EXCL), `ExportIfPossible` (a restore goes on without its backup), `UnlockOnly` (a
  tick forgets to record that it ran), `ReadyAnyway` (maintenance is not asked for),
  `FreeNothing` (renamed rows do not make way), `KeptPasskeyById` (of the backup's
  passkeys only those of the administrator's present id are left out),
  `ReleaseDoomed` (what goes is only renamed),
  `TakeOnePage` (a full page is the last one), `FlushLate` (the row is first written
  at the commit), `NumberedOnce` (the first number is
  tried only), `NumberOrTrue` (a YAML true is a number), `ReplayedBuilt` (only
  deliveries that built are looked for), `CheckAndNote` (noted before it is done),
  `LastBuildFailed` (of any number), `SelectAll` (every event's entries),
  `BeginsAtOnce` (sends do not wait for one another).

The index on running builds is a second lock on the same door: since a pipeline
has one pending build at a time, the sibling check in `Gate` cannot go stale
before `Start`, and TLC finds no violation when `Start` ignores the siblings. The
index on pending builds is the one that everything rests on.

### Fairness

`Progress` is weak fairness of the steps of processes that were not killed (every
wait inside a build's steps has a timeout, so steps end), and strong fairness of
receiving each kind of task: the broker's list is first in, first out, so a task
is received when it has been passed by finitely many others, even though a worker
is only free now and then. `FairSpec` adds strong fairness of the beat: Celery
beat puts `reconcile_and_dispatch` on the same list every 30 seconds. No fairness
is assumed of users, agents and faults.

`BuildStepsSpec` is weak fairness of what some program does next (`Programs`): each
executor (its timeout included: the event loop's timers fire), each goroutine's code
outside the step's own work, the agent's timers, and the loop of a waiting step. One
condition for all is as much as one for each, since each has finitely many moves in a
behaviour, but for the loop, which is alone. Nothing is assumed of the step's
work (`End`), which may run for ever, of the network, of the agent's reconnects, of
the API's handlers, and of anybody who should answer a gate. `BuildEnds` rests on
the timeout alone, `NoPileUp` on the timers alone, `ServerStepEnds` on the loop
counting its own sleeps. `ServicesSpec` has no fairness and no liveness property.

The beat carries more weight than its comment suggests: `PendingServed` fails
without its dispatch pass (mutant `ReconcileOnly`). `execute_build` gives a
pre-claimed agent back and runs no pass when its build is blocked, and a build
can become pending behind the back of the last pass.

`PendingServed` excuses behaviours with a fault or a drop: a worker that dies in
its build's steps leaves it running for ever, and the pipeline's next build with
it, since no watchdog fails such builds.

## 4. The proofs

For all finite or infinite sets of pipelines, agents, workers, requests, steps,
browsers, deliveries and so on, and all bounds that satisfy the assumptions of the
modules (every passing run evaluates those it extends):

| Theorem | States | Assumes |
|---|---|---|
| `TypeCorrect` | `Spec => []TypeOK` | `ConstantsAssumption` |
| `KnownAlways` | `Spec => [](Typed /\ Known)` | |
| `SingleRunAlways` | `Spec => []SingleRun` | |
| `ImplementsSlots` | `Spec => SlotsSpec`, the refinement of `PipelineSlots` | |
| `OneExecutorAlways` | `Spec => []OneExecutor` | |
| `NoOrphanedReservationAlways` | `Spec => []NoOrphanedReservation` | |
| `RunningHoldsAgentAlways` | `Spec => []RunningHoldsAgent` | |
| `OneStepAlways` | `Spec => []OneStepAtATime` | the assumption of `StepTables` |
| `SuccessAlwaysReal` | `Spec => []SuccessIsReal` | |
| `OrphanAlwaysFailed` | `Spec => []OrphanMeansFailed` | |
| `StepsTypeCorrect` | `BuildStepsSpec => []BuildStepsTypeOK` | the same and `StepWaitsAssumption` |
| `StepsStand` | `BuildStepsSpec` implies `StepsInOrder` and the six safety properties of steps and waits | |
| `StepsAlwaysInOrder` | `Spec => StepsInOrder`, the refinement of `BuildRun` | |
| `SuccessAlwaysWhole` | `Spec => []SuccessIsWhole` | |
| `PassedForAReasonAlways` | `StepWaitsSpec => []PassedForAReason` | `StepWaitsAssumption`, `EmptyIsNoAnswer` |
| `LoneAnswerAlways` | `StepWaitsSpec => []LoneAnswerIsHeard` | |
| `TicketBuysOne` | `SignInSpec => []TicketBuysOneSession` | `SignInAssumption` |
| `TriesAlwaysBounded` | `SignInSpec => []TriesAreBounded` | |
| `CodeAlwaysOnce` | `SignInSpec => []CodeWorksOnce` | |
| `SignInTypeCorrect` | `SignInSpec => []SignInTypeOK` | |
| `RedeliveryAlwaysQuiet` | `WebhooksSpec => []RedeliveryIsQuiet` | `WebhooksAssumption` |
| `DuplicateAlwaysDone` | `WebhooksSpec => []DuplicateWasDone` | |
| `WebhooksTypeCorrect` | `WebhooksSpec => []WebhooksTypeOK` | |
| `UntouchedAlwaysListed` | `GitProvidersSpec => []UntouchedIsListed` | `GitProvidersAssumption` |
| `ProvidersTypeCorrect` | `GitProvidersSpec => []GitProvidersTypeOK` | |
| `VerdictAlwaysOnCredential` | `GitConnectionsSpec => []VerdictIsOnCredential` | `GitConnectionsAssumption` |
| `ConnectionsTypeCorrect` | `GitConnectionsSpec => []GitConnectionsTypeOK` | |
| `AdministratorHasBothAlways` | `AccountsSpec => []AdministratorHasBoth` | nothing |
| `AnAdministratorAlwaysRemains` | `AccountsSpec => []AnAdministratorRemains` | `AccountsAssumption` |
| `AccountsTypeCorrect` | `AccountsSpec => []AccountsTypeOK` | |
| `BlobsAlways` | `RegistrySpec => []StoredBlobIsItsDigest` | nothing |
| `RegistryTypeCorrect` | `RegistrySpec => []RegistryTypeOK` | `RegistryAssumption` |
| `OneAtATimeAlways` | `BackupsSpec => []OneAtATime` | `BackupsAssumption`, `NoFileIsNoBackup` |
| `RestoreAlwaysQuiet` | `BackupsSpec => QuietRestore`, an action property | |
| `SlotAlwaysOnce` | `BackupsSpec => []SlotIsServedOnce` | |
| `RestoreAlwaysUndone` | `BackupsSpec => []RestoreCanBeUndone` | |
| `BackupsTypeCorrect` | `BackupsSpec => []BackupsTypeOK` | |
| `EveryStatementAlwaysLegal` | `RestoreSpec => []EveryStatementIsLegal` | `RestoreAssumption` |
| `NeverLockedOut` | `RestoreSpec => []NotLockedOut` | |
| `RestoredAlwaysTheBackup` | `RestoreSpec => []RestoredIsTheBackup` | |
| `RestoreTypeCorrect` | `RestoreSpec => []RestoreTypeOK` | |
| `FixedAlwaysBroken` | `NotificationsSpec => []FixedWasBroken` | `NotificationsAssumption` |
| `AlwaysThroughOneEvent` | `NotificationsSpec => []ToldThroughOneEvent` | |
| `NewsAlwaysInOrder` | `NotificationsSpec => NewsInOrder`, an action property | |
| `NewsTypeCorrect` | `NotificationsSpec => []NotificationsTypeOK` | |
| `ValidStepsAlwaysRun` | `CompilerSpec => []ValidStepIsRunnable` | nothing |
| `LabelsAlwaysDistinct` | `CompilerSpec => []LabelsAreDistinct` | |
| `ServicesImplementEach` | `ServicesSpec` implies the specification of each service that has one initial state | those of the services |
| `ServicesTypeCorrect` | `ServicesSpec => []ServicesTypeOK` | |
| `StorageStands`, `AccessStands`, `GitStands`, `PipelinesStand` | `ServicesSpec` implies the 22 properties of the ten services | |

**The queue.**

1. `Typed` strengthens `TypeOK` with what the control points say of the locals (a
   worker at "commit" has an outcome, an executor has a build). Without it
   an action's primed variables cannot be typed: `job[x]` may be `NoBuild`.
2. `Known` adds that every build some process, task or pass refers to was
   created. Without it `CancelCommit` or `Commit` could write the status of a
   build nobody created.
3. From these, every step of the system moves the rows in one of a few ways
   (`RowSteps`): nothing, insert into a free slot, start, end. `SingleRun` and the
   refinement follow from the shape of those moves: the two writes that are not
   conditional (the cancellation and the final commit) only ever put a terminal
   status, over a status that is not "absent".
4. `OneExecutor` needs that a build some worker has begun is not pending
   (`Begun`), and that only pending builds are started.
5. `NoOrphanedReservation` follows a reservation through its holders: the process
   that claimed it (`ClaimStep`), the task in the broker (`TaskStep`), the worker
   that took the task (`HolderStep`). A holder that lets go without passing it on
   has released it, or a fault is counted.
6. `RunningHoldsAgent` is the other direction, and harder: a holder has the
   reservation. By itself that is not inductive, since one of two holders could
   release what the other still uses. `Reserved` adds that there is one holder
   (`OneHolder`: one task, or one process). It is only true of builds that have not
   ended: a pass that read a build before it ended may reserve an agent for it
   again, while the first holder is still about to release. A claim finds the agent
   idle, so by `Reserved` nobody held it (`ClaimKept`); a release was the only
   holder's (`ReleaseStep`); the reconciliation and the cascade only take
   reservations of builds that are over (`OthersReserve`).

**Steps.** `StepsInv` follows one step from the executor to the agent and back.
`OneCopy`, `NotYet` and `Before` are about where it is: a step not sent is nowhere,
one that was sent is in one place, and the executor moves past it only when the
agent has reported it. So only the step at `cur` can be at work, which is
`OneStepAtATime`. `MailIsTrue`, `FramesAreTrue` and `RowsAreTrue` say that whatever
speaks of a result, however late and on whatever socket, was sent by a step that
ended that way; they give `SuccessIsReal`. `LeftFailed` and `Verdict` give
`OrphanMeansFailed`: the loop is left with a reported step or a failed one, and a
failed one is in no successful build.

That is also what the refinement of `BuildRun` needs: the agent takes up only the step
at `cur` (`NotYet`, `Before`, `Cursor`), the loop goes on only when that one is done
(`MailIsTrue`), and, with `FailedIsLeft`, a failure that was seen is never overwritten,
so that the builds which gave a step up only get more. Every action of `StepDispatch`
is then one of `BuildRun` or none: of the agent's only taking a frame and reporting
are visible, of the executor's the sending is not (a step is out from when it
begins). What `SuccessIsWhole` says follows from `BuildRun` alone (`RunInv`): a build
leaves its loop with all steps done, cancelled, or with one given up.
Since the refinement says more than `OneStepAtATime` and `SuccessIsWhole`, the run
checks the refinement and leaves those two to their theorems.

**Waits.** `WaitsInv` has what the loop read come from a post (`OnlyPosted`), which
the deletion of the key in a second call does not change, and for a lone answer
that it is still in the key while the loop has time left, or has been judged
(`Heard`): the second call deletes what the first one read, unless somebody posted
in between.

**Both kinds of steps.** `BuildSteps` moves one kind and leaves the other, so its
invariant is the conjunction of theirs (`KindsInv`) with what typing needs and no
safety proof did: `RestTyped` (a socket in use is one that is served, the sockets
served are among the opened ones, a timer's count is a number, which takes that a
build has finitely many steps) and `InTime` (a wait that polls has time left).

**Sign-in.** `TicketsInv`: a ticket that bought a session is gone for good; identity
numbers are never reused, and every action that revives a ticket needs one that is
issued. `AttemptsInv`: the observed tries are at most the row's count, a full count
comes with a pause, and while somebody has the lock there is no pause and the count
may grow; `LockIsHeld` is what a missing FOR UPDATE breaks. `CodesInv`: an accepted
code is not in the list and of a set that was made, an accepted TOTP step of the
present secret is at or before `last_step`, also when the secret was confirmed with
it. `MethodsInv` is what the type says and those two need not: a confirmed method has
a secret, codes go with the row that says they were generated, and whoever has the
lock is checking an answer (`LockIsSomebodys`, the converse of `LockIsHeld`).

**Webhooks.** `WebhooksInv` keeps, for each request that came after an answered one,
that its delivery is on record or was forgotten. It is needed from the arrival on,
because the record may be pruned while the request is between its checks.
`WebhooksBounded` has the counts within their limits: the window's is at most that of
the requests, and what pruning leaves is at most `Retention`.

**Registry.** The only write of a blob is behind the comparison of digests, and
everything else removes; the proof is that nothing else writes. `RegistryInv`
types the rest, which is not for each action by itself: a push that overlapped a
deletion commits rows of what is gone unless it is undisturbed. `Referential` says that a
tag of a repository leads to one of its images, that a repository that is gone
has no images, and that a push which is to find its repository, and lost nothing,
finds it.

**Backups.** `BackupsTyped` says which fields a job may have where it is (`Fits`), and
a lemma for each action says what it does to its job (`StatMoves` to `RestoreMoves`,
`BeginMoves`); the four proofs go over these moves and not over the actions again.

* While no lock went stale, a job that holds the lock finds the file there, and is the
  only one (`LockInv`). Each step keeps the lock, gives it back or takes it, and only a
  job that finds no file takes it.
* Only `CheckRestore` makes a restore one that is past its checks, and it finds
  maintenance on and no build; whoever ends maintenance then is noted, and so is a
  build that had been let through (`QuietInv`). Nothing but such a restore changes
  the configuration without an edit.
* A slot is served once because a tick begins only if the latest slot is after the last
  recorded run, and what it wrote is recorded before it is done (`Counted`,
  `Awaiting`). That a write of the setting by somebody else does not take the record
  back needs the copy every writer has read to be right, which it is while there is
  one writer at a time (`OneWriter`); `clashed` notes two.
* `UndoInv` follows what a restore is about to replace: it is in a pre-restore backup
  as soon as the restore may go on (`Kept`), numbers are not used again (`Filed`), and
  what a tick lists for removal is scheduled backups only (`PruneSound`). This also
  covers a file that is doomed while another job removes it.
* For the type, nothing is of a time that has not come or of a configuration there has
  not been: not what a file or a job holds, nor the copy of the setting that a job has
  read and may save over a newer one (`WithinInv`).

**Restore.** `RestoreInv` is a closed form of the database after every statement: a row
that is written is as wanted, any other is as it was, or moved out of the way, or gone,
depending on its table and on where the loop is (`Now`). `Sources` is what the
application guarantees of the two configurations, `Planned` that the plan does not
change, `Progress` that a row is written after those it refers to. `EveryStatementIsLegal`
is then a statement about `Now`: a wanted name clashes with no name that is left,
because the ones that go have given theirs up and the ones that stay and change theirs
have too; what a row refers to is there, because parents are written first and removed
last. `NotLockedOut` and `RestoredIsTheBackup` only look at the last state, where `Now`
is `Wanted`. The type follows from `Now` as well: what is written, freed or kept is a
row of its table (`WantedIsTyped`, `FreedIsTyped`). The proof needs the whole of `RestoreAssumption`: which tables are leaves,
that accounts refer to nothing, that a unique column that is not a string never changes
its value.

**Listings.** `ListingInv`: a repository that stayed and is not listed is on a page to
come (`YetToCome`), because whatever came or moved meanwhile came before it or left it
where it was. A page after which something is left is full (`PageIsFull`), so that the
loop goes on; where something of a page is not taken, the limit was reached
(`TakenFills`). Both count the elements before a place in a sorted finite set
(`FirstOnes`).

**Connections.** `ConnectionsInv`: a request that updates has the row until it commits
(`WriterHolds`), so the credential it judges is the one it writes (`UpdatesOwn`); a
test has read the present credential, or `rotated` says otherwise (`TestsKnow`). That
ids are not used again (`IdsAreOfDone`) keeps a test from judging a successor.

**Accounts.** While one request is at an account, the account's two halves are as the
request read them (`Read`), so that the writes, each decided by what was read, fit
what is there. Two requests at one account make it `overlapped` for good. For the last
administrator that is not enough: `RemainInv` adds that of the requests that take
somebody's access away there is one at a time, that it leaves another administrator
(`AnotherRemains`), and that an account or an invitation of somebody else comes after
the first account (`LaterAccounts`, `LaterInvites`); whatever breaks this is noted in
`unguarded`. `GivenInv` is for the type: a row of the admin role has the number of a
request that has begun, and every role somebody holds exists, since a commit looks
for the role again and a deletion for its holders.

**Notifications.** `NewsInv` is about what of a build is `Told`: what arrived, what was
given up and may still arrive, and what a send has yet to send. The sends of a build
wait for one another, and only the first is under way (`InTurn`); the end is told
last, and once (`EndLast`); nothing told is of a later moment than what waits
(`InOrder`). `Fitting` adds that what is told belongs to its moment, and that a
destination is told each moment through one event: a send selects its entries at
one moment, and each moment is sent once. That a build is told fixed rests on
`Settled`: builds start one at a time, so before one that did not fail all are settled,
and what `previous_build_failed` finds when it is asked is what was there when the
build began. `NewsBounded` keeps the number of a build's tasks: `MaxNews` while it
runs, and one more for its end.

**Compiler.** `Compiled` says that what waits was compiled from a definition that
passed `Valid`; the rest is about the functions, for any definition
(`CompiledIsRunnable`, `CompiledIsDistinct`). The first goes through the step types:
what the agent asks of each is among what `_validate_step` checks. The second is
about `StepNames`, a recursive function over the steps of a stage. There is a
number for a label that is taken, because more numbers are tried than names are
taken (`NumberIsNew`, a pigeonhole). That the function has the value its recursion
says, and that a name differs from every name before it, are inductions over the
step's place, led through the smallest place where it would fail
(`SmallestNumber`), since the rule of induction takes an operator. Only typing
(`KnownTypes`: labels are sequences) is about the definitions `CompilerInit` tries.

**The server.** A step of `ServicesNext` is a step of one service, and the others
stand still (`OneServiceMoves`), so a behaviour of the server is one of each of the
seven services that begin in one state (`ServicesImplementEach`), and their theorems
carry over. The three that begin in many (restore, compiler, listings) idle
unless the behaviour is about them: `FocusInv` has their invariant or that they
idle, and who idles breaks nothing (`IdleIsLegal`).

Every safety property of the passing runs is stated by a theorem. Only
model-checked are the liveness properties (`PendingServed`, `LeakHealed`,
`BuildEnds`, `NoPileUp`, `ServerStepEnds`), since the prover does not deal with
fairness and ENABLED, and the violations, which are one behaviour each.

## 5. What is not modelled

* **Queue.** A build recorded as failed at once because its pipeline's YAML is
  invalid (`build_validation.py`) never enters a slot and is left out of the queue
  (`PipelineCompiler` and `Notifications` have it), as are build numbers and the
  check that a pipeline is enabled (both read in the transaction that inserts).
  Agents are neither registered nor deleted. Errors of the database other than the
  ones named are not modelled.
* **Steps.** Stages (only their order, which is the steps' order), logs and
  artifacts, builds that use several agents, restarts of the agent or of a worker
  in the middle of a build, Docker cleanup. What a step does is I/O.
* **Waits.** Messages to the approvers, the variables handed to a child.
* **Compiler.** Parsing YAML, interpolation of variables and secrets, the wording of
  labels, renaming of references.
* **Webhooks, providers.** Deliveries that are no push to a branch, OAuth, the URLs and
  headers of each provider.
* **Registry.** Manifests pushed by digest alone, quotas and byte counts, anonymous
  pulls of public repositories, pull statistics. Two pushes of one tag may leave the
  file of one and the row of the other; the model has it, and no document promises
  otherwise.
* **Sign-in.** Renaming a passkey, the limit on passkeys, the rate limit by address,
  and what the cryptography computes.
* **Accounts.** Passwords, sessions and refresh tokens, API tokens, permissions
  other than managing users.
* **Backups.** The passphrase, the remote store, the format of the file,
  another schema. `Restore` takes the statements one by one; that a transaction
  commits as a whole is the database's.
* **Notifications.** In-app notifications, the channels' settings, what a message
  says.
* **Whole components.** Live updates, secrets, projects, artifacts, search,
  settings, the MCP server, the AI assistant and the frontend: single
  transactions over rows and files, or calls to other services. Each component's
  status and reason are in `PROJECT.json`.

## 6. The plan

Built: the queue with its proofs; steps and waits with theirs; the ten services,
each with theorems, and the server that runs them. What is left, in this order:

1. A restart of the agent and of a worker in the middle of a build, with what they
   leave behind.
2. The invalid-YAML path in `BuildRequests`, and registering and deleting agents.
3. Quotas and digest-only manifests in `Registry`.

## 7. Running

```
tlc -workers 2 -config queue_requests.cfg MCBuildQueue
tlc -workers 2 -config services.cfg MCServices
tlapm BuildQueueProofs.tla
tlapm ServicesProofs.tla
```
