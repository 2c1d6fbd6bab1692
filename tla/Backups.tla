-------------------------------- MODULE Backups --------------------------------
(* Configuration backups: the lock file that makes backups and restores     *)
(* exclusive, the schedule, retention, and the restore.                     *)
(*                                                                          *)
(* A configuration is a number: an edit makes a new one.  The clock counts  *)
(* in units of the time after which a lock is stale.                        *)
EXTENDS Naturals, FiniteSets

CONSTANTS
  Slots,           (* the moments the schedule calls for *)
  Keep,            (* how many scheduled backups are kept *)
  MaxBackups, MaxEdits, MaxClock, MaxJobs, MaxDeaths,    (* bounds of the model *)
  NoFileThere

ASSUME BackupsAssumption ==
  /\ Keep \in Nat \ {0} /\ MaxClock \in Nat \ {0} /\ Slots \subseteq 1 .. MaxClock
  /\ {MaxBackups, MaxEdits, MaxJobs, MaxDeaths} \subseteq Nat /\ MaxBackups > 0

BackupFiles == [kind : {"manual", "scheduled", "pre-restore", "uploaded"}, holds : Nat]
ASSUME NoFileIsNoBackup == NoFileThere \notin BackupFiles

(* Requests and beat ticks under way, in any process. *)
Jobs == 1 .. MaxJobs

VARIABLES
  clock,
  configuration,   (* the rows that a backup holds *)
  edits,           (* how many configurations there have been *)
  backups,         (* the files, by the order in which they were written *)
  lockFile,        (* when it was made, or NoLock *)
  backup_state,    (* the backup_state setting: when the schedule was saved and last ran *)
  maintenance, build,      (* the switch; a build, the next one as soon as it ended *)
  jobs,            (* what each job is about to do, and what it has read *)
  history          (* what properties refer to *)

backupsVars == <<clock, configuration, edits, backups, lockFile, backup_state,
                 maintenance, build, jobs, history>>
server == <<clock, configuration, edits, maintenance, build>>

Kinds == {"manual", "scheduled", "restore", "delete", "schedule", "retry"}
Unread == [saved |-> 0, last |-> 0]
NoJob == [at |-> "idle", kind |-> "none", of |-> 0, write |-> "none", holds |-> 0,
          ok |-> TRUE, began |-> 0, read |-> Unread, doomed |-> {}]
NoLock == 0

BackupsTypeOK ==
  /\ configuration \in 0 .. edits /\ edits \in 0 .. MaxEdits
  /\ \A n \in 1 .. MaxBackups : backups[n] # NoFileThere =>
       backups[n] \in BackupFiles /\ backups[n].holds <= edits
  /\ lockFile \in 0 .. clock
  /\ backup_state \in [saved : 0 .. MaxClock, last : 0 .. MaxClock]
  /\ build \in {"waits", "handed", "running"}
  /\ \A j \in Jobs : jobs[j].kind \in Kinds \cup {"none"}

(* A backup was made and the schedule saved when the server was set up. *)
BackupsInit ==
  /\ clock = 1 /\ configuration = 0 /\ edits = 0
  /\ backups = [n \in 1 .. MaxBackups |->
                  IF n = 1 THEN [kind |-> "manual", holds |-> 0] ELSE NoFileThere]
  /\ lockFile = NoLock
  /\ backup_state = [saved |-> 1, last |-> 0]
  /\ maintenance = FALSE /\ build = "waits"
  /\ jobs = [j \in Jobs |-> NoJob]
  /\ history = [begun |-> 0, written |-> 1, deaths |-> 0, replaced |-> {}, discarded |-> {},
                served |-> [s \in Slots |-> 0],
                clashed |-> FALSE, overstayed |-> FALSE, surprised |-> FALSE]

-----------------------------------------------------------------------------
(* Jobs *)

Latest(S) == CHOOSE t \in S : \A u \in S : u <= t
Go(j, at) == jobs' = [jobs EXCEPT ![j].at = at]
Finish(j) == jobs' = [jobs EXCEPT ![j] = NoJob]
Busy(j) == jobs[j].at # "idle"
Written == {n \in 1 .. MaxBackups : backups[n] # NoFileThere}

(* The moment a job began is only used by the schedule. *)
NewJob(j, kind, at, of) ==
  /\ ~Busy(j) /\ (\A i \in 1 .. j - 1 : Busy(i)) /\ history.begun < MaxJobs
  /\ jobs' = [jobs EXCEPT ![j] =
       [NoJob EXCEPT !.kind = kind, !.at = at, !.of = of, !.write = kind,
          !.began = IF kind \in {"schedule", "scheduled"} THEN clock ELSE 0]]
  /\ UNCHANGED <<server, backups, lockFile, backup_state>>

Started(clash) ==
  history' = [history EXCEPT !.begun = @ + 1, !.clashed = @ \/ clash]

(* create_backup, restore_backup of a file that is there, and the requests   *)
(* that take no lock: a changed schedule, another try at the remote copy, a *)
(* deletion.                                                                *)
BeginManual(j) == NewJob(j, "manual", "stat", 0) /\ Started(FALSE)
BeginRestore(j) ==
  \E n \in Written : NewJob(j, "restore", "stat", backups[n].holds) /\ Started(FALSE)
BeginSettings(j) ==
  \E k \in {"schedule", "retry"} : NewJob(j, k, "state", 0) /\ Started(FALSE)
BeginDelete(j) ==
  \E n \in Written : NewJob(j, "delete", "remove", n) /\ Started(FALSE)

(* latest_slot and is_due: a slot has passed after the later of the last    *)
(* run and the saving of the schedule.                                      *)
IsDue(since) == \E s \in Slots : s > since /\ s <= clock

(* A tick of the beat; a tick at which nothing is due ends. *)
BeginTick(j) ==
  /\ IsDue(Latest({backup_state.saved, backup_state.last}))
  /\ NewJob(j, "scheduled", "stat", 0)
  /\ Started(\E i \in Jobs : Busy(i) /\ jobs[i].kind = "scheduled")

-----------------------------------------------------------------------------
(* The lock *)

(* A lock that is half an hour old was left by a process that died, or is   *)
(* held by one that takes its time.                                         *)
Stat(j) ==
  /\ jobs[j].at = "stat"
  /\ Go(j, IF lockFile # NoLock /\ clock - lockFile > 1 THEN "unlink" ELSE "create")
  /\ UNCHANGED <<server, backups, lockFile, backup_state, history>>

UnlinkStale(j) ==
  /\ jobs[j].at = "unlink"
  /\ lockFile' = NoLock /\ Go(j, "create")
  /\ history' = [history EXCEPT !.overstayed = TRUE]
  /\ UNCHANGED <<server, backups, backup_state>>

Locked(j) ==
  /\ lockFile' = clock
  /\ Go(j, IF jobs[j].kind = "restore" THEN "check" ELSE "export")

(* Mutant of CreateLock: the file is looked for in stat and then written. *)
CreateAnyway(j) ==
  /\ jobs[j].at = "create"
  /\ Locked(j)
  /\ UNCHANGED <<server, backups, backup_state, history>>

(* O_EXCL: the one that finds the file gives up, a tick without recording   *)
(* that it ran.                                                             *)
CreateLock(j) ==
  /\ jobs[j].at = "create"
  /\ IF lockFile = NoLock THEN Locked(j) ELSE Finish(j) /\ UNCHANGED lockFile
  /\ UNCHANGED <<server, backups, backup_state, history>>

Holds(j) == jobs[j].at \in {"check", "export", "write", "apply", "unlock"}
              \/ (jobs[j].at \in {"state", "save"} /\ jobs[j].write = "remote")

(* Mutant of Unlock: a tick does not record that it ran. *)
UnlockOnly(j) ==
  /\ jobs[j].at = "unlock"
  /\ lockFile' = NoLock /\ Finish(j)
  /\ UNCHANGED <<server, backups, backup_state, history>>

(* A tick then records how it went; the others are done. *)
Unlock(j) ==
  /\ jobs[j].at = "unlock"
  /\ lockFile' = NoLock
  /\ IF jobs[j].kind = "scheduled"
     THEN jobs' = [jobs EXCEPT ![j].at = "state", ![j].write = "last"]
     ELSE Finish(j)
  /\ UNCHANGED <<server, backups, backup_state, history>>

-----------------------------------------------------------------------------
(* Making a backup *)

(* Mutant of Export: a restore goes on when its backup could not be made. *)
ExportIfPossible(j) ==
  /\ jobs[j].at = "export"
  /\ \/ jobs' = [jobs EXCEPT ![j].at = "write", ![j].holds = configuration]
     \/ jobs' = [jobs EXCEPT ![j].at = IF jobs[j].kind = "restore" THEN "apply" ELSE "unlock",
                              ![j].holds = configuration]
  /\ UNCHANGED <<server, backups, lockFile, backup_state, history>>

(* The tables are read in one snapshot; without a passphrase, nothing is.   *)
Export(j) ==
  /\ jobs[j].at = "export"
  /\ \/ jobs' = [jobs EXCEPT ![j].at = "write", ![j].holds = configuration]
     \/ jobs' = [jobs EXCEPT ![j].at = "unlock", ![j].ok = FALSE]
  /\ UNCHANGED <<server, backups, lockFile, backup_state, history>>

AfterBackup(kind) == IF kind = "restore" THEN "apply" ELSE "unlock"

(* A new name is one that is not taken; names sort by the time they carry.  *)
Keeping(kind, config) ==
  /\ history.written < MaxBackups
  /\ backups' = [backups EXCEPT ![history.written + 1] = [kind |-> kind, holds |-> config]]

ServedSlot(j) == Latest({s \in Slots : s <= jobs[j].began})
Serving(j) ==
  IF jobs[j].kind = "scheduled" /\ ~history.clashed
  THEN [history.served EXCEPT ![ServedSlot(j)] = @ + 1] ELSE history.served

(* The file appears when it is complete.  With the remote copy on, it is    *)
(* uploaded and the outcome recorded.                                       *)
WriteBackup(j) ==
  /\ jobs[j].at = "write"
  /\ Keeping(IF jobs[j].kind = "restore" THEN "pre-restore" ELSE jobs[j].kind, jobs[j].holds)
  /\ \/ Go(j, AfterBackup(jobs[j].kind))
     \/ jobs' = [jobs EXCEPT ![j].at = "state", ![j].write = "remote"]
  /\ history' = [history EXCEPT !.written = @ + 1, !.served = Serving(j)]
  /\ UNCHANGED <<server, lockFile, backup_state>>

(* store_upload: no lock; any configuration there has been.  Its file meets *)
(* a job's only in being named after it: that it comes first is a bound.    *)
Upload ==
  /\ history.written = 1 /\ \A j \in Jobs : ~Busy(j)
  /\ \E c \in 0 .. edits : Keeping("uploaded", c)
  /\ history' = [history EXCEPT !.written = @ + 1]
  /\ UNCHANGED <<server, lockFile, backup_state, jobs>>

-----------------------------------------------------------------------------
(* The backup_state setting: one JSON value, read and written back as a     *)
(* whole by everybody who changes a part of it.                             *)

Saving(i) == jobs[i].at = "save"

ReadState(j) ==
  /\ jobs[j].at = "state"
  /\ jobs' = [jobs EXCEPT ![j].at = "save", ![j].read = backup_state]
  /\ history' = [history EXCEPT !.clashed = @ \/ \E i \in Jobs : Saving(i)]
  /\ UNCHANGED <<server, backups, lockFile, backup_state>>

SavedState(j) ==
  CASE jobs[j].write = "schedule" -> [jobs[j].read EXCEPT !.saved = jobs[j].began]
    [] jobs[j].write = "last" -> [jobs[j].read EXCEPT !.last = jobs[j].began]
    [] OTHER -> jobs[j].read

(* The scheduled backups beyond the newest Keep. *)
ToPrune ==
  LET Scheduled == {n \in Written : backups[n].kind = "scheduled"}
  IN  {n \in Scheduled : Cardinality({m \in Scheduled : m > n}) >= Keep}

(* A job goes on: a tick that made its backup lists what to prune, and one  *)
(* that prunes comes to the next.                                           *)
SaveState(j) ==
  LET job == jobs[j] IN
  /\ Saving(j)
  /\ backup_state' = SavedState(j)
  /\ CASE job.write = "remote" ->
            jobs' = [jobs EXCEPT ![j].at = AfterBackup(job.kind), ![j].read = Unread]
       [] job.write = "last" /\ job.ok /\ ToPrune # {} ->
            jobs' = [jobs EXCEPT ![j].at = "remove", ![j].write = "scheduled",
                                 ![j].doomed = ToPrune, ![j].read = Unread]
       [] job.write = "scheduled" /\ job.doomed # {} ->
            jobs' = [jobs EXCEPT ![j].at = "remove", ![j].read = Unread]
       [] OTHER -> Finish(j)
  /\ UNCHANGED <<server, backups, lockFile, history>>

(* _remove, of the named backup or of the next one to prune: the file goes, *)
(* then its remote status.  One that is gone already is skipped.            *)
Remove(j) ==
  LET job == jobs[j]
      n == IF job.kind = "delete" THEN job.of ELSE Latest(job.doomed)
      left == job.doomed \ {n} IN
  /\ job.at = "remove"
  /\ IF n \in Written
     THEN /\ backups' = [backups EXCEPT ![n] = NoFileThere]
          /\ jobs' = [jobs EXCEPT ![j].at = "state", ![j].doomed = left]
          /\ history' = IF job.kind = "delete" /\ backups[n].kind = "pre-restore"
               THEN [history EXCEPT !.discarded = @ \cup {backups[n].holds}] ELSE history
     ELSE /\ IF left # {} THEN jobs' = [jobs EXCEPT ![j].doomed = left] ELSE Finish(j)
          /\ UNCHANGED <<backups, history>>
  /\ UNCHANGED <<server, lockFile, backup_state>>

-----------------------------------------------------------------------------
(* Restoring *)

(* Mutant of Ready: maintenance is not asked for. *)
ReadyAnyway == build # "running"

(* restore_checks, but for the schema. *)
Ready == maintenance /\ build # "running"

(* Restores past their checks, until they are committed or given up.        *)
Restoring ==
  {j \in Jobs : jobs[j].kind = "restore" /\ jobs[j].at \notin {"check", "unlock"} /\ Holds(j)}

(* The checks, and opening the file, which was read before the lock:        *)
(* another schema or a wrong passphrase refuses the restore as well.        *)
CheckRestore(j) ==
  /\ jobs[j].at = "check"
  /\ \/ Ready /\ Go(j, "export")
        /\ history' = [history EXCEPT !.surprised = @ \/ build = "handed"]
     \/ Go(j, "unlock") /\ UNCHANGED history
  /\ UNCHANGED <<server, backups, lockFile, backup_state>>

(* apply_configuration and its commit, or its rollback.  Builds that wait   *)
(* are cancelled.  When it is committed, what the pre-restore backup holds has  *)
(* been replaced, unless somebody edited since.                             *)
Apply(j) ==
  /\ jobs[j].at = "apply"
  /\ Go(j, "unlock")
  /\ \/ /\ configuration' = jobs[j].of
        /\ build' = IF build = "running" THEN build ELSE "waits"
        /\ history' = IF configuration = jobs[j].holds
             THEN [history EXCEPT !.replaced = @ \cup {configuration}] ELSE history
     \/ UNCHANGED <<configuration, build, history>>
  /\ UNCHANGED <<clock, edits, maintenance, backups, lockFile, backup_state>>

-----------------------------------------------------------------------------
(* Around the backups *)

jobsRest == <<clock, backups, lockFile, backup_state, jobs>>

Edit ==
  /\ edits < MaxEdits
  /\ edits' = edits + 1 /\ configuration' = edits + 1
  /\ UNCHANGED <<jobsRest, maintenance, build, history>>

SetMaintenance ==
  /\ maintenance' = ~maintenance
  /\ history' = [history EXCEPT !.surprised = @ \/ (maintenance /\ Restoring # {})]
  /\ UNCHANGED <<jobsRest, configuration, edits, build>>

(* A build that waits passes the look at the maintenance switch, starts and *)
(* ends.                                                                    *)
BuildMoves ==
  /\ \/ build = "waits" /\ ~maintenance /\ build' = "handed"
     \/ build = "handed" /\ build' = "running"
     \/ build = "running" /\ build' = "waits"
  /\ UNCHANGED <<jobsRest, configuration, edits, maintenance, history>>

(* A process dies and leaves its lock. *)
Die(j) ==
  /\ Busy(j) /\ history.deaths < MaxDeaths
  /\ Finish(j)
  /\ history' = [history EXCEPT !.deaths = @ + 1, !.clashed = TRUE]
  /\ UNCHANGED <<server, backups, lockFile, backup_state>>

PassTime ==
  /\ clock < MaxClock
  /\ clock' = clock + 1
  /\ UNCHANGED <<configuration, edits, maintenance, build, backups, lockFile,
                 backup_state, jobs, history>>

BackupsNext ==
  \/ \E j \in Jobs :
       \/ BeginManual(j) \/ BeginRestore(j) \/ BeginSettings(j) \/ BeginDelete(j)
       \/ BeginTick(j) \/ Stat(j) \/ UnlinkStale(j) \/ CreateLock(j) \/ Unlock(j)
       \/ Export(j) \/ WriteBackup(j) \/ ReadState(j) \/ SaveState(j) \/ Remove(j)
       \/ CheckRestore(j) \/ Apply(j) \/ Die(j)
  \/ Upload \/ Edit \/ SetMaintenance \/ BuildMoves \/ PassTime

BackupsSpec == BackupsInit /\ [][BackupsNext]_backupsVars

-----------------------------------------------------------------------------
(* Unless a lock went stale, no two backups or restores are under way at    *)
(* once: neither reads a configuration the other is about to replace.       *)
OneAtATime ==
  ~history.overstayed => Cardinality({j \in Jobs : Holds(j)}) <= 1

(* Every configuration a restore replaced is kept in a pre-restore backup,  *)
(* however many scheduled backups are pruned, until somebody deletes it.    *)
RestoreCanBeUndone ==
  \A c \in history.replaced \ history.discarded :
    \E n \in Written : backups[n].kind = "pre-restore" /\ backups[n].holds = c

(* A slot of the schedule gets one backup, unless a tick was killed, two    *)
(* ticks overlapped, or two writers of the setting did.                     *)
SlotIsServedOnce ==
  ~history.clashed => \A s \in Slots : history.served[s] <= 1

(* A restore is applied under a running build only if maintenance was ended *)
(* meanwhile, or the build had been let through before it was turned on.    *)
QuietRestore ==
  [][configuration' # configuration /\ edits' = edits /\ build = "running"
       => history.surprised]_backupsVars
=============================================================================
