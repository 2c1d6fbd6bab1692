----------------------------- MODULE Notifications -----------------------------
(* What a pipeline tells its channels about its builds: the events of its   *)
(* YAML, the sends that start while a build runs and wait for one another,  *)
(* and those at its end, which come when the next build may have begun.     *)
EXTENDS Naturals, Sequences, FiniteSets

CONSTANTS
  Branches,
  Destinations,    (* a channel and a recipient *)
  Blocks,          (* the notifications blocks the YAML may have: what each  *)
                   (* event lists                                            *)
  MaxBuilds, MaxNews    (* bounds: builds, and moments of one that are told *)

VARIABLES
  builds,     (* the builds of one pipeline, by number *)
  sends,      (* per build the tasks not done yet, in the order they began *)
  block,      (* the block of the YAML as stored now *)
  adrift,     (* messages whose time ran out, and that may yet arrive *)
  heard       (* per build: what arrived *)

notificationsVars == <<builds, sends, block, adrift, heard>>

EventNames == {"on_start", "on_waiting", "on_success", "on_fixed",
               "on_failure", "on_cancelled", "on_complete"}
Moments == <<"started", "waiting", "ended">>
RankOf(moment) == CHOOSE i \in 1 .. 3 : Moments[i] = moment

ASSUME NotificationsAssumption ==
  /\ Blocks \subseteq [EventNames -> SUBSET Destinations]
  /\ [e \in EventNames |-> {}] \in Blocks
  /\ MaxBuilds \in Nat /\ MaxNews \in Nat \ {0}

Runs(n) == builds[n].status = "running"
Outcomes(upTo, branch) ==
  {m \in DOMAIN builds : m < upTo /\ builds[m].branch = branch
                           /\ builds[m].status \in {"success", "failed"}}
LastOutcome(numbers) ==
  IF numbers = {} THEN "none"
  ELSE builds[CHOOSE m \in numbers : \A k \in numbers : k <= m].status

-----------------------------------------------------------------------------
(* Which entries a moment calls for *)

(* Mutant of PreviousBuildFailed: the last outcome there is, of any number. *)
LastBuildFailed(n) ==
  LastOutcome(Outcomes(MaxBuilds + 1, builds[n].branch) \ {n}) = "failed"

(* previous_build_failed *)
PreviousBuildFailed(n) == LastOutcome(Outcomes(n, builds[n].branch)) = "failed"

(* matching_events *)
MatchingEvents(n, moment) ==
  IF moment = "started" THEN <<"on_start">>
  ELSE IF moment = "waiting" THEN <<"on_waiting">>
  ELSE CASE builds[n].status = "success" ->
              (IF PreviousBuildFailed(n) THEN <<"on_fixed">> ELSE <<>>)
                \o <<"on_success", "on_complete">>
         [] builds[n].status = "failed" -> <<"on_failure", "on_complete">>
         [] OTHER -> <<"on_cancelled", "on_complete">>

(* Mutant of SelectNotifications: every event's entries are sent. *)
SelectAll(events) ==
  UNION {{<<events[i], d>> : d \in block[events[i]]} : i \in DOMAIN events}

(* select_notifications: a destination hears of the first event that lists  *)
(* it, the most specific.                                                   *)
SelectNotifications(events) ==
  LET first(i) == block[events[i]] \ UNION {block[events[j]] : j \in 1 .. i - 1}
  IN  UNION {{<<events[i], d>> : d \in first(i)} : i \in DOMAIN events}

-----------------------------------------------------------------------------
Task(moment) == [moment |-> moment, state |-> "begun", todo |-> {}]
Tell(n, moment) == [sends EXCEPT ![n] = Append(@, Task(moment))]

(* A build begins when the one before has ended; its number was given when  *)
(* it was asked for.  "was" is what had become of the branch by then.       *)
StartBuild(branch) ==
  LET n == Len(builds) + 1 IN
  /\ n <= MaxBuilds
  /\ ~\E m \in DOMAIN builds : Runs(m)
  /\ builds' = Append(builds, [branch |-> branch, status |-> "running",
                               was |-> LastOutcome(Outcomes(n, branch))])
  /\ sends' = IF block["on_start"] # {} THEN Tell(n, "started") ELSE sends
  /\ UNCHANGED <<block, adrift, heard>>

(* A build whose YAML is invalid fails at once, also while another runs.    *)
(* Nothing is sent for it.                                                  *)
RecordInvalid(branch) ==
  LET n == Len(builds) + 1 IN
  /\ n <= MaxBuilds
  /\ builds' = Append(builds, [branch |-> branch, status |-> "failed",
                               was |-> LastOutcome(Outcomes(n, branch))])
  /\ UNCHANGED <<sends, block, adrift, heard>>

(* A wait_input step. *)
WaitForInput(n) ==
  /\ Runs(n) /\ Len(sends[n]) < MaxNews
  /\ block["on_waiting"] # {}
  /\ sends' = Tell(n, "waiting")
  /\ UNCHANGED <<builds, block, adrift, heard>>

(* The final commit; the agent is released and the next build dispatched    *)
(* before the outcome is told.                                              *)
EndBuild(n) ==
  /\ Runs(n)
  /\ \E status \in {"success", "failed", "cancelled"} :
       builds' = [builds EXCEPT ![n].status = status]
  /\ sends' = Tell(n, "ended")
  /\ UNCHANGED <<block, adrift, heard>>

(* Mutant of MayBegin: a send does not wait for the ones before it. *)
BeginsAtOnce(n, k) == TRUE

(* The sends of a build that began earlier are waited for. *)
MayBegin(n, k) == k = 1

(* send_build_notifications reads the YAML when its turn has come. *)
ReadBlock(n, k) ==
  /\ sends[n][k].state = "begun" /\ MayBegin(n, k)
  /\ sends' = [sends EXCEPT ![n][k].state = "sending",
       ![n][k].todo = SelectNotifications(MatchingEvents(n, sends[n][k].moment))]
  /\ UNCHANGED <<builds, block, adrift, heard>>

Message(n, k, e) == [moment |-> sends[n][k].moment, event |-> e[1], to |-> e[2]]

(* One entry after the other: sent, or the channel is missing, disabled or  *)
(* refuses, or its time runs out and it may arrive later all the same.      *)
Send(n, k) ==
  /\ sends[n][k].state = "sending"
  /\ \E e \in sends[n][k].todo :
       /\ sends' = [sends EXCEPT ![n][k].todo = @ \ {e}]
       /\ \/ /\ heard' = [heard EXCEPT ![n] = @ \cup {Message(n, k, e)}]
             /\ UNCHANGED adrift
          \/ UNCHANGED <<heard, adrift>>
          \/ /\ adrift' = adrift \cup {<<n, Message(n, k, e)>>}
             /\ UNCHANGED heard
  /\ UNCHANGED <<builds, block>>

TasksWithout(s, k) == [i \in 1 .. Len(s) - 1 |-> s[IF i < k THEN i ELSE i + 1]]
Sent(n, k) ==
  /\ sends[n][k].state = "sending" /\ sends[n][k].todo = {}
  /\ sends' = [sends EXCEPT ![n] = TasksWithout(@, k)]
  /\ UNCHANGED <<builds, block, adrift, heard>>

ArrivesLate ==
  \E late \in adrift :
    /\ adrift' = adrift \ {late}
    /\ heard' = [heard EXCEPT ![late[1]] = @ \cup {late[2]}]
    /\ UNCHANGED <<builds, sends, block>>

(* The worker dies: what it had to send is not sent by anybody. *)
LoseSends(n) ==
  /\ sends[n] # <<>> /\ ~Runs(n)
  /\ sends' = [sends EXCEPT ![n] = <<>>]
  /\ UNCHANGED <<builds, block, adrift, heard>>

EditPipeline ==
  /\ block' \in Blocks \ {block}
  /\ UNCHANGED <<builds, sends, adrift, heard>>

NotificationsNext ==
  \/ \E branch \in Branches : StartBuild(branch) \/ RecordInvalid(branch)
  \/ \E n \in DOMAIN builds :
       WaitForInput(n) \/ EndBuild(n) \/ LoseSends(n)
         \/ \E k \in DOMAIN sends[n] : ReadBlock(n, k) \/ Send(n, k) \/ Sent(n, k)
  \/ ArrivesLate \/ EditPipeline

NotificationsInit ==
  /\ builds = <<>> /\ sends = [n \in 1 .. MaxBuilds |-> <<>>]
  /\ block = [e \in EventNames |-> {}]
  /\ adrift = {} /\ heard = [n \in 1 .. MaxBuilds |-> {}]

NotificationsSpec == NotificationsInit /\ [][NotificationsNext]_notificationsVars

NotificationsTypeOK ==
  /\ \A n \in DOMAIN builds :
       builds[n] \in [branch : Branches,
                      status : {"running", "success", "failed", "cancelled"},
                      was : {"none", "success", "failed"}]
  /\ \A n \in 1 .. MaxBuilds : Len(sends[n]) <= MaxNews + 1
  /\ block \in Blocks

-----------------------------------------------------------------------------
(* A build is told fixed only if its branch was broken when it began, though*)
(* the question is asked later, when other builds have ended.               *)
FixedWasBroken ==
  \A n \in DOMAIN builds : \A m \in heard[n] :
    m.event = "on_fixed" => builds[n].was = "failed"

(* News of a build arrives in the order it happened, but for messages whose *)
(* time had run out.                                                        *)
NewsInOrder ==
  [][\A n \in DOMAIN heard : \A m \in heard'[n] \ heard[n] :
       <<n, m>> \in adrift \/ \A h \in heard[n] : RankOf(h.moment) <= RankOf(m.moment)]_notificationsVars

(* A destination hears of one moment of a build through one event, though   *)
(* several of them list it.                                                 *)
ToldThroughOneEvent ==
  \A n \in DOMAIN heard : \A l, m \in heard[n] :
    l.moment = m.moment /\ l.to = m.to => l.event = m.event
=============================================================================
