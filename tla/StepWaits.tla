------------------------------ MODULE StepWaits ------------------------------
(* A step that waits on the server: wait_webhook and wait_input poll a      *)
(* Redis key that an endpoint writes, trigger_pipeline polls the build it   *)
(* started.  All three count their own sleeps against the timeout.          *)
EXTENDS Naturals

CONSTANTS
  WaitTimeout,     (* the step's timeout, in polls *)
  Agents,          (* build agents; the waiting build holds one *)
  Empty

ASSUME StepWaitsAssumption ==
  WaitTimeout \in Nat \ {0} /\ Agents \in Nat \ {0}

VARIABLES
  waiting,         (* the waiting step: its kind, where it is, what it read *)
  gate,            (* the gate's key in Redis *)
  posts,           (* history: the answers the endpoint has accepted *)
  cancelFlag,      (* the build's cancel flag in Redis *)
  wait_status,     (* what the row of the step says *)
  child            (* the status of the triggered build *)

stepWaitsVars == <<waiting, gate, posts, cancelFlag, wait_status, child>>

Gates == {"wait_webhook", "wait_input"}
Final == {"success", "failed", "cancelled"}

(* A webhook's payload matches or not; a person is allowed to approve or    *)
(* not, and approves or rejects.                                            *)
PostedAnswers == [counts : BOOLEAN, approved : BOOLEAN]
Right(a) == a.counts /\ a.approved
ASSUME EmptyIsNoAnswer == Empty \notin PostedAnswers

StepWaitsTypeOK ==
  /\ waiting.kind \in Gates \cup {"trigger_pipeline"}
  /\ waiting.at \in {"start", "check", "get", "judge", "sleep", "done"}
  /\ waiting.elapsed \in 0 .. WaitTimeout
  /\ (waiting.at = "done") = (waiting.outcome # "none")
  /\ gate \in PostedAnswers \cup {Empty}
  /\ wait_status \in {"running"} \cup Final
  /\ waiting.at = "judge" => waiting.read # Empty

StepWaitsInit ==
  /\ \E k \in Gates \cup {"trigger_pipeline"} :
       waiting = [kind |-> k, at |-> "start", elapsed |-> 0, read |-> Empty,
                  outcome |-> "none"]
  /\ gate = Empty /\ posts = [all |-> {}, several |-> FALSE]
  /\ cancelFlag = FALSE
  /\ wait_status = "running" /\ child = "none"

-----------------------------------------------------------------------------
(* The step *)

GoTo(at) == waiting' = [waiting EXCEPT !.at = at]
Decide(outcome) == waiting' = [waiting EXCEPT !.at = "done", !.outcome = outcome]
Gated == waiting.kind \in Gates

(* The gate's token is stored, the approvers are notified; or the target    *)
(* pipeline is missing, disabled or invalid, or its build is made, or the   *)
(* build that waits there already is joined.                                *)
StartWait ==
  /\ waiting.at = "start"
  /\ \/ Gated /\ GoTo("check") /\ UNCHANGED child
     \/ ~Gated /\ Decide("failed") /\ UNCHANGED child
     \/ ~Gated /\ GoTo("check") /\ child' = "pending"
  /\ UNCHANGED <<gate, posts, cancelFlag, wait_status>>

(* Only the gates look at the cancel flag. *)
Check ==
  /\ waiting.at = "check"
  /\ IF waiting.elapsed >= WaitTimeout THEN Decide("failed")
     ELSE IF Gated /\ cancelFlag THEN Decide("cancelled") ELSE GoTo("get")
  /\ UNCHANGED <<gate, posts, cancelFlag, wait_status, child>>

(* Mutant of Get: the poll that finds an answer only sees that it is there. *)
GetLate ==
  /\ waiting.at = "get" /\ Gated
  /\ waiting' = [waiting EXCEPT !.read = gate, !.at = "sleep"]
  /\ gate' = Empty
  /\ UNCHANGED <<posts, cancelFlag, wait_status, child>>

Get ==
  /\ waiting.at = "get" /\ Gated
  /\ waiting' = [waiting EXCEPT !.read = gate,
                   !.at = IF gate = Empty THEN "sleep" ELSE "judge"]
  /\ UNCHANGED <<gate, posts, cancelFlag, wait_status, child>>

GetChild ==
  /\ waiting.at = "get" /\ ~Gated
  /\ IF child \in Final THEN Decide(IF child = "success" THEN "success" ELSE "failed")
     ELSE GoTo("sleep")
  /\ UNCHANGED <<gate, posts, cancelFlag, wait_status, child>>

(* Mutant of Judge: whose answer it is, is not looked at. *)
JudgeAnybody ==
  /\ waiting.at = "judge"
  /\ gate' = Empty
  /\ Decide(IF waiting.read.approved THEN "success" ELSE "failed")
  /\ UNCHANGED <<posts, cancelFlag, wait_status, child>>

(* Mutant of Judge: after an answer that does not count no time passes. *)
JudgeAtOnce ==
  /\ waiting.at = "judge"
  /\ gate' = Empty
  /\ IF waiting.read.counts
     THEN Decide(IF waiting.read.approved THEN "success" ELSE "failed")
     ELSE GoTo("check")
  /\ UNCHANGED <<posts, cancelFlag, wait_status, child>>

(* The key is deleted in a call of its own, whatever it holds by then.  An  *)
(* answer that does not count is waited out like no answer.                 *)
Judge ==
  /\ waiting.at = "judge"
  /\ gate' = Empty
  /\ IF waiting.read.counts
     THEN Decide(IF waiting.read.approved THEN "success" ELSE "failed")
     ELSE GoTo("sleep")
  /\ UNCHANGED <<posts, cancelFlag, wait_status, child>>

Sleep ==
  /\ waiting.at = "sleep"
  /\ waiting' = [waiting EXCEPT !.at = "check", !.elapsed = @ + 1]
  /\ UNCHANGED <<gate, posts, cancelFlag, wait_status, child>>

(* The executor writes the result to the row of the step. *)
SaveResult ==
  /\ waiting.at = "done" /\ wait_status = "running"
  /\ wait_status' = waiting.outcome
  /\ UNCHANGED <<waiting, gate, posts, cancelFlag, child>>

-----------------------------------------------------------------------------
(* Everybody else *)

(* The endpoints accept an answer while the row says that the step runs:    *)
(* the last one before a poll is the one the step reads.                    *)
Post ==
  /\ Gated /\ wait_status = "running" /\ waiting.at # "start"
  /\ \E a \in PostedAnswers :
       /\ waiting.kind = "wait_webhook" => a.approved
       /\ gate' = a
       /\ posts' = [several |-> posts.all # {},
                    all |-> posts.all \cup {[answer |-> a, in_time |->
                      waiting.at # "done" /\ waiting.elapsed + 1 < WaitTimeout]}]
  /\ UNCHANGED <<waiting, cancelFlag, wait_status, child>>

CancelBuild ==
  /\ ~cancelFlag /\ cancelFlag' = TRUE
  /\ UNCHANGED <<waiting, gate, posts, wait_status, child>>

(* The triggered build needs an agent of its own. *)
ChildStarts ==
  /\ child = "pending" /\ (Agents > 1 \/ wait_status # "running")
  /\ child' = "running"
  /\ UNCHANGED <<waiting, gate, posts, cancelFlag, wait_status>>

ChildEnds ==
  /\ \/ child = "running" /\ child' \in Final
     \/ child = "pending" /\ child' = "cancelled"
  /\ UNCHANGED <<waiting, gate, posts, cancelFlag, wait_status>>

StepMoves == StartWait \/ Check \/ Get \/ GetChild \/ Judge \/ Sleep \/ SaveResult
StepWaitsNext == StepMoves \/ Post \/ CancelBuild \/ ChildStarts \/ ChildEnds

(* The worker goes on with the step; nobody has to answer. *)
StepWaitsSpec ==
  StepWaitsInit /\ [][StepWaitsNext]_stepWaitsVars /\ WF_stepWaitsVars(StepMoves)

-----------------------------------------------------------------------------
(* A build passes a gate only on an answer that counts and approves, and a  *)
(* trigger step only with the build it waits for.                           *)
PassedForAReason ==
  waiting.outcome = "success" =>
    IF Gated THEN \E p \in posts.all : Right(p.answer) ELSE child = "success"

(* Whatever is posted and however often, the step ends.                     *)
WaitEnds == <>(wait_status \in Final)

(* An answer that counts, posted in time and by itself, is not lost.        *)
LoneAnswerIsHeard ==
  waiting.outcome # "none" /\ ~cancelFlag /\ ~posts.several =>
    \A p \in posts.all : p.in_time /\ p.answer.counts =>
      waiting.outcome = (IF p.answer.approved THEN "success" ELSE "failed")
=============================================================================
