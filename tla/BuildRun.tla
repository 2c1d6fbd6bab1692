------------------------------ MODULE BuildRun -------------------------------
(*****************************************************************************)
(* What a build promises about its steps, without sockets, queues, results   *)
(* or agents: they are carried out in their order, each at most once; the    *)
(* next begins when the one before is done; a build that gives one up fails, *)
(* though that one may still be taken up and come to an end; a cancelled     *)
(* build begins no other.                                                    *)
(*****************************************************************************)
EXTENDS Naturals

CONSTANTS Builds, StepsOf

VARIABLES
  status,  (* what is said of a build                                        *)
  place,   (* where a build is in its life                                   *)
  at,      (* the step a build is at, 0 before the first                     *)
  failed,  (* the builds that gave a step up, or had one fail                *)
  run      (* what becomes of a step                                         *)

runVars == <<status, place, at, failed, run>>
Steps == UNION {{b} \X (1 .. StepsOf[b]) : b \in Builds}
Current(b) == <<b, at[b]>>
Move(b, from, to) == place[b] = from /\ place' = [place EXCEPT ![b] = to]
Becomes(s, from, to) == run[s] = from /\ run' = [run EXCEPT ![s] = to]

Init ==
  /\ status = [b \in Builds |-> "pending"]
  /\ place = [b \in Builds |-> "idle"]
  /\ at = [b \in Builds |-> 0]
  /\ failed = {}
  /\ run = [s \in Steps |-> "none"]

Start(b) ==
  /\ Move(b, "idle", "between")
  /\ status' = [status EXCEPT ![b] = "running"]
  /\ UNCHANGED <<at, failed, run>>

Begin(b) ==
  /\ Move(b, "between", "out")
  /\ status[b] # "cancelled" /\ at[b] < StepsOf[b]
  /\ at' = [at EXCEPT ![b] = @ + 1]
  /\ UNCHANGED <<status, failed, run>>

(* The step a build is at, or was at when it left, is taken up, once. *)
Take(s) ==
  /\ Becomes(s, "none", "working")
  /\ s = Current(s[1]) /\ place[s[1]] \notin {"idle", "between"}
  /\ UNCHANGED <<status, place, at, failed>>

Done(s) ==
  /\ Becomes(s, "working", "done")
  /\ UNCHANGED <<status, place, at, failed>>

GoOn(b) ==
  /\ Move(b, "out", "between") /\ run[Current(b)] = "done"
  /\ UNCHANGED <<status, at, failed, run>>

GiveUp(b) ==
  /\ Move(b, "out", "left")
  /\ failed' = failed \cup {b}
  /\ UNCHANGED <<status, at, run>>

Leave(b) ==
  /\ Move(b, "between", "left")
  /\ status[b] = "cancelled" \/ at[b] = StepsOf[b]
  /\ UNCHANGED <<status, at, failed, run>>

Cancel(b) ==
  /\ status[b] = "running"
  /\ status' = [status EXCEPT ![b] = "cancelled"]
  /\ UNCHANGED <<place, at, failed, run>>

Conclude(b) ==
  /\ Move(b, "left", "over")
  /\ status' = [status EXCEPT ![b] =
                  IF @ = "cancelled" THEN "cancelled"
                  ELSE IF b \in failed THEN "failed" ELSE "success"]
  /\ UNCHANGED <<at, failed, run>>

Next ==
  \/ \E b \in Builds : \/ Start(b) \/ Begin(b) \/ GoOn(b) \/ GiveUp(b) \/ Leave(b)
                       \/ Cancel(b) \/ Conclude(b)
  \/ \E s \in Steps : Take(s) \/ Done(s)

Spec == Init /\ [][Next]_runVars
=============================================================================
