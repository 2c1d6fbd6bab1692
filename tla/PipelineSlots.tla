---------------------------- MODULE PipelineSlots ----------------------------
(***************************************************************************)
(* What single-run concurrency promises about a pipeline's builds, without *)
(* workers, agents, queues or requests: a build waits for its turn, runs   *)
(* and is over; a pipeline has one slot for a waiting build and one for a  *)
(* running one; a build that is over never comes back.                     *)
(***************************************************************************)
CONSTANTS Builds, Pipelines, NoPipeline

VARIABLES
  phase,   (* where a build is in its life                *)
  of       (* the pipeline a build that exists belongs to *)

Phases == {"new", "waiting", "running", "over"}

TypeOK ==
  /\ phase \in [Builds -> Phases]
  /\ of \in [Builds -> Pipelines \cup {NoPipeline}]

Free(p, slot) == \A b \in Builds : of[b] = p => phase[b] # slot

Init ==
  /\ phase = [b \in Builds |-> "new"]
  /\ of = [b \in Builds |-> NoPipeline]

Request(b, p) ==
  /\ phase[b] = "new" /\ Free(p, "waiting")
  /\ phase' = [phase EXCEPT ![b] = "waiting"]
  /\ of' = [of EXCEPT ![b] = p]

Start(b) ==
  /\ phase[b] = "waiting" /\ Free(of[b], "running")
  /\ phase' = [phase EXCEPT ![b] = "running"]
  /\ UNCHANGED of

(* Builds end together when their pipeline is deleted. *)
End(S) ==
  /\ \A b \in S : phase[b] \in {"waiting", "running"}
  /\ phase' = [b \in Builds |-> IF b \in S THEN "over" ELSE phase[b]]
  /\ UNCHANGED of

Next ==
  \/ \E b \in Builds, p \in Pipelines : Request(b, p)
  \/ \E b \in Builds : Start(b)
  \/ \E S \in SUBSET Builds : End(S)

Spec == Init /\ [][Next]_<<phase, of>>
=============================================================================
