----------------------------- MODULE BuildClaims -----------------------------
(***************************************************************************)
(* What the design documents, docstrings and comments say of the build     *)
(* queue and the code does not do.  Each is refuted by a run of its own.   *)
(***************************************************************************)
EXTENDS BuildQueue

(* "The DB status="cancelled" remains the single source of truth for the    *)
(* build's final state": but execute_build re-reads the status, and then    *)
(* writes the final one without looking again.                              *)
CancelledIsFinal ==
  [][\A b \in Builds :
       status[b] = "cancelled" => status'[b] \in {"cancelled", "gone"}]_vars

(* "Coalescing only mutates pending builds": but _coalesce writes a row it  *)
(* read as pending, by primary key, and the build may have started since.   *)
CoalescesOnlyPending ==
  [][\A b \in Builds :
       rev'[b] # rev[b] => status[b] \in {"absent", "pending"}]_vars

(* "Build.runs_on was captured from the YAML at trigger time": but the      *)
(* trigger_pipeline step creates its build without runs_on.                 *)
RoutedByYaml ==
  \A w \in Workers :
    pc[w] = "steps" => Asks[pipe[job[w]]] \subseteq Has[held[w]]

(* "A crashed worker can never strand pending builds for longer than the    *)
(* beat interval": but a task acknowledged and then lost with its worker    *)
(* leaves a reservation for a build that is pending, which is never healed. *)
ServedDespiteCrash ==
  \A b \in Builds : status[b] = "pending" ~> status[b] # "pending"
=============================================================================
