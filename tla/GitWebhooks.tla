------------------------------ MODULE GitWebhooks ------------------------------
(* The deliveries of a Git provider to one linked repository's webhook:     *)
(* receive_webhook from the rate limit to the recorded delivery, with the   *)
(* provider sending the same delivery again, requests that overlap or die,  *)
(* the secret rotated and the repository unlinked under them.               *)
EXTENDS Naturals, Sequences

CONSTANTS
  Deliveries,    (* provider_delivery_ids; each a push to one branch *)
  Listening,     (* the enabled pipelines of the repository and branch *)
  PerMinute,     (* MEGOOCI_WEBHOOK_RATE_LIMIT_PER_MINUTE *)
  Retention,     (* MEGOOCI_WEBHOOK_DELIVERY_RETENTION *)
  MaxPosts,      (* bound: requests that are made *)
  MaxRotations,  (* bound: times the secret is rotated *)
  NoDelivery

ASSUME WebhooksAssumption ==
  /\ Retention \in Nat \ {0} /\ PerMinute \in Nat \ {0}
  /\ MaxPosts \in Nat /\ MaxRotations \in Nat
  /\ NoDelivery \notin Deliveries

VARIABLES
  hook,       (* the project_repositories row: linked, and the secret's version *)
  log,       (* webhook_deliveries, oldest first *)
  rate,       (* webhook:rate:<slug> *)
  posts,      (* the requests, in the order they arrive *)
  waiting,    (* pipelines with a pending build *)
  forgotten   (* observer: deliveries whose row was removed *)

webhooksVars == <<hook, log, rate, posts, waiting, forgotten>>

Post(pc, d, again) ==
  [pc |-> pc, delivery |-> d, again |-> again,
   todo |-> {}, acts |-> FALSE, new |-> FALSE]
Answered(n, answer) == [posts EXCEPT ![n].pc = answer, ![n].todo = {}, ![n].new = FALSE]
Answers == {"ok", "not found", "too many", "unauthorized", "duplicate", "error", "none"}
InFlight == {"reject", "check", "refuse", "enqueue", "record"}
Ids == {log[i].id : i \in DOMAIN log}
Ended(d, answer) == \E n \in DOMAIN posts : posts[n].delivery = d /\ posts[n].pc = answer

-----------------------------------------------------------------------------
(* Load by slug, rate limit, body, signature.  Every request renews the     *)
(* window.  The provider signs with the secret it was given last or before. *)
Receive(d, signed) ==
  /\ Len(posts) < MaxPosts
  /\ rate' = IF hook.linked THEN rate + 1 ELSE rate
  /\ posts' = Append(posts, Post(
       IF ~hook.linked THEN "not found"
       ELSE IF rate' > PerMinute THEN "too many"
       ELSE IF signed # hook.secret THEN "reject"
       ELSE "check", d, Ended(d, "ok")))
  /\ UNCHANGED <<hook, log, waiting, forgotten>>

(* A minute without a request. *)
WindowEnds ==
  /\ rate > 0 /\ rate' = 0
  /\ UNCHANGED <<hook, log, posts, waiting, forgotten>>

(* Mutant of Replayed: only deliveries that made a build are looked for. *)
ReplayedBuilt(d) == \E i \in DOMAIN log : log[i].id = d /\ log[i].http_status = 202

(* The replay check. *)
Replayed(d) == d \in Ids

(* The oldest rows beyond the retention go, duplicates counted. *)
Pruned(s) ==
  IF Len(s) > Retention THEN SubSeq(s, Len(s) - Retention + 1, Len(s)) ELSE s

(* Mutant of Check: the delivery is noted before anything is done about it. *)
CheckAndNote(n) ==
  /\ posts[n].pc = "check"
  /\ posts' = [posts EXCEPT ![n].pc = IF Replayed(posts[n].delivery) THEN "refuse" ELSE "enqueue",
                            ![n].todo = Listening]
  /\ log' = IF Replayed(posts[n].delivery) THEN log
             ELSE Pruned(Append(log, [id |-> posts[n].delivery, http_status |-> 200]))
  /\ UNCHANGED <<hook, rate, waiting, forgotten>>

Check(n) ==
  /\ posts[n].pc = "check"
  /\ posts' = [posts EXCEPT ![n].pc = IF Replayed(posts[n].delivery) THEN "refuse" ELSE "enqueue",
                            ![n].todo = Listening]
  /\ UNCHANGED <<hook, log, rate, waiting, forgotten>>

(* _enqueue_matching_builds: a pipeline's build is made or coalesced, and   *)
(* committed, before the next pipeline is looked at.  The stored YAML may   *)
(* be anything: one that is not valid makes a build that failed at once,    *)
(* one that the compiler raises on ends the request.                        *)
Enqueue(n) ==
  /\ posts[n].pc = "enqueue"
  /\ \/ /\ posts[n].todo = {}
        /\ posts' = [posts EXCEPT ![n].pc = "record"]
        /\ UNCHANGED waiting
     \/ \E p \in posts[n].todo, yaml \in {"valid", "invalid", "raises"} :
          IF yaml = "raises" /\ p \notin waiting
          THEN /\ posts' = Answered(n, "error")
               /\ UNCHANGED waiting
          ELSE /\ posts' = [posts EXCEPT
                    ![n].todo = @ \ {p}, ![n].acts = TRUE,
                    ![n].new = @ \/ p \notin waiting]
               /\ waiting' = IF yaml = "valid" THEN waiting \cup {p} ELSE waiting
  /\ UNCHANGED <<hook, log, rate, forgotten>>

(* _record_delivery and commit.  A row that breaks a constraint is dropped  *)
(* with the rest of the transaction, in silence.                            *)
Record(n, id, http_status, answer) ==
  /\ posts' = Answered(n, answer)
  /\ IF hook.linked /\ (id = NoDelivery \/ id \notin Ids)
     THEN LET all == Append(log, [id |-> id, http_status |-> http_status]) IN
          /\ log' = Pruned(all)
          /\ forgotten' = forgotten \cup ({all[i].id : i \in DOMAIN all}
                            \ ({log'[i].id : i \in DOMAIN log'} \cup {NoDelivery}))
     ELSE UNCHANGED <<log, forgotten>>
  /\ UNCHANGED <<hook, rate, waiting>>

(* A duplicate is recorded under an id of its own; a bad signature, or a    *)
(* stored secret that cannot be decrypted, under the delivery's.            *)
Answer(n) ==
  \/ /\ posts[n].pc = "reject"
     /\ Record(n, posts[n].delivery, 401, "unauthorized")
  \/ /\ posts[n].pc = "refuse"
     /\ Record(n, NoDelivery, 409, "duplicate")
  \/ /\ posts[n].pc = "record"
     /\ Record(n, posts[n].delivery,
               IF posts[n].new THEN 202 ELSE 200, "ok")

(* The process ends under the request. *)
Abort(n) ==
  /\ posts[n].pc \in InFlight
  /\ posts' = Answered(n, "none")
  /\ UNCHANGED <<hook, log, rate, waiting, forgotten>>

(* The dispatcher starts a pending build: the next one is a new build. *)
BuildStarts ==
  /\ \E p \in waiting : waiting' = waiting \ {p}
  /\ UNCHANGED <<hook, log, rate, posts, forgotten>>

(* rotate_webhook_secret *)
RotateSecret ==
  /\ hook.linked /\ hook.secret < MaxRotations
  /\ hook' = [hook EXCEPT !.secret = @ + 1]
  /\ UNCHANGED <<log, rate, posts, waiting, forgotten>>

(* unlink_repository: the deliveries go with it, and the slug for good. *)
UnlinkRepository ==
  /\ hook.linked
  /\ hook' = [hook EXCEPT !.linked = FALSE]
  /\ log' = <<>>
  /\ forgotten' = forgotten \cup (Ids \ {NoDelivery})
  /\ UNCHANGED <<rate, posts, waiting>>

WebhooksNext ==
  \/ \E d \in Deliveries, signed \in 0 .. hook.secret : Receive(d, signed)
  \/ WindowEnds
  \/ \E n \in DOMAIN posts : Check(n) \/ Enqueue(n) \/ Answer(n) \/ Abort(n)
  \/ BuildStarts \/ RotateSecret \/ UnlinkRepository

WebhooksInit ==
  /\ hook = [linked |-> TRUE, secret |-> 0]
  /\ log = <<>> /\ rate = 0 /\ posts = <<>> /\ waiting = {} /\ forgotten = {}

WebhooksSpec == WebhooksInit /\ [][WebhooksNext]_webhooksVars

WebhooksTypeOK ==
  /\ hook \in [linked : BOOLEAN, secret : 0 .. MaxRotations]
  /\ Len(log) <= Retention
  /\ \A i \in DOMAIN log : log[i].id \in Deliveries \cup {NoDelivery}
  /\ rate \in 0 .. MaxPosts
  /\ \A n \in DOMAIN posts :
       posts[n] \in [pc : InFlight \cup Answers, delivery : Deliveries, again : BOOLEAN,
                     todo : SUBSET Listening, acts : BOOLEAN, new : BOOLEAN]
  /\ waiting \subseteq Listening /\ forgotten \subseteq Deliveries

-----------------------------------------------------------------------------
(* A delivery that was answered with success and arrives again neither      *)
(* makes a build nor moves a waiting one to its commit, whatever overlapped *)
(* the first time, unless its record is gone: pushed out by newer ones, or  *)
(* with the repository.                                                     *)
RedeliveryIsQuiet ==
  \A n \in DOMAIN posts :
    posts[n].again /\ posts[n].acts => posts[n].delivery \in forgotten

(* A delivery that is turned away as a duplicate was seen to its end before *)
(* or turned away for its signature: a request that died half-way, or that  *)
(* a broken pipeline stopped, does not make the provider's retry one.       *)
DuplicateWasDone ==
  \A n \in DOMAIN posts :
    posts[n].pc = "duplicate" =>
      \E answer \in {"ok", "unauthorized"} : Ended(posts[n].delivery, answer)
=============================================================================
