------------------------------- MODULE GitProofs -------------------------------
(***************************************************************************)
(* What a redelivery may do, for any deliveries, pipelines, rate limit and  *)
(* retention, and whatever requests overlap or die; that a listing is       *)
(* complete, for any page size, limit and number of repositories; and that  *)
(* a connection's status is about its credential.                           *)
(***************************************************************************)
EXTENDS GitWebhooks, GitProviders, GitConnections, SequenceTheorems, FiniteSetTheorems, TLAPS

Request == [pc : InFlight \cup Answers, delivery : Deliveries, again : BOOLEAN,
            todo : SUBSET Listening, acts : BOOLEAN, new : BOOLEAN]
Row == [id : Deliveries \cup {NoDelivery}, http_status : Nat]
Typed ==
  /\ posts \in Seq(Request) /\ log \in Seq(Row)
  /\ hook \in [linked : BOOLEAN, secret : Nat]

(* What is on record, or was.                                               *)
Known == Ids \cup forgotten
Done(d) == \E answer \in {"ok", "unauthorized"} : Ended(d, answer)
At(d, pcs) == \E n \in DOMAIN posts : posts[n].delivery = d /\ posts[n].pc \in pcs

(* A record stands for a request that came to its end, and so does a        *)
(* refusal.                                                                 *)
RecordsAreOfDone == \A d \in Deliveries : d \in Ids => Done(d)
RefusalsAreOfDone == \A d \in Deliveries : At(d, {"refuse", "duplicate"}) => Done(d)

(* While the repository is linked, what was answered with success is known; *)
(* so is what a request that came later carries, and it passes the replay   *)
(* check only if the record is gone.                                        *)
AnsweredIsKnown == hook.linked => \A d \in Deliveries : Ended(d, "ok") => d \in Known
AgainIsKnown ==
  \A n \in DOMAIN posts :
    posts[n].again /\ posts[n].pc \in InFlight => posts[n].delivery \in Known
PassedIsForgotten ==
  \A n \in DOMAIN posts :
    posts[n].again /\ (posts[n].acts \/ posts[n].pc \in {"enqueue", "record"})
      => posts[n].delivery \in forgotten

WebhooksInv ==
  /\ Typed
  /\ RecordsAreOfDone /\ RefusalsAreOfDone
  /\ AnsweredIsKnown /\ AgainIsKnown /\ PassedIsForgotten

-----------------------------------------------------------------------------
(* The rows that are left after pruning were there, and a new row adds its  *)
(* id.                                                                      *)
IdsOf(s) == {s[i].id : i \in DOMAIN s}

LEMMA Entries ==
  ASSUME NEW S, NEW s \in Seq(S)
  PROVE  Len(s) \in Nat /\ DOMAIN s = 1 .. Len(s) /\ \A i \in DOMAIN s : s[i] \in S
BY LenProperties, ElementOfSeq

LEMMA PrunedIds ==
  ASSUME NEW s \in Seq(Row)
  PROVE  Pruned(s) \in Seq(Row) /\ IdsOf(Pruned(s)) \subseteq IdsOf(s)
<1>1. CASE Len(s) > Retention
  <2>. DEFINE m == Len(s) - Retention + 1
  <2>1. Pruned(s) = SubSeq(s, m, Len(s)) /\ DOMAIN s = 1 .. Len(s)
    BY <1>1, Entries DEF Pruned
  <2>2. Len(s) \in Nat /\ Retention \in Nat \ {0} /\ m \in 1 .. Len(s)
    BY <1>1, WebhooksAssumption
  <2>3. \A i \in m .. Len(s) : s[i] \in Row
    BY <2>1, <2>2, Entries
  <2>4. /\ Pruned(s) \in Seq(Row) /\ Len(Pruned(s)) = Len(s) - m + 1
        /\ \A i \in 1 .. Len(s) - m + 1 : Pruned(s)[i] = s[m + i - 1]
    BY <2>1, <2>2, <2>3, SubSeqProperties
  <2>. HIDE DEF m
  <2>5. DOMAIN Pruned(s) = 1 .. Len(s) - m + 1
    BY <2>4
  <2>6. \A i \in DOMAIN Pruned(s) : m + i - 1 \in DOMAIN s /\ Pruned(s)[i] = s[m + i - 1]
    BY <2>1, <2>2, <2>4, <2>5
  <2>. QED BY <2>4, <2>6 DEF IdsOf
<1>2. CASE ~(Len(s) > Retention)
  BY <1>2 DEF Pruned
<1>. QED BY <1>1, <1>2

LEMMA Appended ==
  ASSUME NEW S, NEW s \in Seq(S), NEW e \in S
  PROVE  /\ Append(s, e) \in Seq(S) /\ DOMAIN s = 1 .. Len(s)
         /\ DOMAIN Append(s, e) = (1 .. Len(s)) \cup {Len(s) + 1}
         /\ \A i \in 1 .. Len(s) : Append(s, e)[i] = s[i]
         /\ Append(s, e)[Len(s) + 1] = e
<1>1. /\ Append(s, e) \in Seq(S) /\ Len(Append(s, e)) = Len(s) + 1
      /\ \A i \in 1 .. Len(s) : Append(s, e)[i] = s[i]
      /\ Append(s, e)[Len(s) + 1] = e
  BY AppendProperties
<1>2. Len(s) \in Nat /\ DOMAIN s = 1 .. Len(s) /\ DOMAIN Append(s, e) = 1 .. Len(s) + 1
  BY <1>1, Entries
<1>3. 1 .. Len(s) + 1 = (1 .. Len(s)) \cup {Len(s) + 1}
  BY <1>2
<1>. QED BY <1>1, <1>2, <1>3

LEMMA AppendIds ==
  ASSUME NEW s \in Seq(Row), NEW r \in Row
  PROVE  Append(s, r) \in Seq(Row) /\ IdsOf(Append(s, r)) = IdsOf(s) \cup {r.id}
BY Appended DEF IdsOf

-----------------------------------------------------------------------------
(* One request goes on to a place of pcs: it keeps its delivery.            *)
Moves(n, pcs) ==
  /\ n \in DOMAIN posts /\ posts[n].pc \in InFlight
  /\ posts' \in Seq(Request) /\ DOMAIN posts' = DOMAIN posts
  /\ \A m \in DOMAIN posts : m # n => posts'[m] = posts[m]
  /\ posts'[n].delivery = posts[n].delivery /\ posts'[n].again = posts[n].again
  /\ posts'[n].pc \in pcs

LEMMA PostMoves ==
  ASSUME Typed, NEW n \in DOMAIN posts, posts[n].pc \in InFlight,
         NEW r \in Request, NEW pcs, r.pc \in pcs,
         r.delivery = posts[n].delivery, r.again = posts[n].again,
         posts' = [posts EXCEPT ![n] = r]
  PROVE  Moves(n, pcs) /\ posts'[n] = r
<1>1. posts \in Seq(Request) /\ DOMAIN posts = 1 .. Len(posts)
  BY Entries DEF Typed
<1>2. posts' \in Seq(Request) /\ DOMAIN posts' = DOMAIN posts
  BY <1>1, ExceptSeq
<1>. QED BY <1>1, <1>2 DEF Moves

LEMMA AtRequest ==
  ASSUME Typed, NEW n \in DOMAIN posts
  PROVE  posts[n] \in Request /\ posts[n].delivery \in Deliveries
<1>1. posts[n] \in Request
  BY Entries DEF Typed
<1>. QED BY <1>1 DEF Request

(* Answers are final.                                                       *)
LEMMA AnswersStay ==
  ASSUME NEW n, NEW pcs, Moves(n, pcs), NEW d, NEW a \in Answers, Ended(d, a)
  PROVE  Ended(d, a)'
BY DEF Moves, Ended, Answers, InFlight

LEMMA DoneStays ==
  ASSUME NEW n, NEW pcs, Moves(n, pcs), NEW d, Done(d)
  PROVE  Done(d)'
<1>1. PICK a \in {"ok", "unauthorized"} : Ended(d, a)
  BY DEF Done
<1>2. Ended(d, a)'
  BY <1>1, AnswersStay DEF Answers
<1>. QED BY <1>2 DEF Done

(* What every move of a request keeps, when no record is lost on the way.   *)
LEMMA MoveKeeps ==
  ASSUME WebhooksInv, NEW n, NEW pcs, Moves(n, pcs), UNCHANGED hook,
         log' \in Seq(Row),
         \A d \in Deliveries : d \in Known => d \in Known',
         forgotten \subseteq forgotten',
         \A d \in Deliveries : d \in Ids' => d \in Ids \/ Done(d)',
         posts'[n].pc \in {"refuse", "duplicate"} => Done(posts[n].delivery),
         posts'[n].pc = "ok" /\ hook.linked => posts[n].delivery \in Known',
         posts[n].again /\ (posts'[n].acts \/ posts'[n].pc \in {"enqueue", "record"})
           => posts[n].delivery \in forgotten
  PROVE  WebhooksInv'
<1>. USE DEF WebhooksInv
<1>1. Typed'
  BY DEF Typed, Moves
<1>2. \A m \in DOMAIN posts : posts[m].delivery \in Deliveries
  BY AtRequest
<1>3. RecordsAreOfDone'
  BY DoneStays DEF RecordsAreOfDone
<1>4. RefusalsAreOfDone'
  <2>. SUFFICES ASSUME NEW d \in Deliveries, At(d, {"refuse", "duplicate"})'
                PROVE  Done(d)'
    BY DEF RefusalsAreOfDone
  <2>1. Done(d)
    BY DEF At, Moves, RefusalsAreOfDone
  <2>. QED BY <2>1, DoneStays
<1>5. AnsweredIsKnown'
  <2>. SUFFICES ASSUME hook.linked, NEW d \in Deliveries, Ended(d, "ok")'
                PROVE  d \in Known'
    BY DEF AnsweredIsKnown
  <2>1. Ended(d, "ok") \/ (d = posts[n].delivery /\ posts'[n].pc = "ok")
    BY DEF Ended, Moves
  <2>. QED BY <2>1 DEF AnsweredIsKnown
<1>6. AgainIsKnown'
  <2>. SUFFICES ASSUME NEW d \in Deliveries, NEW m \in DOMAIN posts,
                       posts'[m].delivery = d, posts'[m].again,
                       posts'[m].pc \in InFlight
                PROVE  d \in Known'
    BY <1>2 DEF AgainIsKnown, Moves
  <2>1. posts[m].delivery = d /\ posts[m].again /\ posts[m].pc \in InFlight
    BY DEF Moves
  <2>. QED BY <2>1 DEF AgainIsKnown
<1>7. PassedIsForgotten'
  BY DEF PassedIsForgotten, Moves
<1>. QED BY <1>1, <1>3, <1>4, <1>5, <1>6, <1>7

(* A move that leaves the log as it is.                                     *)
LEMMA QuietMove ==
  ASSUME WebhooksInv, NEW n, NEW pcs, Moves(n, pcs), "ok" \notin pcs,
         UNCHANGED <<hook, log, forgotten>>,
         posts'[n].pc \in {"refuse", "duplicate"} => Done(posts[n].delivery),
         posts[n].again /\ (posts'[n].acts \/ posts'[n].pc \in {"enqueue", "record"})
           => posts[n].delivery \in forgotten
  PROVE  WebhooksInv'
<1>1. Known' = Known /\ Ids' = Ids /\ posts'[n].pc # "ok" /\ log' \in Seq(Row)
  BY DEF Known, Ids, Moves, WebhooksInv, Typed
<1>. QED BY <1>1, MoveKeeps

(* A recorded answer: what is pushed out of the log is remembered, and the  *)
(* delivery is in it unless the transaction was dropped.                    *)
LEMMA RecordMove ==
  ASSUME WebhooksInv, NEW n \in DOMAIN posts, posts[n].pc \in {"reject", "refuse", "record"},
         NEW id, NEW code \in Nat, NEW answer \in {"ok", "unauthorized", "duplicate"},
         Record(n, id, code, answer),
         id = IF answer = "duplicate" THEN NoDelivery ELSE posts[n].delivery,
         answer = "duplicate" => posts[n].pc = "refuse",
         answer = "unauthorized" => posts[n].pc = "reject",
         answer = "ok" => posts[n].pc = "record"
  PROVE  WebhooksInv'
<1>. DEFINE row == [id |-> id, http_status |-> code]
            all == Append(log, row)
            writes == hook.linked /\ (id = NoDelivery \/ id \notin Ids)
<1>1. Typed /\ posts[n] \in Request
  BY AtRequest DEF WebhooksInv
<1>2. /\ Moves(n, {answer}) /\ posts'[n].acts = posts[n].acts
      /\ posts'[n].pc = answer /\ posts[n].delivery \in Deliveries
  <2>. DEFINE r == [posts[n] EXCEPT !.pc = answer, !.todo = {}, !.new = FALSE]
  <2>1. posts' = [posts EXCEPT ![n] = r]
    BY DEF Record, Answered
  <2>2. /\ r \in Request /\ r.pc = answer /\ r.acts = posts[n].acts
        /\ r.delivery = posts[n].delivery /\ r.again = posts[n].again
    BY <1>1 DEF Request, Answers
  <2>. HIDE DEF r
  <2>. QED BY <1>1, <2>1, <2>2, PostMoves, AtRequest DEF InFlight
<1>3. id # NoDelivery => Done(posts[n].delivery)'
  BY <1>2 DEF Done, Ended, Moves
<1>4. /\ posts'[n].pc \in {"refuse", "duplicate"} => Done(posts[n].delivery)
      /\ posts[n].again /\ (posts'[n].acts \/ posts'[n].pc \in {"enqueue", "record"})
           => posts[n].delivery \in forgotten
  BY <1>2 DEF WebhooksInv, RefusalsAreOfDone, At, PassedIsForgotten
<1>5. CASE writes
  <2>1. row \in Row /\ log \in Seq(Row)
    BY <1>2 DEF Row, WebhooksInv, Typed
  <2>2. all \in Seq(Row) /\ IdsOf(all) = IdsOf(log) \cup {id}
    BY <2>1, AppendIds
  <2>3. /\ log' = Pruned(all) /\ UNCHANGED hook
        /\ forgotten' = forgotten \cup (IdsOf(all) \ (IdsOf(log') \cup {NoDelivery}))
    BY <1>5 DEF Record, IdsOf
  <2>. HIDE DEF all, row
  <2>4. log' \in Seq(Row) /\ IdsOf(log') \subseteq IdsOf(all)
    BY <2>2, <2>3, PrunedIds
  <2>5. Ids = IdsOf(log) /\ Ids' = IdsOf(log') /\ NoDelivery \notin Deliveries
    BY WebhooksAssumption DEF Ids, IdsOf
  <2>6. /\ \A d \in Deliveries : d \in Known => d \in Known'
        /\ id # NoDelivery => posts[n].delivery \in Known'
        /\ forgotten \subseteq forgotten'
    BY <1>2, <2>2, <2>3, <2>5 DEF Known
  <2>7. \A d \in Deliveries : d \in Ids' => d \in Ids \/ Done(d)'
    <3>. SUFFICES ASSUME NEW d \in Deliveries, d \in Ids', d \notin Ids
                  PROVE  Done(d)'
      OBVIOUS
    <3>1. d = id /\ answer # "duplicate"
      BY <2>2, <2>4, <2>5
    <3>. QED BY <1>2, <3>1 DEF Done, Ended, Moves
  <2>8. posts'[n].pc = "ok" /\ hook.linked => posts[n].delivery \in Known'
    BY <1>2, <2>5, <2>6
  <2>. QED BY <1>2, <1>4, <2>3, <2>4, <2>6, <2>7, <2>8, MoveKeeps
<1>6. CASE ~writes
  <2>1. UNCHANGED <<hook, log, forgotten>>
    BY <1>6 DEF Record
  <2>2. Known' = Known /\ Ids' = Ids /\ log' \in Seq(Row)
    BY <2>1 DEF Known, Ids, WebhooksInv, Typed
  <2>3. posts'[n].pc = "ok" /\ hook.linked => posts[n].delivery \in Known'
    BY <1>2, <1>6, <2>2 DEF Known
  <2>. QED BY <1>2, <1>4, <2>1, <2>2, <2>3, MoveKeeps
<1>. QED BY <1>5, <1>6

-----------------------------------------------------------------------------
LEMMA WebhooksBegin == WebhooksInit => WebhooksInv
BY DEF WebhooksInit, WebhooksInv, Typed, RecordsAreOfDone, RefusalsAreOfDone, At,
       AnsweredIsKnown, AgainIsKnown, PassedIsForgotten, Ids, Ended

(* A request arrives: what was answered with success before is known.       *)
LEMMA ReceiveKeeps ==
  ASSUME WebhooksInv, NEW d \in Deliveries, NEW signed, Receive(d, signed)
  PROVE  WebhooksInv'
<1>. USE DEF WebhooksInv
<1>1. PICK pc \in {"not found", "too many", "reject", "check"} :
        /\ posts' = Append(posts, Post(pc, d, Ended(d, "ok")))
        /\ pc \in InFlight => hook.linked
  BY DEF Receive, InFlight
<1>. DEFINE new == Post(pc, d, Ended(d, "ok"))
<1>2. /\ new \in Request /\ new.pc = pc /\ new.delivery = d
      /\ new.again = Ended(d, "ok") /\ ~new.acts
  BY DEF Post, Request, InFlight, Answers, Ended
<1>. HIDE DEF new
<1>3. /\ posts' \in Seq(Request) /\ DOMAIN posts = 1 .. Len(posts)
      /\ DOMAIN posts' = (1 .. Len(posts)) \cup {Len(posts) + 1}
      /\ \A n \in 1 .. Len(posts) : posts'[n] = posts[n]
      /\ posts'[Len(posts) + 1] = new
  <2>1. posts \in Seq(Request) /\ posts' = Append(posts, new)
    BY <1>1 DEF Typed, new
  <2>2. new \in Request
    BY <1>2
  <2>3. /\ Append(posts, new) \in Seq(Request) /\ DOMAIN posts = 1 .. Len(posts)
        /\ DOMAIN Append(posts, new) = (1 .. Len(posts)) \cup {Len(posts) + 1}
        /\ \A i \in 1 .. Len(posts) : Append(posts, new)[i] = posts[i]
        /\ Append(posts, new)[Len(posts) + 1] = new
    <3>. HIDE DEF WebhooksInv
    <3>. QED BY ONLY <2>1, <2>2, Appended
  <2>. QED BY <2>1, <2>3
<1>4. UNCHANGED <<hook, log, forgotten>> /\ Ids' = Ids /\ Known' = Known
  BY DEF Receive, Ids, Known
<1>5. \A e, a : a \in {"ok", "unauthorized"} => (Ended(e, a)' <=> Ended(e, a))
  BY <1>2, <1>3 DEF Ended
<1>6. \A e : Done(e)' <=> Done(e)
  BY <1>5 DEF Done
<1>7. \A e : At(e, {"refuse", "duplicate"})' => At(e, {"refuse", "duplicate"})
  BY <1>2, <1>3 DEF At
<1>8. Typed' /\ RecordsAreOfDone' /\ RefusalsAreOfDone' /\ AnsweredIsKnown'
  BY <1>3, <1>4, <1>5, <1>6, <1>7
     DEF Typed, RecordsAreOfDone, RefusalsAreOfDone, AnsweredIsKnown
<1>9. AgainIsKnown'
  BY <1>1, <1>2, <1>3, <1>4 DEF AgainIsKnown, AnsweredIsKnown
<1>10. PassedIsForgotten'
  BY <1>2, <1>3, <1>4 DEF PassedIsForgotten
<1>. QED BY <1>8, <1>9, <1>10

(* A request goes on.                                                       *)
LEMMA RequestKeeps ==
  ASSUME WebhooksInv, NEW n \in DOMAIN posts,
         Check(n) \/ Enqueue(n) \/ Answer(n) \/ Abort(n)
  PROVE  WebhooksInv'
<1>1. Typed /\ posts[n] \in Request
  BY AtRequest DEF WebhooksInv
<1>2. CASE Check(n)
  <2>. DEFINE r == [posts[n] EXCEPT
                      !.pc = IF Replayed(posts[n].delivery) THEN "refuse" ELSE "enqueue",
                      !.todo = Listening]
  <2>1. /\ posts' = [posts EXCEPT ![n] = r]
        /\ posts[n].pc = "check" /\ UNCHANGED <<hook, log, forgotten>>
    BY <1>2 DEF Check
  <2>2. /\ r \in Request /\ r.delivery = posts[n].delivery /\ r.again = posts[n].again
        /\ r.pc = IF Replayed(posts[n].delivery) THEN "refuse" ELSE "enqueue"
        /\ r.acts = posts[n].acts
    BY <1>1 DEF Request, InFlight
  <2>. HIDE DEF r
  <2>3. Moves(n, {"refuse", "enqueue"}) /\ posts'[n] = r
    BY <1>1, <2>1, <2>2, PostMoves DEF InFlight
  <2>4. /\ r.pc \in {"refuse", "duplicate"} => Done(posts[n].delivery)
        /\ posts[n].again /\ (r.acts \/ r.pc \in {"enqueue", "record"})
             => posts[n].delivery \in forgotten
    BY <1>1, <2>1, <2>2, AtRequest
       DEF Replayed, WebhooksInv, RecordsAreOfDone, AgainIsKnown, PassedIsForgotten,
           Known, InFlight
  <2>. QED BY <2>1, <2>3, <2>4, QuietMove
<1>3. CASE Enqueue(n)
  <2>1. posts[n].pc = "enqueue" /\ UNCHANGED <<hook, log, forgotten>>
    BY <1>3 DEF Enqueue
  <2>2. \E r \in Request :
          /\ posts' = [posts EXCEPT ![n] = r]
          /\ r.pc \in {"record", "error", "enqueue"}
          /\ r.delivery = posts[n].delivery /\ r.again = posts[n].again
    <3>. DEFINE ends == [posts[n] EXCEPT !.pc = "record"]
                stops == [posts[n] EXCEPT !.pc = "error", !.todo = {}, !.new = FALSE]
                makes(p) == [posts[n] EXCEPT !.todo = @ \ {p}, !.acts = TRUE,
                                             !.new = @ \/ p \notin waiting]
    <3>1. CASE posts' = [posts EXCEPT ![n] = ends]
      <4>1. /\ ends \in Request /\ ends.pc = "record"
            /\ ends.delivery = posts[n].delivery /\ ends.again = posts[n].again
        BY <1>1 DEF Request, InFlight
      <4>. QED BY <3>1, <4>1
    <3>2. CASE posts' = [posts EXCEPT ![n] = stops]
      <4>1. /\ stops \in Request /\ stops.pc = "error"
            /\ stops.delivery = posts[n].delivery /\ stops.again = posts[n].again
        BY <1>1 DEF Request, Answers
      <4>. QED BY <3>2, <4>1
    <3>3. CASE \E p : posts' = [posts EXCEPT ![n] = makes(p)]
      <4>1. PICK p : posts' = [posts EXCEPT ![n] = makes(p)]
        BY <3>3
      <4>2. makes(p) \in Request /\ makes(p).pc = "enqueue"
            /\ makes(p).delivery = posts[n].delivery /\ makes(p).again = posts[n].again
        BY <1>1, <2>1 DEF Request
      <4>. QED BY <4>1, <4>2
    <3>. QED BY <1>3, <3>1, <3>2, <3>3 DEF Enqueue, Answered
  <2>3. Moves(n, {"record", "error", "enqueue"})
    BY <1>1, <2>1, <2>2, PostMoves DEF InFlight
  <2>4. posts[n].again => posts[n].delivery \in forgotten
    BY <2>1 DEF WebhooksInv, PassedIsForgotten
  <2>. QED BY <2>1, <2>3, <2>4, QuietMove DEF Moves
<1>4. CASE Answer(n)
  <2>1. CASE posts[n].pc = "reject" /\ Record(n, posts[n].delivery, 401, "unauthorized")
    BY <2>1, RecordMove
  <2>2. CASE posts[n].pc = "refuse" /\ Record(n, NoDelivery, 409, "duplicate")
    BY <2>2, RecordMove
  <2>3. CASE /\ posts[n].pc = "record"
             /\ Record(n, posts[n].delivery, IF posts[n].new THEN 202 ELSE 200, "ok")
    BY <2>3, RecordMove
  <2>. QED BY <1>4, <2>1, <2>2, <2>3 DEF Answer
<1>5. CASE Abort(n)
  <2>. DEFINE r == [posts[n] EXCEPT !.pc = "none", !.todo = {}, !.new = FALSE]
  <2>1. /\ posts' = [posts EXCEPT ![n] = r] /\ posts[n].pc \in InFlight
        /\ UNCHANGED <<hook, log, forgotten>>
    BY <1>5 DEF Abort, Answered
  <2>2. /\ r \in Request /\ r.delivery = posts[n].delivery /\ r.again = posts[n].again
        /\ r.pc = "none" /\ r.acts = posts[n].acts
    BY <1>1 DEF Request, Answers
  <2>. HIDE DEF r
  <2>3. Moves(n, {"none"}) /\ posts'[n] = r
    BY <1>1, <2>1, <2>2, PostMoves
  <2>4. posts[n].again /\ r.acts => posts[n].delivery \in forgotten
    BY <2>2 DEF WebhooksInv, PassedIsForgotten
  <2>. QED BY <2>1, <2>2, <2>3, <2>4, QuietMove
<1>. QED BY <1>2, <1>3, <1>4, <1>5

(* The repository is unlinked: all that was on record is remembered.        *)
LEMMA UnlinkKeeps ==
  ASSUME WebhooksInv, UnlinkRepository
  PROVE  WebhooksInv'
<1>. USE DEF WebhooksInv
<1>1. /\ posts' = posts /\ log' = <<>> /\ ~hook'.linked /\ Ids' = {}
      /\ hook' \in [linked : BOOLEAN, secret : Nat]
      /\ forgotten' = forgotten \cup (Ids \ {NoDelivery})
  <2>1. hook' = [hook EXCEPT !.linked = FALSE]
    BY DEF UnlinkRepository
  <2>2. hook'.linked = FALSE /\ hook' \in [linked : BOOLEAN, secret : Nat]
    BY <2>1 DEF Typed
  <2>3. Ids' = {}
    BY DEF UnlinkRepository, Ids
  <2>. QED BY <2>2, <2>3 DEF UnlinkRepository
<1>2. \A n \in DOMAIN posts : posts[n].delivery \in Deliveries
  BY AtRequest
<1>. QED BY <1>1, <1>2, WebhooksAssumption
         DEF Typed, RecordsAreOfDone, RefusalsAreOfDone, AnsweredIsKnown, At, Done,
             Ended, AgainIsKnown, PassedIsForgotten, Known

LEMMA WebhooksInvariant == WebhooksSpec => []WebhooksInv
<1>1. WebhooksInv /\ [WebhooksNext]_webhooksVars => WebhooksInv'
  <2>. SUFFICES ASSUME WebhooksInv, [WebhooksNext]_webhooksVars
                PROVE  WebhooksInv'
    OBVIOUS
  <2>1. CASE \/ UNCHANGED webhooksVars
             \/ WindowEnds \/ BuildStarts \/ RotateSecret
    <3>1. /\ UNCHANGED <<log, posts, forgotten>>
          /\ hook' = hook \/ hook' = [hook EXCEPT !.secret = @ + 1]
      BY <2>1 DEF webhooksVars, WindowEnds, BuildStarts, RotateSecret
    <3>2. hook'.linked = hook.linked /\ hook' \in [linked : BOOLEAN, secret : Nat]
      BY <3>1 DEF WebhooksInv, Typed
    <3>. QED BY <3>1, <3>2 DEF WebhooksInv, Typed, RecordsAreOfDone, RefusalsAreOfDone, At,
                Done, Ended, AnsweredIsKnown, AgainIsKnown, PassedIsForgotten, Known, Ids
  <2>. QED BY <2>1, ReceiveKeeps, RequestKeeps, UnlinkKeeps DEF WebhooksNext
<1>. QED BY <1>1, WebhooksBegin, PTL DEF WebhooksSpec

(* A delivery answered with success and sent again neither makes a build    *)
(* nor moves one, unless its record is gone.                                *)
THEOREM RedeliveryAlwaysQuiet == WebhooksSpec => []RedeliveryIsQuiet
<1>1. WebhooksInv => RedeliveryIsQuiet
  BY DEF WebhooksInv, PassedIsForgotten, RedeliveryIsQuiet
<1>. QED BY <1>1, WebhooksInvariant, PTL

(* A delivery is turned away as a duplicate only after one like it came to  *)
(* its end.                                                                 *)
THEOREM DuplicateAlwaysDone == WebhooksSpec => []DuplicateWasDone
<1>1. WebhooksInv => DuplicateWasDone
  BY AtRequest DEF WebhooksInv, RefusalsAreOfDone, At, Done, DuplicateWasDone
<1>. QED BY <1>1, WebhooksInvariant, PTL

-----------------------------------------------------------------------------
(* What a listing lists                                                     *)

(* The elements of T that come before r when T is sorted by k.              *)
Ahead(T, k, r) == {q \in T : k[q] > k[r]}

(* The place of an element in the order is a number.                        *)
LEMMA AheadType ==
  ASSUME NEW T, IsFiniteSet(T), NEW k, NEW r
  PROVE  IsFiniteSet(Ahead(T, k, r)) /\ Cardinality(Ahead(T, k, r)) \in Nat
BY FS_Subset, FS_CardinalityType DEF Ahead

(* The place of an element tells its order. *)
LEMMA AheadGrows ==
  ASSUME NEW T, IsFiniteSet(T), NEW k, \A q \in T : k[q] \in Nat,
         NEW q \in T, NEW r \in T, k[q] > k[r]
  PROVE  Cardinality(Ahead(T, k, q)) < Cardinality(Ahead(T, k, r))
<1>1. Ahead(T, k, q) \subseteq Ahead(T, k, r)
  BY DEF Ahead
<1>2. q \in Ahead(T, k, r) /\ q \notin Ahead(T, k, q)
  BY DEF Ahead
<1>3. /\ Cardinality(Ahead(T, k, q)) <= Cardinality(Ahead(T, k, r))
      /\ Cardinality(Ahead(T, k, q)) # Cardinality(Ahead(T, k, r))
  BY <1>1, <1>2, FS_Subset, AheadType
<1>. QED
  BY <1>3, AheadType

(* The first m elements are m, if there are that many. *)
LEMMA FirstOnes ==
  ASSUME NEW T, IsFiniteSet(T), NEW k, \A q \in T : k[q] \in Nat,
         \A q, r \in T : k[q] = k[r] => q = r,
         NEW m \in Nat, m <= Cardinality(T)
  PROVE  Cardinality({q \in T : Cardinality(Ahead(T, k, q)) < m}) = m
<1>. DEFINE N == Cardinality(T)
            f == [q \in T |-> Cardinality(Ahead(T, k, q))]
            Low == {q \in T : Cardinality(Ahead(T, k, q)) < m}
            g == [q \in Low |-> Cardinality(Ahead(T, k, q))]
<1>1. N \in Nat
  BY FS_CardinalityType
<1>2. \A q \in T : f[q] \in 0 .. N - 1
  <2>. SUFFICES ASSUME NEW q \in T PROVE f[q] \in 0 .. N - 1
    OBVIOUS
  <2>1. q \notin Ahead(T, k, q) /\ Ahead(T, k, q) \subseteq T
    BY DEF Ahead
  <2>2. Cardinality(Ahead(T, k, q)) <= N /\ Cardinality(Ahead(T, k, q)) # N
    BY <2>1, FS_Subset
  <2>. QED
    BY <1>1, <2>2, AheadType
<1>3. \A q, r \in T : f[q] = f[r] => q = r
  <2>. SUFFICES ASSUME NEW q \in T, NEW r \in T, q # r PROVE f[q] # f[r]
    OBVIOUS
  <2>1. k[q] > k[r] \/ k[r] > k[q]
    OBVIOUS
  <2>2. Cardinality(Ahead(T, k, q)) # Cardinality(Ahead(T, k, r))
    BY <2>1, AheadGrows, AheadType
  <2>. QED
    BY <2>2
<1>4. f \in Injection(T, 0 .. N - 1)
  BY <1>2, <1>3 DEF Injection, IsInjective
<1>5. IsFiniteSet(0 .. N - 1) /\ Cardinality(0 .. N - 1) = N
  <2>. HIDE DEF N
  <2>1. N - 1 \in Int
    BY <1>1
  <2>2. /\ IsFiniteSet(0 .. N - 1)
        /\ Cardinality(0 .. N - 1) = IF 0 > N - 1 THEN 0 ELSE (N - 1) - 0 + 1
    BY <2>1, FS_Interval
  <2>. QED
    BY <1>1, <2>2
<1>6. f \in Surjection(T, 0 .. N - 1)
  BY <1>4, <1>5, FS_Injection
<1>7. IsFiniteSet(0 .. m - 1) /\ Cardinality(0 .. m - 1) = m
  BY FS_Interval
<1>8. g \in Injection(Low, 0 .. m - 1)
  <2>1. \A q \in Low : g[q] \in 0 .. m - 1
    BY AheadType
  <2>2. \A q, r \in Low : g[q] = g[r] => q = r
    BY <1>3
  <2>. QED
    BY <2>1, <2>2 DEF Injection, IsInjective
<1>9. g \in Surjection(Low, 0 .. m - 1)
  <2>1. ASSUME NEW i \in 0 .. m - 1 PROVE \E q \in Low : g[q] = i
    <3>1. i \in 0 .. N - 1
      BY <1>1
    <3>2. PICK q \in T : f[q] = i
      BY <1>6, <3>1 DEF Surjection
    <3>3. q \in Low /\ g[q] = i
      BY <3>2
    <3>. QED
      BY <3>3
  <2>2. g \in [Low -> 0 .. m - 1]
    BY <1>8 DEF Injection
  <2>. QED
    BY <2>1, <2>2 DEF Surjection
<1>. HIDE DEF g, Low
<1>10. Cardinality(Low) = m
  BY <1>7, <1>8, <1>9, FS_Injection
<1>. QED
  BY <1>10 DEF Low

-----------------------------------------------------------------------------
(* No two repositories have the same place in the provider's order.         *)
Distinct == \A q, r \in there : key[q] = key[r] => q = r

(* What is not listed yet is on a page to come; what is listed came before  *)
(* it; and at the end there is only more if the limit was reached.          *)
YetToCome ==
  listing.at = "loop" /\ ~shrunk =>
    \A r \in Still \ listing.found : (listing.page - 1) * PerPage <= Cardinality(Before(r))
(* What a listing has taken so far.                                         *)
FirstComeFirst ==
  listing.at \in {"loop", "ok"} /\ ~shrunk =>
    \A q \in Still \cap listing.found, r \in Still \ listing.found : key[q] > key[r]
(* The inductive invariant of a listing.                                    *)
ListingInv ==
  /\ GitProvidersTypeOK /\ Distinct /\ YetToCome /\ FirstComeFirst /\ UntouchedIsListed

(* Before is Ahead of what is there.                                        *)
LEMMA BeforeIs == \A r : Before(r) = Ahead(there, key, r)
BY DEF Before, Ahead

(* What is there is finite.                                                 *)
LEMMA ThereIsFinite ==
  ASSUME GitProvidersTypeOK
  PROVE  IsFiniteSet(there) /\ \A q \in there : key[q] \in Nat
BY FS_Subset, GitProvidersAssumption DEF GitProvidersTypeOK

(* The place of a repository is a number.                                   *)
LEMMA BeforeType ==
  ASSUME GitProvidersTypeOK, NEW r
  PROVE  IsFiniteSet(Before(r)) /\ Cardinality(Before(r)) \in Nat /\ Before(r) \subseteq there
BY ThereIsFinite, BeforeIs, AheadType DEF Before

(* The size of a page is a positive number.                                 *)
LEMMA PerPageType ==
  ASSUME GitProvidersTypeOK
  PROVE  PerPage \in Nat \ {0} /\ (~BranchList => listing.limit \in Nat \ {0})
BY GitProvidersAssumption DEF GitProvidersTypeOK, PerPage, BranchList

(* A page after which something comes is full. *)
LEMMA PageIsFull ==
  ASSUME GitProvidersTypeOK, Distinct, NEW n \in Nat \ {0}, NEW r \in there,
         n * PerPage <= Cardinality(Before(r))
  PROVE  Cardinality(Page(n)) = PerPage
<1>. DEFINE P == PerPage
            lo == (n - 1) * P
            hi == n * P
            Low(m) == {q \in there : Cardinality(Ahead(there, key, q)) < m}
<1>1. P \in Nat \ {0}
  BY PerPageType
<1>. HIDE DEF P
<1>2. lo \in Nat /\ hi \in Nat /\ hi = lo + P
  BY <1>1
<1>3. hi <= Cardinality(there) /\ Cardinality(there) \in Nat
  <2>1. Cardinality(Before(r)) <= Cardinality(there) /\ Cardinality(there) \in Nat
    BY ThereIsFinite, BeforeType, FS_Subset, FS_CardinalityType
  <2>. QED
    BY <1>2, <2>1, BeforeType DEF P
<1>. HIDE DEF lo, hi
<1>4. \A m \in Nat : m <= Cardinality(there) => Cardinality(Low(m)) = m
  BY FirstOnes, ThereIsFinite DEF Distinct
<1>5. Cardinality(Low(hi)) = hi /\ Cardinality(Low(lo)) = lo
  BY <1>1, <1>2, <1>3, <1>4
<1>6. Page(n) = Low(hi) \ Low(lo)
  BY <1>1, <1>2, BeforeType, BeforeIs DEF Page, lo, hi, P
<1>7. Low(hi) \cap Low(lo) = Low(lo)
  BY <1>1, <1>2, AheadType, ThereIsFinite
<1>8. IsFiniteSet(Low(hi))
  BY ThereIsFinite, FS_Subset
<1>. HIDE DEF Low
<1>9. Cardinality(Page(n)) = Cardinality(Low(hi)) - Cardinality(Low(lo))
  BY <1>6, <1>7, <1>8, FS_Difference
<1>. QED
  BY <1>1, <1>2, <1>5, <1>9 DEF P

(* Where something of a page is left, as much was taken as was wanted.      *)
LEMMA TakenFills ==
  ASSUME GitProvidersTypeOK, Distinct, NEW D \in SUBSET there, NEW g \in Nat,
         ~BranchList, NEW r \in D, Full(g + Cardinality(Before(r) \cap D))
  PROVE  LET taken == {q \in D : ~Full(g + Cardinality(Before(q) \cap D))}
         IN  Full(g + Cardinality(taken))
<1>. DEFINE l == listing.limit
            taken == {q \in D : ~Full(g + Cardinality(Before(q) \cap D))}
<1>. SUFFICES Full(g + Cardinality(taken))
  OBVIOUS
<1>1. l \in Nat \ {0}
  BY PerPageType
<1>2. IsFiniteSet(D) /\ (\A q \in D : key[q] \in Nat)
      /\ (\A p, q \in D : key[p] = key[q] => p = q)
  BY ThereIsFinite, FS_Subset DEF Distinct
<1>3. \A q \in D : Before(q) \cap D = Ahead(D, key, q)
  BY DEF Before, Ahead
<1>4. \A q \in D : Cardinality(Ahead(D, key, q)) \in Nat
  BY <1>2, AheadType
<1>5. l <= g + Cardinality(Ahead(D, key, r))
  BY <1>1, <1>3, <1>4 DEF Full
<1>6. taken = {q \in D : g + Cardinality(Ahead(D, key, q)) < l}
  BY <1>1, <1>3, <1>4 DEF Full
<1>. HIDE DEF taken
<1>7. IsFiniteSet(taken) /\ Cardinality(taken) \in Nat
  BY <1>2, <1>6, FS_Subset, FS_CardinalityType
<1>8. CASE l <= g
  BY <1>1, <1>7, <1>8 DEF Full
<1>9. CASE g < l
  <2>. DEFINE m == l - g
              Low == {q \in D : Cardinality(Ahead(D, key, q)) < m}
  <2>1. m \in Nat /\ m + g = l
    BY <1>1, <1>9
  <2>2. Cardinality(Ahead(D, key, r)) <= Cardinality(D) /\ Cardinality(D) \in Nat
    BY <1>2, FS_Subset, FS_CardinalityType DEF Ahead
  <2>. HIDE DEF m
  <2>3. m <= Cardinality(D)
    BY <1>1, <1>4, <1>5, <2>1, <2>2
  <2>4. Cardinality(Low) = m
    BY <1>2, <2>1, <2>3, FirstOnes
  <2>5. taken = Low
    BY <1>1, <1>4, <1>6, <2>1
  <2>6. g + Cardinality(taken) = l
    BY <1>1, <2>1, <2>4, <2>5
  <2>. QED
    BY <1>1, <2>6 DEF Full
<1>. QED
  BY <1>1, <1>8, <1>9

-----------------------------------------------------------------------------
(* The invariant holds at the start.                                        *)
LEMMA ListingStart == GitProvidersInit => ListingInv
<1>. SUFFICES ASSUME GitProvidersInit PROVE ListingInv
  OBVIOUS
<1>1. GitProvidersTypeOK
  <2>1. Cardinality(Remote) \in Nat
    BY GitProvidersAssumption, FS_CardinalityType
  <2>2. key \in [Remote -> Nat]
    BY <2>1 DEF GitProvidersInit
  <2>3. listing \in [at : {"loop", "ok", "failed", "unsupported"}, provider : Providers,
                    limit : Limits \cup {NoLimit}, page : Nat \ {0}, got : Nat,
                    found : SUBSET Remote]
    BY DEF GitProvidersInit
  <2>4. there \subseteq Remote /\ disturbed \subseteq Remote /\ shrunk \in BOOLEAN
    BY DEF GitProvidersInit
  <2>5. changes \in 0 .. MaxChanges
    BY GitProvidersAssumption DEF GitProvidersInit
  <2>. QED
    BY <2>2, <2>3, <2>4, <2>5 DEF GitProvidersTypeOK
<1>2. /\ listing.at = "loop" /\ listing.page = 1 /\ listing.found = {}
      /\ Distinct
  BY DEF GitProvidersInit, Distinct
<1>3. YetToCome
  BY <1>1, <1>2, BeforeType, PerPageType DEF YetToCome
<1>. QED
  BY <1>1, <1>2, <1>3 DEF ListingInv, FirstComeFirst, UntouchedIsListed

(* A listing that fails lists nothing.                                      *)
LEMMA FailsKeepsInv ==
  ASSUME ListingInv, Fails \/ Unsupported
  PROVE  ListingInv'
<1>1. listing' \in {[listing EXCEPT !.at = "failed", !.got = 0, !.found = {}],
                    [listing EXCEPT !.at = "unsupported"]}
      /\ UNCHANGED <<there, key, disturbed, shrunk, changes>>
  BY DEF Fails, Unsupported
<1>2. listing'.at \notin {"loop", "ok"}
      /\ listing' \in [at : {"loop", "ok", "failed", "unsupported"}, provider : Providers,
                      limit : Limits \cup {NoLimit}, page : Nat \ {0}, got : Nat,
                      found : SUBSET Remote]
  <2>1. CASE listing' = [listing EXCEPT !.at = "failed", !.got = 0, !.found = {}]
    BY <2>1 DEF ListingInv, GitProvidersTypeOK
  <2>2. CASE listing' = [listing EXCEPT !.at = "unsupported"]
    BY <2>2 DEF ListingInv, GitProvidersTypeOK
  <2>. QED
    BY <1>1, <2>1, <2>2
<1>3. GitProvidersTypeOK'
  BY <1>1, <1>2 DEF ListingInv, GitProvidersTypeOK
<1>. QED
  BY <1>1, <1>2, <1>3 DEF ListingInv, Distinct, YetToCome, FirstComeFirst, UntouchedIsListed

(* The page is taken in order, and what comes after it is on a later page,  *)
(* if it was full.                                                          *)
LEMMA TakePageKeepsInv ==
  ASSUME ListingInv, listing.at = "loop", TakePage
  PROVE  ListingInv'
<1>. DEFINE c(q) == Cardinality(Before(q) \cap Data)
            taken == {q \in Data : ~Full(listing.got + c(q))}
            got == listing.got + Cardinality(taken)
            last == Cardinality(Data) < PerPage
<1>1. /\ listing' = [listing EXCEPT !.at = IF last \/ Full(got) THEN "ok" ELSE "loop",
                                   !.page = @ + 1, !.got = got, !.found = @ \cup taken]
      /\ UNCHANGED <<there, key, disturbed, shrunk, changes>>
  BY DEF TakePage, Take
<1>2. GitProvidersTypeOK /\ Distinct /\ IsFiniteSet(there)
  BY ThereIsFinite DEF ListingInv
<1>3. Data \subseteq there /\ IsFiniteSet(Data) /\ taken \subseteq Data
  BY <1>2, FS_Subset DEF Data, Page
<1>4. Cardinality(taken) \in Nat
  BY <1>3, FS_Subset, FS_CardinalityType
<1>5. listing.page \in Nat \ {0} /\ listing.got \in Nat /\ there \subseteq Remote
      /\ listing.found \subseteq Remote /\ PerPage \in Nat \ {0}
  BY <1>2, PerPageType DEF GitProvidersTypeOK
<1>6. \A q \in Data : c(q) \in Nat
  BY <1>3, FS_Subset, FS_CardinalityType
<1>. HIDE DEF taken, last
<1>7. /\ listing'.at = (IF last \/ Full(got) THEN "ok" ELSE "loop")
      /\ listing'.page = listing.page + 1 /\ listing'.got = got
      /\ listing'.found = listing.found \cup taken /\ listing'.limit = listing.limit
  BY <1>1, <1>2 DEF GitProvidersTypeOK
<1>8. GitProvidersTypeOK'
  <2>1. got \in Nat /\ listing.page + 1 \in Nat \ {0} /\ listing.found \cup taken \subseteq Remote
    BY <1>3, <1>4, <1>5
  <2>. HIDE DEF got
  <2>. QED
    BY <1>1, <1>2, <2>1 DEF GitProvidersTypeOK
<1>9. Distinct' /\ (Full(listing.got)' <=> Full(got)) /\ PerPage' = PerPage
      /\ (\A r : Before(r)' = Before(r)) /\ Still' = Still
  <2>1. Distinct' /\ (\A r : Before(r)' = Before(r)) /\ Still' = Still
    BY <1>1, <1>2 DEF Distinct, Before, Still
  <2>2. (BranchList' <=> BranchList) /\ PerPage' = PerPage
    BY <1>7 DEF BranchList, PerPage
  <2>3. Full(listing.got)' <=> Full(got)
    <3>. HIDE DEF got
    <3>. QED
      BY <1>7, <2>2 DEF Full
  <2>. QED
    BY <2>1, <2>2, <2>3
<1>10. Still \subseteq there
  BY DEF Still
<1>11. ~shrunk => \A r \in Still \ listing.found :
         (listing.page - 1) * PerPage <= Cardinality(Before(r))
  BY DEF ListingInv, YetToCome
(* What is left after this round is after the page, or was too much. *)
<1>12. ASSUME ~shrunk, NEW r \in Still \ listing'.found
       PROVE  \/ listing.page * PerPage <= Cardinality(Before(r))
              \/ r \in Data /\ ~BranchList /\ Full(listing.got + c(r))
  <2>1. r \in Still \ listing.found /\ r \notin taken /\ r \in there
    BY <1>7, <1>10, <1>12
  <2>2. CASE r \in Data
    <3>1. Full(listing.got + c(r))
      BY <2>1, <2>2 DEF taken
    <3>. QED
      BY <2>2, <3>1 DEF Full
  <2>3. CASE r \notin Data
    <3>1. ~(Cardinality(Before(r)) < listing.page * PerPage)
      BY <1>11, <1>12, <2>1, <2>3 DEF Data, Page
    <3>2. Cardinality(Before(r)) \in Nat /\ listing.page * PerPage \in Nat
      BY <1>2, <1>5, BeforeType
    <3>. QED
      BY <3>1, <3>2
  <2>. QED
    BY <2>2, <2>3
<1>13. ASSUME NEW r \in Data, ~BranchList, Full(listing.got + c(r)) PROVE Full(got)
  BY <1>2, <1>3, <1>5, <1>13, TakenFills DEF taken
<1>14. ASSUME NEW r \in there, listing.page * PerPage <= Cardinality(Before(r)) PROVE ~last
  <2>1. Cardinality(Data) = PerPage
    BY <1>2, <1>5, <1>14, PageIsFull DEF Data
  <2>. QED
    BY <1>5, <2>1 DEF last
<1>15. YetToCome'
  <2>. SUFFICES ASSUME listing'.at = "loop", ~shrunk, NEW r \in Still \ listing'.found
                PROVE  (listing'.page - 1) * PerPage <= Cardinality(Before(r))
    BY <1>1, <1>9 DEF YetToCome
  <2>1. ~Full(got)
    BY <1>7
  <2>2. listing.page * PerPage <= Cardinality(Before(r))
    BY <1>12, <1>13, <2>1
  <2>3. listing'.page - 1 = listing.page
    BY <1>5, <1>7
  <2>. QED
    BY <2>2, <2>3
<1>16. FirstComeFirst'
  <2>. SUFFICES ASSUME ~shrunk, NEW q \in Still \cap listing'.found,
                       NEW r \in Still \ listing'.found
                PROVE  key[q] > key[r]
    BY <1>1, <1>9 DEF FirstComeFirst
  <2>1. /\ r \in there \ listing.found /\ q \in there /\ q # r
        /\ key[q] \in Nat /\ key[r] \in Nat
    BY <1>2, <1>7, <1>10, ThereIsFinite
  <2>2. CASE q \in listing.found
    BY <2>1, <2>2 DEF ListingInv, FirstComeFirst
  <2>3. CASE q \in taken
    <3>1. q \in Data /\ ~Full(listing.got + c(q))
      BY <2>3 DEF taken
    <3>. SUFFICES ASSUME key[r] > key[q] PROVE FALSE
      BY <1>2, <2>1 DEF Distinct
    <3>2. Cardinality(Before(r)) < Cardinality(Before(q))
      BY <1>2, <2>1, AheadGrows, BeforeIs, ThereIsFinite
    <3>3. Cardinality(Before(q)) < listing.page * PerPage
      BY <3>1 DEF Data, Page
    <3>4. /\ Cardinality(Before(q)) \in Nat /\ Cardinality(Before(r)) \in Nat
          /\ listing.page * PerPage \in Nat
      BY <1>2, <1>5, BeforeType
    <3>5. r \in Data /\ ~BranchList /\ Full(listing.got + c(r))
      <4>1. \/ listing.page * PerPage <= Cardinality(Before(r))
            \/ r \in Data /\ ~BranchList /\ Full(listing.got + c(r))
        BY <1>12
      <4>. QED
        BY <3>2, <3>3, <3>4, <4>1
    <3>6. Before(r) \cap Data \subseteq Before(q) \cap Data
      BY <1>2, <2>1, ThereIsFinite DEF Before
    <3>7. c(r) <= c(q)
      BY <1>3, <3>6, FS_Subset
    <3>8. c(r) \in Nat /\ c(q) \in Nat /\ listing.limit \in Nat
      BY <1>2, <1>6, <3>1, <3>5, PerPageType
    <3>. QED
      BY <1>5, <3>1, <3>5, <3>7, <3>8 DEF Full
  <2>. QED
    BY <1>7, <2>2, <2>3
<1>17. UntouchedIsListed'
  <2>. SUFFICES ASSUME listing'.at = "ok", ~shrunk, NEW r \in Still \ listing'.found
                PROVE  /\ Full(got)
                       /\ \A q \in Still \cap listing'.found : key[q] > key[r]
    BY <1>1, <1>9 DEF UntouchedIsListed
  <2>1. \A q \in Still \cap listing'.found : key[q] > key[r]
    BY <1>1, <1>9, <1>16 DEF FirstComeFirst
  <2>2. Full(got)
    <3>1. last \/ Full(got)
      BY <1>7
    <3>. QED
      BY <1>10, <1>12, <1>13, <1>14, <3>1
  <2>. QED
    BY <2>1, <2>2
<1>. QED
  BY <1>8, <1>9, <1>15, <1>16, <1>17 DEF ListingInv

(* What the provider does while a listing is under way: something comes or  *)
(* moves before others or behind them, and none of these moves forward.     *)
LEMMA ComesKeepsInv ==
  ASSUME ListingInv, NEW r \in Remote, Changes(r), there' = there \cup {r}, shrunk' = shrunk,
         NEW k \in Nat, key' = [key EXCEPT ![r] = k],
         \A q \in there \ {r} : key[q] # k,
         r \in there => k > key[r]
  PROVE  ListingInv'
<1>1. /\ listing.at = "loop" /\ listing' = listing /\ disturbed' = disturbed \cup {r}
      /\ changes' = changes + 1 /\ changes < MaxChanges
  BY DEF Changes
<1>2. GitProvidersTypeOK /\ key \in [Remote -> Nat] /\ there \subseteq Remote
  BY DEF ListingInv, GitProvidersTypeOK
<1>3. GitProvidersTypeOK'
  <2>1. changes' \in 0 .. MaxChanges
    BY <1>1, <1>2, GitProvidersAssumption DEF GitProvidersTypeOK
  <2>2. key' \in [Remote -> Nat]
    BY <1>2
  <2>. QED
    BY <1>1, <1>2, <2>1, <2>2 DEF GitProvidersTypeOK
<1>4. \A q \in Remote : key'[q] = IF q = r THEN k ELSE key[q]
  BY <1>2
<1>5. Distinct'
  BY <1>2, <1>4 DEF ListingInv, Distinct
<1>6. Still' \subseteq Still /\ r \notin Still' /\ Still' \subseteq there
  BY <1>1 DEF Still
<1>7. ASSUME NEW q \in Still' PROVE Cardinality(Before(q)) <= Cardinality(Before(q)')
  <2>1. Before(q) \subseteq Before(q)'
    BY <1>2, <1>4, <1>6 DEF Before
  <2>2. IsFiniteSet(Before(q)')
    <3>1. IsFiniteSet(there')
      BY <1>3, ThereIsFinite, FS_Subset, GitProvidersAssumption DEF GitProvidersTypeOK
    <3>. QED
      BY <3>1, FS_Subset DEF Before
  <2>. QED
    BY <2>1, <2>2, FS_Subset
<1>8. YetToCome'
  <2>. SUFFICES ASSUME ~shrunk, NEW q \in Still' \ listing.found
                PROVE  (listing.page - 1) * PerPage <= Cardinality(Before(q)')
    BY <1>1 DEF YetToCome, PerPage, BranchList
  <2>1. (listing.page - 1) * PerPage <= Cardinality(Before(q))
    BY <1>1, <1>6 DEF ListingInv, YetToCome
  <2>2. /\ Cardinality(Before(q)) \in Nat /\ listing.page - 1 \in Nat /\ PerPage \in Nat
        /\ Cardinality(Before(q)) <= Cardinality(Before(q)')
    BY <1>2, <1>7, BeforeType, PerPageType DEF GitProvidersTypeOK
  <2>3. Cardinality(Before(q)') \in Nat
    <3>1. IsFiniteSet(there')
      BY <1>3, FS_Subset, GitProvidersAssumption DEF GitProvidersTypeOK
    <3>. QED
      BY <3>1, FS_Subset, FS_CardinalityType DEF Before
  <2>4. (listing.page - 1) * PerPage \in Nat
    BY <2>2
  <2>. QED
    BY <2>1, <2>2, <2>3, <2>4
<1>9. FirstComeFirst'
  <2>1. \A q \in Still' : key'[q] = key[q]
    BY <1>2, <1>4, <1>6
  <2>. QED
    BY <1>1, <1>6, <2>1 DEF ListingInv, FirstComeFirst
<1>10. UntouchedIsListed'
  BY <1>1 DEF UntouchedIsListed
<1>. QED
  BY <1>3, <1>5, <1>8, <1>9, <1>10 DEF ListingInv

(* Every step of a listing keeps the invariant.                             *)
THEOREM ListingStep == ListingInv /\ [GitProvidersNext]_gitProvidersVars => ListingInv'
<1>. SUFFICES ASSUME ListingInv, [GitProvidersNext]_gitProvidersVars PROVE ListingInv'
  OBVIOUS
<1>1. CASE UNCHANGED gitProvidersVars
  BY <1>1 DEF gitProvidersVars, ListingInv, GitProvidersTypeOK, Distinct, YetToCome,
     FirstComeFirst, UntouchedIsListed, Still, Full, PerPage, BranchList, Before
<1>2. CASE GitHubRepositories \/ GitHubBranches \/ GitLabRepositories \/ GitLabBranches
  BY <1>2, TakePageKeepsInv, FailsKeepsInv
  DEF GitHubRepositories, GitHubBranches, GitLabRepositories, GitLabBranches, Looping
<1>3. CASE Unsupported
  BY <1>3, FailsKeepsInv
<1>4. ASSUME NEW r \in Remote, ToTheFront(r) PROVE ListingInv'
  <2>1. PICK k \in Unused : (\A q \in there : key[q] < k) /\ key' = [key EXCEPT ![r] = k]
    BY <1>4 DEF ToTheFront
  <2>2. k \in Nat
    BY FS_CardinalityType, GitProvidersAssumption DEF Unused
  <2>3. \A q \in there : key[q] \in Nat
    BY ThereIsFinite DEF ListingInv
  <2>4. Changes(r) /\ there' = there \cup {r} /\ shrunk' = shrunk
    BY <1>4 DEF ToTheFront
  <2>5. (\A q \in there \ {r} : key[q] # k) /\ (r \in there => k > key[r])
    BY <2>1, <2>2, <2>3
  <2>. QED
    BY <2>1, <2>2, <2>4, <2>5, ComesKeepsInv
<1>5. ASSUME NEW r \in Remote, Anywhere(r) PROVE ListingInv'
  <2>1. PICK k \in Unused : (\A q \in there : key[q] # k) /\ key' = [key EXCEPT ![r] = k]
    BY <1>5 DEF Anywhere
  <2>2. k \in Nat
    BY FS_CardinalityType, GitProvidersAssumption DEF Unused
  <2>3. Changes(r) /\ there' = there \cup {r} /\ shrunk' = shrunk /\ r \notin there
    BY <1>5 DEF Anywhere
  <2>. QED
    BY <2>1, <2>2, <2>3, ComesKeepsInv
<1>6. ASSUME NEW r \in Remote, Removed(r) PROVE ListingInv'
  <2>1. /\ there' = there \ {r} /\ shrunk' = TRUE /\ key' = key /\ listing' = listing
        /\ disturbed' = disturbed \cup {r} /\ changes' = changes + 1 /\ changes < MaxChanges
    BY <1>6 DEF Removed, Changes
  <2>2. GitProvidersTypeOK'
    BY <2>1, GitProvidersAssumption DEF ListingInv, GitProvidersTypeOK
  <2>. QED
    BY <2>1, <2>2 DEF ListingInv, Distinct, YetToCome, FirstComeFirst, UntouchedIsListed
<1>. QED
  BY <1>1, <1>2, <1>3, <1>4, <1>5, <1>6 DEF GitProvidersNext

(* A listing misses nothing that stayed where it was, but what comes after  *)
(* the limit, however many pages it takes and whatever comes meanwhile.     *)
THEOREM UntouchedAlwaysListed == GitProvidersSpec => []UntouchedIsListed
<1>1. ListingInv => UntouchedIsListed
  BY DEF ListingInv
<1>. QED
  BY <1>1, ListingStart, ListingStep, PTL DEF GitProvidersSpec

-----------------------------------------------------------------------------
(* What a connection's status is about                                      *)

(* A request that has begun.                                                *)
Asked == [at : {"test", "flush", "save", "delete", "link", "done", "error"},
          kind : {"create", "update", "test", "delete", "link"},
          row : Connections \cup {NoConnection}, new : Credentials \cup {NoCredential},
          result : Statuses]
(* It is between its first read and its answer; it has created a            *)
(* connection.                                                              *)
Asking(a, kind) == asks[a].at \in {"test", "save"} /\ asks[a].kind = kind
Created(a) == asks[a].at = "done" /\ asks[a].kind = "create"

(* A request in flight has read a row, and waits where its kind takes it.   *)
RowsAreReal ==
  \A a \in Askers :
    /\ asks[a].at \in {"flush", "test", "save"} => asks[a].row \in Connections
    /\ asks[a].at = "flush" => asks[a].kind = "update" /\ asks[a].result = "unknown"
    /\ asks[a].at \in {"test", "save"} => asks[a].kind \in {"create", "update", "test"}
    /\ asks[a].at \in {"delete", "link"} => asks[a].kind = asks[a].at
(* Of the requests that write before they test, at most one is in flight:   *)
(* its transaction keeps the others waiting.                                *)
WriterHolds ==
  \A a \in Askers :
    (Asking(a, "create") \/ Asking(a, "update")) <=> writer = a
(* A row that is being created is its creator's and nobody has judged it.   *)
CreatesOwn ==
  \A a \in Askers : Asking(a, "create") =>
    asks[a].row.id = a /\ asks[a].row.status = "unknown"
      /\ asks[a].row.about = asks[a].row.credential
(* An update has, while it tests a new credential, the verdict of the old   *)
(* one put aside.                                                           *)
UpdatesOwn ==
  \A a \in Askers : Asking(a, "update") =>
    IF Rotates(a)
    THEN /\ asks[a].row.credential = asks[a].new /\ asks[a].row.status = "unknown"
         /\ asks[a].at = "save" => asks[a].result # "unknown"
    ELSE asks[a].at = "save" /\ asks[a].result = "unknown"
(* Who reads a connection reads one whose creation was committed.           *)
IdsAreOfDone ==
  /\ ConnectionExists => Created(connection.id)
  /\ \A a \in Askers : Asking(a, "test") => Created(asks[a].row.id)
(* A test that nothing has overtaken has read the credential that is there. *)
TestsKnow ==
  \A a \in Askers : Asking(a, "test") /\ StillThere(a) /\ ~rotated =>
    asks[a].row.credential = connection.credential
(* The inductive invariant of the connections.                              *)
ConnectionsInv ==
  /\ GitConnectionsTypeOK /\ RowsAreReal /\ WriterHolds /\ CreatesOwn /\ UpdatesOwn
  /\ IdsAreOfDone /\ TestsKnow /\ VerdictIsOnCredential

(* What a request holds once it has begun.                                  *)
LEMMA Begun ==
  ASSUME GitConnectionsTypeOK, NEW a \in Askers, asks[a].at # "idle"
  PROVE  asks[a] \in Asked
BY DEF GitConnectionsTypeOK, Asked, Fresh

(* No connection is not a connection.                                       *)
LEMMA NotARow == NoConnection \notin Connections
BY GitConnectionsAssumption DEF Connections, Statuses

(* A request that begins. *)
LEMMA BeginsParts ==
  ASSUME ConnectionsInv, NEW a \in Askers,
         NEW at \in {"test", "flush", "delete", "link", "error"},
         NEW kind \in {"create", "update", "test", "delete", "link"},
         NEW row \in Connections \cup {NoConnection},
         NEW new \in Credentials \cup {NoCredential},
         BeginAsk(a, kind, at, row, new)
  PROVE  /\ asks[a].at = "idle"
         /\ asks'[a] \in Asked /\ asks'[a].at = at /\ asks'[a].kind = kind
         /\ asks'[a].row = row /\ asks'[a].new = new /\ asks'[a].result = "unknown"
         /\ \A b \in Askers \ {a} : asks'[b] = asks[b]
         /\ asks' \in [Askers -> {Fresh} \cup Asked]
<1>. DEFINE r == [at |-> at, kind |-> kind, row |-> row, new |-> new, result |-> "unknown"]
<1>1. r \in Asked
  BY DEF Asked, Statuses
<1>2. asks[a].at = "idle" /\ asks' = [asks EXCEPT ![a] = r]
  BY DEF BeginAsk
<1>3. asks \in [Askers -> {Fresh} \cup Asked]
  BY DEF ConnectionsInv, GitConnectionsTypeOK, Asked
<1>. HIDE DEF r
<1>4. asks'[a] = r /\ \A b \in Askers \ {a} : asks'[b] = asks[b]
  BY <1>2, <1>3
<1>5. asks' \in [Askers -> {Fresh} \cup Asked]
  BY <1>1, <1>2, <1>3
<1>6. r.at = at /\ r.kind = kind /\ r.row = row /\ r.new = new /\ r.result = "unknown"
  BY DEF r
<1>. QED
  BY <1>1, <1>2, <1>4, <1>5, <1>6

(* A request that goes on: only where it is changes. *)
LEMMA GoesOn ==
  ASSUME ConnectionsInv, NEW a \in Askers, asks[a].at # "idle",
         NEW at \in {"test", "save", "done", "error"}, Goes(a, at)
  PROVE  /\ asks'[a] \in Asked /\ asks'[a].at = at
         /\ asks'[a].kind = asks[a].kind /\ asks'[a].row = asks[a].row
         /\ asks'[a].new = asks[a].new /\ asks'[a].result = asks[a].result
         /\ \A b \in Askers \ {a} : asks'[b] = asks[b]
         /\ asks' \in [Askers -> {Fresh} \cup Asked]
<1>. DEFINE r == [asks[a] EXCEPT !.at = at]
<1>1. asks[a] \in Asked
  BY Begun DEF ConnectionsInv
<1>2. asks \in [Askers -> {Fresh} \cup Asked]
  BY DEF ConnectionsInv, GitConnectionsTypeOK, Asked
<1>3. asks' = [asks EXCEPT ![a] = r]
  BY <1>2 DEF Goes
<1>4. /\ r \in Asked /\ r.at = at /\ r.kind = asks[a].kind /\ r.row = asks[a].row
      /\ r.new = asks[a].new /\ r.result = asks[a].result
  BY <1>1 DEF Asked
<1>. HIDE DEF r
<1>. QED
  BY <1>2, <1>3, <1>4

(* What a commit makes of the row. *)
LEMMA Verdicts ==
  ASSUME NEW a \in Askers, asks[a] \in Asked, asks[a].row \in Connections,
         NEW row \in Connections
  PROVE  LET w == WithVerdict(a, row) IN
         /\ w \in Connections /\ w.id = row.id /\ w.credential = row.credential
         /\ w = row \/ (w.status = asks[a].result /\ w.about = asks[a].row.credential)
         /\ asks[a].result \notin {"unknown", asks[a].row.status} =>
              w.status = asks[a].result /\ w.about = asks[a].row.credential
         /\ asks[a].result = "unknown" => w = row
BY DEF WithVerdict, Connections, Statuses, Asked

(* The invariant holds at the start.                                        *)
LEMMA ConnectionsStart == GitConnectionsInit => ConnectionsInv
<1>. SUFFICES ASSUME GitConnectionsInit PROVE ConnectionsInv
  OBVIOUS
<1>1. \A a \in Askers : asks[a] = Fresh /\ asks[a].at = "idle"
  BY DEF GitConnectionsInit, Fresh
<1>2. GitConnectionsTypeOK
  BY DEF GitConnectionsInit, GitConnectionsTypeOK
<1>3. ~ConnectionExists /\ writer = NoAsker
  BY DEF GitConnectionsInit, ConnectionExists
<1>. QED
  BY <1>1, <1>2, <1>3, GitConnectionsAssumption
  DEF ConnectionsInv, RowsAreReal, WriterHolds, CreatesOwn, UpdatesOwn, IdsAreOfDone,
      TestsKnow, VerdictIsOnCredential, Asking

(* The steps that begin a request keep the row and who writes it, or claim  *)
(* it for the request.                                                      *)
LEMMA BeginsKeepInv ==
  ASSUME ConnectionsInv, NEW a \in Askers,
         NEW at \in {"test", "flush", "delete", "link", "error"},
         NEW kind \in {"create", "update", "test", "delete", "link"},
         NEW row \in Connections \cup {NoConnection},
         NEW new \in Credentials \cup {NoCredential},
         BeginAsk(a, kind, at, row, new),
         UNCHANGED <<connection, linked, rotated>>,
         at = "test" => kind \in {"create", "test"} /\ row \in Connections,
         at = "flush" => kind = "update" /\ row \in Connections,
         at \in {"delete", "link"} => kind = at,
         at = "test" /\ kind = "create" =>
           writer = NoAsker /\ row.id = a /\ row.status = "unknown"
             /\ row.about = row.credential,
         at = "test" /\ kind = "test" => row = connection,
         writer' = IF at = "test" /\ kind = "create" THEN a ELSE writer
  PROVE  ConnectionsInv'
<1>0. /\ asks[a].at = "idle"
      /\ asks'[a] \in Asked /\ asks'[a].at = at /\ asks'[a].kind = kind
      /\ asks'[a].row = row /\ asks'[a].new = new /\ asks'[a].result = "unknown"
      /\ \A b \in Askers \ {a} : asks'[b] = asks[b]
      /\ asks' \in [Askers -> {Fresh} \cup Asked]
  BY BeginsParts
<1>. USE <1>0
<1>1. asks[a].at = "idle"
  OBVIOUS
<1>2. GitConnectionsTypeOK'
  <2>1. writer' \in Askers \cup {NoAsker}
    BY DEF ConnectionsInv, GitConnectionsTypeOK
  <2>. QED
    BY <2>1 DEF ConnectionsInv, GitConnectionsTypeOK, Asked
<1>3. RowsAreReal'
  BY DEF ConnectionsInv, RowsAreReal
<1>4. WriterHolds'
  <2>1. ~Asking(a, "create") /\ ~Asking(a, "update") /\ writer # a
    BY <1>1 DEF Asking, ConnectionsInv, WriterHolds
  <2>2. \A b \in Askers \ {a}, k \in {"create", "update"} : Asking(b, k)' <=> Asking(b, k)
    BY DEF Asking
  <2>3. ~Asking(a, "update")' /\ (Asking(a, "create")' <=> at = "test" /\ kind = "create")
    BY DEF Asking
  <2>. QED
    BY <2>1, <2>2, <2>3, GitConnectionsAssumption DEF ConnectionsInv, WriterHolds
<1>5. CreatesOwn'
  BY DEF ConnectionsInv, CreatesOwn, Asking
<1>6. UpdatesOwn'
  BY DEF ConnectionsInv, UpdatesOwn, Asking, Rotates
<1>7. IdsAreOfDone'
  <2>1. \A b \in Askers : Created(b) => Created(b)'
    BY <1>1 DEF Created
  <2>2. ConnectionExists => connection.id \in Askers
    BY DEF ConnectionExists, ConnectionsInv, GitConnectionsTypeOK, Connections
  <2>3. \A b \in Askers : Asking(b, "test") => asks[b].row.id \in Askers
    BY DEF ConnectionsInv, RowsAreReal, Asking, Connections
  <2>4. ConnectionExists' => Created(connection.id)'
    BY <2>1, <2>2 DEF ConnectionsInv, IdsAreOfDone, ConnectionExists
  <2>5. ASSUME NEW b \in Askers, Asking(b, "test")' PROVE Created(asks[b].row.id)'
    <3>1. CASE b = a
      <4>1. at = "test" /\ kind = "test" /\ asks'[a].row = connection
        BY <2>5, <3>1 DEF Asking
      <4>2. ConnectionExists
        BY <4>1, NotARow DEF ConnectionExists
      <4>. QED
        BY <2>4, <3>1, <4>1, <4>2 DEF ConnectionExists
    <3>2. CASE b # a
      <4>1. Asking(b, "test") /\ asks'[b].row = asks[b].row
        BY <2>5, <3>2 DEF Asking
      <4>. QED
        BY <2>1, <2>3, <4>1 DEF ConnectionsInv, IdsAreOfDone
    <3>. QED
      BY <3>1, <3>2
  <2>. QED
    BY <2>4, <2>5 DEF IdsAreOfDone
<1>8. TestsKnow'
  BY DEF ConnectionsInv, TestsKnow, Asking, StillThere, ConnectionExists
<1>9. VerdictIsOnCredential'
  BY DEF ConnectionsInv, VerdictIsOnCredential, ConnectionExists
<1>. QED
  BY <1>2, <1>3, <1>4, <1>5, <1>6, <1>7, <1>8, <1>9 DEF ConnectionsInv

(* A request that ends without a word on the row: refused, done with a      *)
(* link, or dead.                                                           *)
LEMMA EndsKeepInv ==
  ASSUME ConnectionsInv, NEW a \in Askers, asks[a].at # "idle",
         asks[a].kind = "create" => asks[a].at # "done",
         NEW at \in {"done", "error"}, Goes(a, at), asks[a].kind = "create" => at = "error",
         linked' \subseteq Askers, connection' \in {connection, NoConnection},
         writer' = IF writer = a THEN NoAsker ELSE writer, rotated' = rotated
  PROVE  ConnectionsInv'
<1>0. /\ asks'[a] \in Asked /\ asks'[a].at = at
      /\ asks'[a].kind = asks[a].kind /\ asks'[a].row = asks[a].row
      /\ asks'[a].new = asks[a].new /\ asks'[a].result = asks[a].result
      /\ \A b \in Askers \ {a} : asks'[b] = asks[b]
      /\ asks' \in [Askers -> {Fresh} \cup Asked]
  BY GoesOn
<1>. USE <1>0
<1>1. GitConnectionsTypeOK'
  BY DEF ConnectionsInv, GitConnectionsTypeOK, Asked
<1>2. RowsAreReal'
  BY DEF ConnectionsInv, RowsAreReal
<1>3. WriterHolds'
  <2>1. \A b \in Askers \ {a}, k \in {"create", "update"} : Asking(b, k)' <=> Asking(b, k)
    BY DEF Asking
  <2>2. ~Asking(a, "update")' /\ ~Asking(a, "create")'
    BY DEF Asking
  <2>. QED
    BY <2>1, <2>2, GitConnectionsAssumption DEF ConnectionsInv, WriterHolds
<1>4. CreatesOwn'
  BY DEF ConnectionsInv, CreatesOwn, Asking
<1>5. UpdatesOwn'
  BY DEF ConnectionsInv, UpdatesOwn, Asking, Rotates
<1>6. IdsAreOfDone'
  <2>1. \A b \in Askers : Created(b) => Created(b)'
    BY DEF Created
  <2>2. ConnectionExists' => ConnectionExists /\ connection' = connection
    BY DEF ConnectionExists
  <2>3. ConnectionExists => connection.id \in Askers
    BY DEF ConnectionExists, ConnectionsInv, GitConnectionsTypeOK, Connections
  <2>4. \A b \in Askers : Asking(b, "test") => asks[b].row.id \in Askers
    BY DEF ConnectionsInv, RowsAreReal, Asking, Connections
  <2>5. \A b \in Askers : Asking(b, "test")' => Asking(b, "test") /\ asks'[b].row = asks[b].row
    BY DEF Asking
  <2>. QED
    BY <2>1, <2>2, <2>3, <2>4, <2>5 DEF ConnectionsInv, IdsAreOfDone
<1>7. TestsKnow'
  BY DEF ConnectionsInv, TestsKnow, Asking, StillThere, ConnectionExists
<1>8. VerdictIsOnCredential'
  BY DEF ConnectionsInv, VerdictIsOnCredential, ConnectionExists
<1>. QED
  BY <1>1, <1>2, <1>3, <1>4, <1>5, <1>6, <1>7, <1>8 DEF ConnectionsInv

(* The provider's answer is kept in the request, not yet in the row.        *)
LEMMA RunTestKeepsInv ==
  ASSUME ConnectionsInv, NEW a \in Askers, RunTest(a)
  PROVE  ConnectionsInv'
<1>1. TestResults = {"ok", "failed"}
  BY DEF TestResults, HttpTest, LsRemoteTest
<1>2. PICK v \in {"ok", "failed"} :
        asks' = [asks EXCEPT ![a] = [asks[a] EXCEPT !.at = "save", !.result = v]]
  BY <1>1, Begun DEF RunTest, ConnectionsInv, GitConnectionsTypeOK
<1>3. asks[a] \in Asked /\ asks[a].at = "test"
  BY Begun DEF RunTest, ConnectionsInv
<1>4. asks \in [Askers -> {Fresh} \cup Asked]
  BY DEF ConnectionsInv, GitConnectionsTypeOK, Asked
<1>. DEFINE r == [asks[a] EXCEPT !.at = "save", !.result = v]
<1>5. /\ r \in Asked /\ r.at = "save" /\ r.kind = asks[a].kind /\ r.row = asks[a].row
      /\ r.new = asks[a].new /\ r.result = v
  BY <1>3 DEF Asked, Statuses
<1>6. asks'[a] = r /\ \A b \in Askers \ {a} : asks'[b] = asks[b]
  BY <1>2, <1>4
<1>7. asks' \in [Askers -> {Fresh} \cup Asked]
  BY <1>2, <1>4, <1>5
<1>. HIDE DEF r
<1>8. UNCHANGED <<connection, linked, writer, rotated>>
  BY DEF RunTest
<1>9. \A b \in Askers, k \in {"create", "update", "test"} : Asking(b, k)' <=> Asking(b, k)
  BY <1>3, <1>5, <1>6 DEF Asking
<1>10. \A b \in Askers : Created(b)' <=> Created(b)
  BY <1>3, <1>5, <1>6 DEF Created
<1>11. \A b \in Askers : asks'[b].row = asks[b].row /\ asks'[b].new = asks[b].new
  BY <1>5, <1>6
<1>12. GitConnectionsTypeOK'
  BY <1>7, <1>8 DEF ConnectionsInv, GitConnectionsTypeOK, Asked
<1>13. RowsAreReal'
  BY <1>3, <1>5, <1>6 DEF ConnectionsInv, RowsAreReal
<1>14. WriterHolds' /\ CreatesOwn'
  BY <1>8, <1>9, <1>11 DEF ConnectionsInv, WriterHolds, CreatesOwn
<1>15. UpdatesOwn'
  BY <1>3, <1>5, <1>6, <1>9 DEF ConnectionsInv, UpdatesOwn, Asking, Rotates
<1>16. IdsAreOfDone'
  <2>1. ConnectionExists => connection.id \in Askers
    BY DEF ConnectionExists, ConnectionsInv, GitConnectionsTypeOK, Connections
  <2>2. \A b \in Askers : Asking(b, "test") => asks[b].row.id \in Askers
    BY DEF ConnectionsInv, RowsAreReal, Asking, Connections
  <2>. QED
    BY <1>8, <1>9, <1>10, <1>11, <2>1, <2>2 DEF ConnectionsInv, IdsAreOfDone, ConnectionExists
<1>17. TestsKnow' /\ VerdictIsOnCredential'
  BY <1>8, <1>9, <1>11
  DEF ConnectionsInv, TestsKnow, StillThere, ConnectionExists, VerdictIsOnCredential
<1>. QED
  BY <1>12, <1>13, <1>14, <1>15, <1>16, <1>17 DEF ConnectionsInv

(* The UPDATE that takes the row: nobody else has it, and the session then  *)
(* has the new credential and no verdict on it.                             *)
LEMMA FlushKeepsInv ==
  ASSUME ConnectionsInv, NEW a \in Askers, FlushUpdate(a), StillThere(a)
  PROVE  ConnectionsInv'
<1>. DEFINE at == IF Rotates(a) THEN "test" ELSE "save"
            old == asks[a].row
            row == [old EXCEPT !.credential = IF Rotates(a) THEN asks[a].new ELSE @,
                               !.status = IF Rotates(a) THEN "unknown" ELSE @]
            r == [asks[a] EXCEPT !.at = at, !.row = row]
<1>1. /\ asks[a].at = "flush" /\ asks[a] \in Asked /\ old \in Connections
      /\ asks[a].kind = "update" /\ asks[a].result = "unknown"
  BY Begun DEF FlushUpdate, ConnectionsInv, RowsAreReal
<1>2. asks \in [Askers -> {Fresh} \cup Asked]
  BY DEF ConnectionsInv, GitConnectionsTypeOK, Asked
<1>3. asks' = [asks EXCEPT ![a] = r]
  <2>1. asks' = [asks EXCEPT
               ![a].at = IF Rotates(a) THEN "test" ELSE "save",
               ![a].row.credential = IF Rotates(a) THEN asks[a].new ELSE @,
               ![a].row.status = IF Rotates(a) THEN "unknown" ELSE @]
    BY DEF FlushUpdate
  <2>. QED
    BY <1>1, <1>2, <2>1 DEF Asked, Connections
<1>4. /\ row \in Connections /\ row.id = old.id
      /\ Rotates(a) => row.credential = asks[a].new /\ row.status = "unknown"
  <2>1. asks[a].new \in Credentials \cup {NoCredential}
    BY <1>1 DEF Asked
  <2>. QED
    BY <1>1, <2>1 DEF Connections, Statuses, Rotates
<1>5. /\ r \in Asked /\ r.at = at /\ r.kind = "update" /\ r.row = row
      /\ r.new = asks[a].new /\ r.result = "unknown"
  BY <1>1, <1>4 DEF Asked
<1>. HIDE DEF r, row
<1>6. asks'[a] = r /\ \A b \in Askers \ {a} : asks'[b] = asks[b]
  BY <1>2, <1>3
<1>7. asks' \in [Askers -> {Fresh} \cup Asked]
  BY <1>2, <1>3, <1>5
<1>8. /\ UNCHANGED <<connection, linked, rotated>> /\ writer' = a /\ Free(a)
  BY DEF FlushUpdate
<1>9. GitConnectionsTypeOK'
  BY <1>7, <1>8 DEF ConnectionsInv, GitConnectionsTypeOK, Asked
<1>10. RowsAreReal'
  BY <1>4, <1>5, <1>6 DEF ConnectionsInv, RowsAreReal
<1>11. WriterHolds'
  <2>1. writer = NoAsker
    BY <1>1, <1>8 DEF Free, ConnectionsInv, WriterHolds, Asking
  <2>2. \A b \in Askers \ {a}, k \in {"create", "update"} : Asking(b, k)' <=> Asking(b, k)
    BY <1>6 DEF Asking
  <2>3. Asking(a, "update")'
    BY <1>5, <1>6 DEF Asking
  <2>. QED
    BY <1>8, <2>1, <2>2, <2>3, GitConnectionsAssumption DEF ConnectionsInv, WriterHolds
<1>12. CreatesOwn'
  BY <1>5, <1>6 DEF ConnectionsInv, CreatesOwn, Asking
<1>13. UpdatesOwn'
  BY <1>4, <1>5, <1>6 DEF ConnectionsInv, UpdatesOwn, Asking, Rotates
<1>14. IdsAreOfDone'
  <2>1. ConnectionExists => connection.id \in Askers
    BY DEF ConnectionExists, ConnectionsInv, GitConnectionsTypeOK, Connections
  <2>2. \A b \in Askers : Asking(b, "test") => asks[b].row.id \in Askers
    BY DEF ConnectionsInv, RowsAreReal, Asking, Connections
  <2>3. \A b \in Askers : Created(b) => Created(b)'
    BY <1>1, <1>6 DEF Created
  <2>4. \A b \in Askers : Asking(b, "test")' => Asking(b, "test") /\ asks'[b].row = asks[b].row
    BY <1>5, <1>6 DEF Asking
  <2>. QED
    BY <1>8, <2>1, <2>2, <2>3, <2>4 DEF ConnectionsInv, IdsAreOfDone, ConnectionExists
<1>15. TestsKnow'
  BY <1>5, <1>6, <1>8 DEF ConnectionsInv, TestsKnow, Asking, StillThere, ConnectionExists
<1>16. VerdictIsOnCredential'
  BY <1>8 DEF ConnectionsInv, VerdictIsOnCredential, ConnectionExists
<1>. QED
  BY <1>9, <1>10, <1>11, <1>12, <1>13, <1>14, <1>15, <1>16 DEF ConnectionsInv

(* A commit: a new row is free of a verdict or has its own; a replaced      *)
(* credential comes with the verdict on it; and the verdict of POST /test   *)
(* is on the credential that is there, unless that came since.              *)
LEMMA CommitKeepsInv ==
  ASSUME ConnectionsInv, NEW a \in Askers, Commit(a),
         asks[a].kind = "create" \/ StillThere(a)
  PROVE  ConnectionsInv'
<1>1. /\ asks[a].at = "save" /\ asks[a] \in Asked /\ asks[a].row \in Connections
      /\ asks[a].kind \in {"create", "update", "test"} /\ Goes(a, "done")
  BY Begun DEF Commit, ConnectionsInv, RowsAreReal
<1>2. /\ asks'[a] \in Asked /\ asks'[a].at = "done"
      /\ asks'[a].kind = asks[a].kind /\ asks'[a].row = asks[a].row
      /\ asks'[a].new = asks[a].new /\ asks'[a].result = asks[a].result
      /\ \A b \in Askers \ {a} : asks'[b] = asks[b]
      /\ asks' \in [Askers -> {Fresh} \cup Asked]
  BY <1>1, GoesOn
<1>3. /\ linked' = linked /\ writer' = IF writer = a THEN NoAsker ELSE writer
      /\ rotated' = (rotated \/ /\ asks[a].kind = "update" /\ Rotates(a)
                                /\ \E x \in Askers \ {a} :
                                     /\ asks[x].at \in {"test", "save"}
                                     /\ asks[x].kind = "test")
  BY DEF Commit
<1>4. asks[a].kind # "create" => connection \in Connections /\ connection.id = asks[a].row.id
  BY DEF StillThere, ConnectionExists, ConnectionsInv, GitConnectionsTypeOK
<1>. DEFINE Rotating == asks[a].kind = "update" /\ Rotates(a)
            Was == IF Rotating THEN [connection EXCEPT !.credential = asks[a].new]
                   ELSE connection
<1>5. /\ connection' \in Connections
      /\ connection'.id = IF asks[a].kind = "create" THEN a ELSE connection.id
      /\ asks[a].kind # "create" /\ ~Rotating => connection'.credential = connection.credential
      /\ ~rotated' /\ connection'.status # "unknown"
           => connection'.about = connection'.credential
  <2>1. CASE asks[a].kind = "create"
    <3>1. connection' = WithVerdict(a, asks[a].row)
      BY <2>1 DEF Commit
    <3>2. asks[a].row.id = a /\ asks[a].row.about = asks[a].row.credential
      BY <1>1, <2>1 DEF ConnectionsInv, CreatesOwn, Asking
    <3>. QED
      BY <1>1, <2>1, <3>1, <3>2, Verdicts
  <2>2. CASE Rotating
    <3>1. connection' = WithVerdict(a, Was)
      BY <2>2 DEF Commit
    <3>2. /\ asks[a].row.credential = asks[a].new /\ asks[a].row.status = "unknown"
          /\ asks[a].result # "unknown" /\ asks[a].new \in Credentials
      BY <1>1, <2>2 DEF ConnectionsInv, UpdatesOwn, Asking, Connections
    <3>3. Was \in Connections /\ Was.id = connection.id /\ Was.credential = asks[a].new
      BY <1>4, <2>2, <3>2 DEF Connections
    <3>. HIDE DEF Was
    <3>. QED
      BY <1>1, <2>2, <3>1, <3>2, <3>3, Verdicts
  <2>3. CASE asks[a].kind = "update" /\ ~Rotates(a)
    <3>1. connection' = WithVerdict(a, connection)
      BY <2>3 DEF Commit
    <3>2. asks[a].result = "unknown"
      BY <1>1, <2>3 DEF ConnectionsInv, UpdatesOwn, Asking
    <3>3. connection' = connection
      BY <1>1, <1>4, <2>3, <3>1, <3>2, Verdicts
    <3>. QED
      BY <1>3, <1>4, <2>3, <3>3, NotARow DEF ConnectionsInv, VerdictIsOnCredential, ConnectionExists
  <2>4. CASE asks[a].kind = "test"
    <3>1. connection' = WithVerdict(a, connection)
      BY <2>4 DEF Commit
    <3>2. ~rotated => asks[a].row.credential = connection.credential
      BY <1>1, <1>4, <2>4 DEF ConnectionsInv, TestsKnow, Asking, StillThere
    <3>3. ~rotated /\ connection.status # "unknown" => connection.about = connection.credential
      BY <1>4, <2>4 DEF ConnectionsInv, VerdictIsOnCredential, StillThere
    <3>. QED
      BY <1>1, <1>3, <1>4, <2>4, <3>1, <3>2, <3>3, Verdicts
  <2>. QED
    BY <1>1, <2>1, <2>2, <2>3, <2>4
<1>6. ConnectionExists'
  BY <1>5, NotARow DEF ConnectionExists
<1>7. GitConnectionsTypeOK'
  <2>1. writer' \in Askers \cup {NoAsker}
    BY <1>3 DEF ConnectionsInv, GitConnectionsTypeOK
  <2>. QED
    BY <1>2, <1>3, <1>5, <2>1 DEF ConnectionsInv, GitConnectionsTypeOK, Asked
<1>8. RowsAreReal'
  BY <1>2 DEF ConnectionsInv, RowsAreReal
<1>9. \A b \in Askers \ {a}, k \in {"create", "update", "test"} : Asking(b, k)' <=> Asking(b, k)
  BY <1>2 DEF Asking
<1>10. \A k \in {"create", "update", "test"} : ~Asking(a, k)'
  BY <1>2 DEF Asking
<1>11. WriterHolds'
  BY <1>3, <1>9, <1>10, GitConnectionsAssumption DEF ConnectionsInv, WriterHolds
<1>12. CreatesOwn'
  BY <1>2, <1>9, <1>10 DEF ConnectionsInv, CreatesOwn
<1>13. UpdatesOwn'
  BY <1>2, <1>9, <1>10 DEF ConnectionsInv, UpdatesOwn, Rotates
<1>14. \A b \in Askers : Created(b) => Created(b)'
  BY <1>1, <1>2 DEF Created
<1>15. \A b \in Askers : Asking(b, "test") => asks[b].row.id \in Askers
  BY DEF ConnectionsInv, RowsAreReal, Asking, Connections
<1>16. IdsAreOfDone'
  <2>1. Created(connection.id)'
    <3>1. CASE asks[a].kind = "create"
      BY <1>2, <1>5, <3>1 DEF Created
    <3>2. CASE asks[a].kind # "create"
      <4>1. connection.id \in Askers /\ ConnectionExists
        BY <1>4, <3>2, NotARow DEF Connections, ConnectionExists
      <4>. QED
        BY <1>5, <1>14, <3>2, <4>1 DEF ConnectionsInv, IdsAreOfDone
    <3>. QED
      BY <3>1, <3>2
  <2>2. \A b \in Askers : Asking(b, "test")' => Created(asks[b].row.id)'
    BY <1>2, <1>9, <1>10, <1>14, <1>15 DEF ConnectionsInv, IdsAreOfDone
  <2>. QED
    BY <2>1, <2>2 DEF IdsAreOfDone
<1>17. TestsKnow'
  <2>. SUFFICES ASSUME NEW b \in Askers, Asking(b, "test")', StillThere(b)', ~rotated'
                PROVE  asks'[b].row.credential = connection'.credential
    BY DEF TestsKnow
  <2>1. b # a /\ Asking(b, "test") /\ asks'[b].row = asks[b].row
    BY <1>2, <1>9, <1>10
  <2>2. ~Rotating /\ ~rotated
    BY <1>3, <2>1 DEF Asking
  <2>3. asks[a].kind # "create"
    <3>1. Created(asks[b].row.id)
      BY <2>1 DEF ConnectionsInv, IdsAreOfDone
    <3>2. asks[b].row.id = connection'.id
      BY <2>1 DEF StillThere
    <3>. QED
      BY <1>1, <1>5, <3>1, <3>2 DEF Created
  <2>4. StillThere(b)
    BY <1>4, <1>5, <2>1, <2>3, NotARow DEF StillThere, ConnectionExists
  <2>. QED
    BY <1>5, <2>1, <2>2, <2>3, <2>4 DEF ConnectionsInv, TestsKnow
<1>18. VerdictIsOnCredential'
  BY <1>5 DEF VerdictIsOnCredential
<1>. QED
  BY <1>7, <1>8, <1>11, <1>12, <1>13, <1>16, <1>17, <1>18 DEF ConnectionsInv

(* Every step of the connections keeps the invariant.                       *)
THEOREM ConnectionsStep == ConnectionsInv /\ [GitConnectionsNext]_gitConnectionsVars => ConnectionsInv'
<1>. SUFFICES ASSUME ConnectionsInv, [GitConnectionsNext]_gitConnectionsVars
              PROVE  ConnectionsInv'
  OBVIOUS
<1>1. CASE UNCHANGED gitConnectionsVars
  BY <1>1 DEF gitConnectionsVars, ConnectionsInv, GitConnectionsTypeOK, RowsAreReal, WriterHolds,
     CreatesOwn, UpdatesOwn, IdsAreOfDone, TestsKnow, VerdictIsOnCredential, Asking, Created,
     Rotates, StillThere, ConnectionExists
<1>. SUFFICES ASSUME NEW a \in Askers,
       \/ \E c \in Credentials : CreateConnection(a, c)
       \/ \E c \in Credentials \cup {NoCredential} : ReadUpdate(a, c)
       \/ FlushUpdate(a) \/ ReadTest(a) \/ RunTest(a) \/ Commit(a)
       \/ CheckDelete(a) \/ CommitDeletion(a)
       \/ ReadLink(a) \/ CommitLink(a) \/ Unlink(a) \/ AbortAsk(a)
              PROVE  ConnectionsInv'
  BY <1>1 DEF GitConnectionsNext
<1>0. /\ connection \in Connections \cup {NoConnection} /\ linked \subseteq Askers
      /\ ConnectionExists => connection \in Connections
  BY DEF ConnectionsInv, GitConnectionsTypeOK, ConnectionExists
<1>2. ASSUME NEW c \in Credentials, CreateConnection(a, c) PROVE ConnectionsInv'
  <2>. DEFINE row == [id |-> a, credential |-> c, status |-> "unknown", about |-> c]
  <2>1. /\ row \in Connections /\ row.id = a /\ row.status = "unknown"
        /\ row.about = row.credential
    BY DEF Connections, Statuses
  <2>2. CASE BeginAsk(a, "create", "error", NoConnection, c) /\ UNCHANGED writer
    BY <1>2, <2>2, BeginsKeepInv DEF CreateConnection
  <2>3. CASE /\ BeginAsk(a, "create", "test", row, c)
             /\ writer = NoAsker /\ writer' = a
    <3>1. UNCHANGED <<connection, linked, rotated>>
      BY <1>2 DEF CreateConnection
    <3>. HIDE DEF row
    <3>. QED
      BY <2>1, <2>3, <3>1, BeginsKeepInv
  <2>. QED
    BY <1>2, <2>2, <2>3 DEF CreateConnection
<1>3. ASSUME NEW c \in Credentials \cup {NoCredential}, ReadUpdate(a, c) PROVE ConnectionsInv'
  BY <1>0, <1>3, BeginsKeepInv DEF ReadUpdate
<1>4. CASE FlushUpdate(a)
  <2>1. CASE StillThere(a)
    BY <1>4, <2>1, FlushKeepsInv
  <2>2. CASE ~StillThere(a)
    <3>1. /\ asks[a].at = "flush" /\ Goes(a, "error")
          /\ UNCHANGED <<connection, linked, rotated, writer>>
      BY <1>4, <2>2 DEF FlushUpdate
    <3>2. writer # a /\ asks[a].kind = "update"
      BY <3>1 DEF ConnectionsInv, WriterHolds, RowsAreReal, Asking
    <3>. QED
      BY <1>0, <3>1, <3>2, EndsKeepInv
  <2>. QED
    BY <2>1, <2>2
<1>5. CASE ReadTest(a)
  BY <1>0, <1>5, BeginsKeepInv DEF ReadTest
<1>6. CASE RunTest(a)
  BY <1>6, RunTestKeepsInv
<1>7. CASE Commit(a)
  <2>1. CASE asks[a].kind = "create" \/ StillThere(a)
    BY <1>7, <2>1, CommitKeepsInv
  <2>2. CASE ~(asks[a].kind = "create" \/ StillThere(a))
    <3>1. /\ asks[a].at = "save" /\ Goes(a, "error")
          /\ UNCHANGED <<connection, linked, rotated>>
          /\ writer' = IF writer = a THEN NoAsker ELSE writer
      BY <1>7, <2>2 DEF Commit
    <3>. QED
      BY <1>0, <2>2, <3>1, EndsKeepInv
  <2>. QED
    BY <2>1, <2>2
<1>8. CASE CheckDelete(a)
  <2>1. (IF linked = {} THEN "delete" ELSE "error") \in {"test", "flush", "delete", "link", "error"}
    OBVIOUS
  <2>. QED
    BY <1>0, <1>8, <2>1, BeginsKeepInv DEF CheckDelete
<1>9. CASE CommitDeletion(a)
  <2>1. /\ asks[a].at = "delete"
        /\ UNCHANGED <<linked, writer, rotated>>
        /\ connection' \in {connection, NoConnection}
        /\ Goes(a, "done") \/ Goes(a, "error")
    BY <1>9 DEF CommitDeletion
  <2>2. writer # a /\ asks[a].kind # "create"
    BY <2>1 DEF ConnectionsInv, WriterHolds, RowsAreReal, Asking
  <2>. QED
    BY <1>0, <2>1, <2>2, EndsKeepInv
<1>10. CASE ReadLink(a)
  BY <1>0, <1>10, BeginsKeepInv DEF ReadLink
<1>11. CASE CommitLink(a)
  <2>1. /\ asks[a].at = "link" /\ UNCHANGED <<connection, writer, rotated>>
        /\ linked' \subseteq Askers
        /\ Goes(a, "done") \/ Goes(a, "error")
    BY <1>0, <1>11 DEF CommitLink
  <2>2. writer # a /\ asks[a].kind # "create"
    BY <2>1 DEF ConnectionsInv, WriterHolds, RowsAreReal, Asking
  <2>. QED
    BY <1>0, <2>1, <2>2, EndsKeepInv
<1>12. CASE Unlink(a)
  BY <1>0, <1>12 DEF Unlink, ConnectionsInv, GitConnectionsTypeOK, RowsAreReal, WriterHolds,
     CreatesOwn, UpdatesOwn, IdsAreOfDone, TestsKnow, VerdictIsOnCredential, Asking, Created,
     Rotates, StillThere, ConnectionExists
<1>13. CASE AbortAsk(a)
  <2>1. /\ asks[a].at \in {"flush", "test", "save", "delete", "link"} /\ Goes(a, "error")
        /\ writer' = IF writer = a THEN NoAsker ELSE writer
        /\ UNCHANGED <<connection, linked, rotated>>
    BY <1>13 DEF AbortAsk
  <2>. QED
    BY <1>0, <2>1, EndsKeepInv
<1>. QED
  BY <1>2, <1>3, <1>4, <1>5, <1>6, <1>7, <1>8, <1>9, <1>10, <1>11, <1>12, <1>13

(* The status that a connection shows is about the credential it holds, for *)
(* any number of requests that create, rotate, test, link and delete it at  *)
(* the same time.                                                           *)
THEOREM VerdictAlwaysOnCredential == GitConnectionsSpec => []VerdictIsOnCredential
<1>1. ConnectionsInv => VerdictIsOnCredential
  BY DEF ConnectionsInv
<1>. QED
  BY <1>1, ConnectionsStart, ConnectionsStep, PTL DEF GitConnectionsSpec

-----------------------------------------------------------------------------
(* What is bounded: the requests, the count of the window, the log, the     *)
(* rotations; and what is waiting or forgotten was there to be.             *)
WebhooksBounded ==
  /\ hook.secret <= MaxRotations /\ Len(log) <= Retention
  /\ Len(posts) <= MaxPosts /\ rate \in 0 .. Len(posts)
  /\ waiting \subseteq Listening /\ forgotten \subseteq Deliveries

LEMMA PrunedFits == ASSUME NEW s \in Seq(Row) PROVE Len(Pruned(s)) <= Retention
<1>1. CASE Len(s) > Retention
  <2>. DEFINE m == Len(s) - Retention + 1
  <2>1. Pruned(s) = SubSeq(s, m, Len(s)) /\ DOMAIN s = 1 .. Len(s)
    BY <1>1, Entries DEF Pruned
  <2>2. Len(s) \in Nat /\ Retention \in Nat \ {0} /\ m \in 1 .. Len(s)
    BY <1>1, WebhooksAssumption
  <2>3. \A i \in m .. Len(s) : s[i] \in Row
    BY <2>1, <2>2, Entries
  <2>4. Len(Pruned(s)) = Len(s) - m + 1
    BY <2>1, <2>2, <2>3, SubSeqProperties
  <2>. QED BY <2>2, <2>4
<1>2. CASE ~(Len(s) > Retention)
  BY <1>2, WebhooksAssumption DEF Pruned
<1>. QED BY <1>1, <1>2

LEMMA BoundedStart == WebhooksInit => WebhooksBounded
BY WebhooksAssumption DEF WebhooksInit, WebhooksBounded

LEMMA RecordStaysBounded ==
  ASSUME WebhooksInv, WebhooksBounded, NEW n \in DOMAIN posts,
         NEW id \in Deliveries \cup {NoDelivery},
         NEW code \in Nat, NEW answer, Record(n, id, code, answer)
  PROVE  WebhooksBounded'
<1>1. posts' = [posts EXCEPT ![n] = posts'[n]] /\ UNCHANGED <<hook, rate, waiting>>
  BY DEF Record, Answered
<1>2. Len(posts') = Len(posts)
  BY <1>1 DEF WebhooksInv, Typed
<1>3. CASE UNCHANGED <<log, forgotten>>
  BY <1>1, <1>2, <1>3 DEF WebhooksBounded
<1>4. CASE ~UNCHANGED <<log, forgotten>>
  <2>. DEFINE all == Append(log, [id |-> id, http_status |-> code])
  <2>1. /\ log' = Pruned(all)
        /\ forgotten' = forgotten \cup (IdsOf(all) \ (IdsOf(log') \cup {NoDelivery}))
    BY <1>4 DEF Record, IdsOf
  <2>2. log \in Seq(Row) /\ [id |-> id, http_status |-> code] \in Row
    BY DEF WebhooksInv, Typed, Row
  <2>3. all \in Seq(Row) /\ IdsOf(all) = IdsOf(log) \cup {id}
    BY <2>2, AppendIds
  <2>4. IdsOf(log) \subseteq Deliveries \cup {NoDelivery}
    <3>1. \A i \in DOMAIN log : log[i] \in Row
      BY <2>2, Entries
    <3>. QED BY <3>1 DEF IdsOf, Row
  <2>. HIDE DEF all
  <2>5. Len(log') <= Retention
    BY <2>1, <2>3, PrunedFits
  <2>. QED BY <1>1, <1>2, <2>1, <2>3, <2>4, <2>5 DEF WebhooksBounded
<1>. QED BY <1>3, <1>4

LEMMA RequestStaysBounded ==
  ASSUME WebhooksInv, WebhooksBounded, NEW n \in DOMAIN posts,
         Check(n) \/ Enqueue(n) \/ Answer(n) \/ Abort(n)
  PROVE  WebhooksBounded'
<1>1. posts \in Seq(Request) /\ posts[n] \in Request /\ posts[n].todo \subseteq Listening
  BY AtRequest DEF WebhooksInv, Typed, Request
<1>2. CASE Check(n) \/ Abort(n)
  <2>1. Len(posts') = Len(posts) /\ UNCHANGED <<hook, log, rate, waiting, forgotten>>
    BY <1>1, <1>2 DEF Check, Abort, Answered
  <2>. QED BY <2>1 DEF WebhooksBounded
<1>3. CASE Enqueue(n)
  <2>1. UNCHANGED <<hook, log, rate, forgotten>>
    BY <1>3 DEF Enqueue
  <2>2. waiting' \subseteq Listening
    BY <1>1, <1>3 DEF Enqueue, WebhooksBounded
  <2>3. \E q : posts' = [posts EXCEPT ![n] = q]
    BY <1>3 DEF Enqueue, Answered
  <2>4. Len(posts') = Len(posts)
    BY <1>1, <2>3
  <2>. QED BY <2>1, <2>2, <2>4 DEF WebhooksBounded
<1>4. CASE Answer(n)
  BY <1>4, AtRequest, RecordStaysBounded DEF Answer, WebhooksInv
<1>. QED BY <1>2, <1>3, <1>4

LEMMA BoundedStep ==
  WebhooksInv /\ WebhooksBounded /\ [WebhooksNext]_webhooksVars => WebhooksBounded'
<1>. SUFFICES ASSUME WebhooksInv, WebhooksBounded, [WebhooksNext]_webhooksVars
              PROVE  WebhooksBounded'
  OBVIOUS
<1>1. /\ posts \in Seq(Request) /\ log \in Seq(Row) /\ hook \in [linked : BOOLEAN, secret : Nat]
      /\ Len(posts) \in Nat
  BY DEF WebhooksInv, Typed
<1>2. CASE \E d \in Deliveries, signed \in 0 .. hook.secret : Receive(d, signed)
  <2>1. PICK post : posts' = Append(posts, post)
    BY <1>2 DEF Receive
  <2>0. Len(posts) < MaxPosts /\ rate' \in {rate, rate + 1}
    BY <1>2 DEF Receive
  <2>2. Len(posts') = Len(posts) + 1 /\ Len(posts') <= MaxPosts
    BY <1>1, <2>0, <2>1, WebhooksAssumption
  <2>3. rate' \in 0 .. Len(posts')
    BY <1>1, <2>0, <2>2 DEF WebhooksBounded
  <2>. QED BY <1>2, <2>2, <2>3 DEF Receive, WebhooksBounded
<1>3. CASE UNCHANGED webhooksVars \/ WindowEnds \/ BuildStarts
  BY <1>1, <1>3 DEF WindowEnds, BuildStarts, webhooksVars, WebhooksBounded
<1>4. CASE RotateSecret
  <2>1. hook'.secret = hook.secret + 1 /\ hook.secret < MaxRotations
    BY <1>1, <1>4 DEF RotateSecret
  <2>. QED BY <1>1, <1>4, <2>1, WebhooksAssumption DEF RotateSecret, WebhooksBounded
<1>5. CASE UnlinkRepository
  <2>1. hook'.secret = hook.secret /\ Len(log') = 0 /\ UNCHANGED <<rate, posts, waiting>>
    BY <1>1, <1>5 DEF UnlinkRepository
  <2>2. \A i \in DOMAIN log : log[i] \in Row
    BY <1>1, Entries
  <2>3. Ids \subseteq Deliveries \cup {NoDelivery}
    BY <2>2 DEF Ids, Row
  <2>. QED BY <1>5, <2>1, <2>3, WebhooksAssumption DEF UnlinkRepository, WebhooksBounded
<1>. QED BY <1>2, <1>3, <1>4, <1>5, RequestStaysBounded DEF WebhooksNext

(* The tables and the requests of the webhooks keep their types and their   *)
(* bounds: the log never outgrows the retention.                            *)
THEOREM WebhooksTypeCorrect == WebhooksSpec => []WebhooksTypeOK
<1>1. WebhooksInv /\ WebhooksBounded => WebhooksTypeOK
  <2>. SUFFICES ASSUME WebhooksInv, WebhooksBounded PROVE WebhooksTypeOK
    OBVIOUS
  <2>1. hook \in [linked : BOOLEAN, secret : 0 .. MaxRotations]
    BY WebhooksAssumption DEF WebhooksInv, Typed, WebhooksBounded
  <2>2. \A i \in DOMAIN log : log[i].id \in Deliveries \cup {NoDelivery}
    <3>1. log \in Seq(Row)
      BY DEF WebhooksInv, Typed
    <3>2. \A i \in DOMAIN log : log[i] \in Row
      BY <3>1, Entries
    <3>. QED BY <3>2 DEF Row
  <2>3. \A n \in DOMAIN posts : posts[n] \in Request
    BY AtRequest DEF WebhooksInv
  <2>4. rate \in 0 .. MaxPosts
    BY WebhooksAssumption, LenProperties DEF WebhooksInv, Typed, WebhooksBounded
  <2>. QED BY <2>1, <2>2, <2>3, <2>4 DEF WebhooksTypeOK, WebhooksBounded, Request
<1>. QED BY <1>1, BoundedStart, BoundedStep, WebhooksInvariant, PTL DEF WebhooksSpec

(* A listing keeps its type, and so does a connection with the requests     *)
(* that work on it.                                                         *)
THEOREM ProvidersTypeCorrect == GitProvidersSpec => []GitProvidersTypeOK
<1>1. ListingInv => GitProvidersTypeOK
  BY DEF ListingInv
<1>. QED BY <1>1, ListingStart, ListingStep, PTL DEF GitProvidersSpec

THEOREM ConnectionsTypeCorrect == GitConnectionsSpec => []GitConnectionsTypeOK
<1>1. ConnectionsInv => GitConnectionsTypeOK
  BY DEF ConnectionsInv
<1>. QED BY <1>1, ConnectionsStart, ConnectionsStep, PTL DEF GitConnectionsSpec
===============================================================================
