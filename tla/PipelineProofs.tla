---------------------------- MODULE PipelineProofs ----------------------------
(* What a pipeline says is what happens: notifications of a build come in    *)
(* the order of its moments, once and truly, for any numbers of builds and   *)
(* destinations; and what the compiler makes of a definition has steps that  *)
(* the agent takes, with names that tell them apart.                         *)
EXTENDS PipelineCompiler, Notifications, Integers, FiniteSetTheorems,
        WellFoundedInduction, TLAPS

(* Of numbers there is a smallest, and of numbers up to a bound a greatest. *)
LEMMA SmallestNumber ==
  ASSUME NEW T, T \subseteq Nat, T # {}
  PROVE  \E x \in T : \A y \in T : x <= y
<1>. DEFINE R == OpToRel(<, Nat)
<1>1. PICK x \in T : \A y \in T : ~ (<<y, x>> \in R)
  <2>. HIDE DEF R
  <2>1. IsWellFoundedOn(R, Nat)
    BY NatLessThanWellFounded DEF R
  <2>. QED BY <2>1, WFMin, Zenon
<1>2. \A y \in T : ~(y < x)
  BY <1>1 DEF OpToRel
<1>. QED BY <1>2

(* The greatest is n less the smallest of what n is more by.                *)
LEMMA GreatestIs ==
  ASSUME NEW n \in Nat, NEW S, S \subseteq 1 .. n, S # {}
  PROVE  (CHOOSE m \in S : \A k \in S : k <= m) \in S
<1>. DEFINE T == {n - u : u \in S}
<1>0. \A u \in S : u \in Int /\ 1 <= u /\ u <= n
  OBVIOUS
<1>1. T \subseteq Nat /\ T # {}
  <2>1. \A u \in S : n - u \in Nat
    BY <1>0
  <2>. QED BY <2>1
<1>2. PICK x \in T : \A y \in T : x <= y
  <2>. HIDE DEF T
  <2>. QED BY <1>1, SmallestNumber
<1>3. PICK t \in S : x = n - t
  OBVIOUS
<1>4. \A u \in S : u <= t
  <2>1. \A u \in S : n - t <= n - u
    BY <1>2, <1>3
  <2>. QED BY <1>0, <2>1
<1>. QED BY <1>4

-----------------------------------------------------------------------------
(* The moments of a build, in the order of Moments.                         *)
LEMMA Ranks == RankOf("started") = 1 /\ RankOf("waiting") = 2 /\ RankOf("ended") = 3
BY DEF RankOf, Moments

BuildRows == [branch : Branches, status : {"running", "success", "failed", "cancelled"},
              was : {"none", "success", "failed"}]
MomentNames == {"started", "waiting", "ended"}
Tasks == [moment : MomentNames, state : {"begun", "sending"},
          todo : SUBSET (EventNames \X Destinations)]
Messages == [moment : MomentNames, event : EventNames, to : Destinations]
NewsTyped ==
  /\ builds \in Seq(BuildRows) /\ Len(builds) <= MaxBuilds
  /\ sends \in [1 .. MaxBuilds -> Seq(Tasks)]
  /\ block \in [EventNames -> SUBSET Destinations] /\ block \in Blocks
  /\ adrift \subseteq (1 .. MaxBuilds) \X Messages
  /\ heard \in [1 .. MaxBuilds -> SUBSET Messages]

(* Of a build that did not fail, all that was before is settled, and what   *)
(* had become of its branch is what was noted when it began.                *)
Settled ==
  \A n \in DOMAIN builds : builds[n].status # "failed" =>
    /\ \A m \in 1 .. n - 1 : ~Runs(m)
    /\ \A branch \in Branches :
         builds[n].branch = branch => builds[n].was = LastOutcome(Outcomes(n, branch))

(* What arrived of a build, may arrive, or is about to be sent.             *)
Told(n, m) ==
  \/ m \in heard[n] \/ <<n, m>> \in adrift
  \/ \E k \in DOMAIN sends[n] : \E e \in sends[n][k].todo : m = Message(n, k, e)

(* A send waits for its turn, and asks what to say when it has come.        *)
InTurn(n) ==
  \A k \in DOMAIN sends[n] :
    /\ sends[n][k].state = "sending" => k = 1
    /\ sends[n][k].state = "begun" => sends[n][k].todo = {}
(* The end is told last, and once.                                          *)
EndLast(n) ==
  /\ \A k \in DOMAIN sends[n] : sends[n][k].moment = "ended" =>
       /\ k = Len(sends[n]) /\ n \in DOMAIN builds /\ ~Runs(n)
       /\ sends[n][k].state = "begun" => \A m : Told(n, m) => m.moment # "ended"
  /\ \A m : Told(n, m) /\ m.moment = "ended" => n \in DOMAIN builds /\ ~Runs(n)
(* What is told of a moment comes before what waits for its turn.           *)
InOrder(n) ==
  \A k \in DOMAIN sends[n] :
    /\ \A j \in 1 .. k : RankOf(sends[n][j].moment) <= RankOf(sends[n][k].moment)
    /\ \A m : Told(n, m) => RankOf(m.moment) <= RankOf(sends[n][k].moment)
(* What is told fits its moment and the branch, through one event.          *)
Fitting(n) ==
  \A m : Told(n, m) =>
    /\ n \in DOMAIN builds
    /\ m.moment = "started" => m.event = "on_start"
    /\ m.moment = "waiting" => m.event = "on_waiting"
    /\ m.event = "on_fixed" => builds[n].was = "failed"
    /\ \A l : Told(n, l) /\ l.moment = m.moment /\ l.to = m.to => l.event = m.event
NewsOf(n) ==
  /\ n \notin DOMAIN builds => sends[n] = <<>>
  /\ InTurn(n) /\ EndLast(n) /\ InOrder(n) /\ Fitting(n)
NewsInv == NewsTyped /\ Settled /\ \A n \in 1 .. MaxBuilds : NewsOf(n)

(* Nothing is told before the first build.                                  *)
LEMMA NewsStart == NotificationsInit => NewsInv
<1>. SUFFICES ASSUME NotificationsInit PROVE NewsInv
  OBVIOUS
<1>1. NewsTyped
  BY NotificationsAssumption DEF NotificationsInit, NewsTyped
<1>2. Settled
  BY DEF NotificationsInit, Settled
<1>3. ASSUME NEW n \in 1 .. MaxBuilds PROVE NewsOf(n)
  <2>1. sends[n] = <<>> /\ heard[n] = {} /\ adrift = {}
    BY DEF NotificationsInit
  <2>2. DOMAIN sends[n] = {} /\ \A m : ~Told(n, m)
    BY <2>1 DEF Told
  <2>. QED BY <2>1, <2>2 DEF NewsOf, InTurn, EndLast, InOrder, Fitting
<1>. QED BY <1>1, <1>2, <1>3 DEF NewsInv

(* Nothing is new of a build. *)
LEMMA OldNews ==
  ASSUME NEW n, NewsOf(n), sends'[n] = sends[n] \/ sends'[n] = <<>>,
         n \in DOMAIN builds => n \in DOMAIN builds' /\ builds'[n] = builds[n],
         n \notin DOMAIN builds => sends'[n] = sends[n],
         \A m : m \in heard'[n] \/ <<n, m>> \in adrift' => m \in heard[n] \/ <<n, m>> \in adrift
  PROVE  NewsOf(n)'
<1>1. \A m : Told(n, m)' => Told(n, m)
  BY DEF Told, Message
<1>2. CASE sends'[n] = <<>>
  <2>1. DOMAIN sends'[n] = {}
    BY <1>2
  <2>. QED BY <1>1, <1>2, <2>1 DEF NewsOf, InTurn, EndLast, InOrder, Fitting, Runs
<1>3. CASE sends'[n] = sends[n]
  BY <1>1, <1>3 DEF NewsOf, InTurn, EndLast, InOrder, Fitting, Runs
<1>. QED BY <1>2, <1>3

(* What is told of a build is a message.                                    *)
LEMMA ToldTyped ==
  ASSUME NewsTyped, NEW n \in 1 .. MaxBuilds, NEW m, Told(n, m)
  PROVE  m \in Messages
<1>1. CASE m \in heard[n] \/ <<n, m>> \in adrift
  BY <1>1 DEF NewsTyped
<1>2. ASSUME NEW k \in DOMAIN sends[n], NEW e \in sends[n][k].todo, m = Message(n, k, e)
      PROVE  m \in Messages
  <2>1. sends[n] \in Seq(Tasks) /\ sends[n][k] \in Tasks
    BY DEF NewsTyped
  <2>2. sends[n][k].moment \in MomentNames /\ e[1] \in EventNames /\ e[2] \in Destinations
    BY <2>1 DEF Tasks
  <2>. QED BY <1>2, <2>2 DEF Message, Messages
<1>. QED BY <1>1, <1>2 DEF Told

(* _send_in_background: a task is added behind the others of its build.     *)
LEMMA TaskAppended ==
  ASSUME NewsTyped, NEW n \in 1 .. MaxBuilds, NEW moment \in MomentNames,
         sends' = Tell(n, moment)
  PROVE  /\ sends' \in [1 .. MaxBuilds -> Seq(Tasks)]
         /\ Len(sends[n]) \in Nat /\ DOMAIN sends[n] = 1 .. Len(sends[n])
         /\ Len(sends'[n]) = Len(sends[n]) + 1 /\ DOMAIN sends'[n] = 1 .. Len(sends[n]) + 1
         /\ \A k \in 1 .. Len(sends[n]) : sends'[n][k] = sends[n][k]
         /\ sends'[n][Len(sends[n]) + 1].moment = moment
         /\ sends'[n][Len(sends[n]) + 1].state = "begun"
         /\ sends'[n][Len(sends[n]) + 1].todo = {}
         /\ \A i \in 1 .. MaxBuilds : i # n => sends'[i] = sends[i]
<1>. DEFINE q == sends[n]
<1>1. q \in Seq(Tasks) /\ Task(moment) \in Tasks
  BY DEF NewsTyped, Task, Tasks
<1>2. /\ Append(q, Task(moment)) \in Seq(Tasks) /\ Len(Append(q, Task(moment))) = Len(q) + 1
      /\ \A k \in 1 .. Len(q) : Append(q, Task(moment))[k] = q[k]
      /\ Append(q, Task(moment))[Len(q) + 1] = Task(moment)
  BY <1>1
<1>3. /\ sends'[n] = Append(q, Task(moment)) /\ sends' \in [1 .. MaxBuilds -> Seq(Tasks)]
      /\ \A i \in 1 .. MaxBuilds : i # n => sends'[i] = sends[i]
  BY <1>2 DEF NewsTyped, Tell
<1>4. Len(q) \in Nat /\ DOMAIN q = 1 .. Len(q)
  BY <1>1
<1>5. /\ Task(moment).moment = moment /\ Task(moment).state = "begun"
      /\ Task(moment).todo = {}
  BY DEF Task
<1>. HIDE DEF q
<1>6. DOMAIN sends'[n] = 1 .. Len(q) + 1
  BY <1>2, <1>3
<1>. QED BY <1>2, <1>3, <1>4, <1>5, <1>6 DEF q

(* A task that is added is told after the others, and the end last. *)
LEMMA TellKeeps ==
  ASSUME NewsTyped, NEW n \in 1 .. MaxBuilds, NEW moment \in MomentNames, NewsOf(n),
         sends' = Tell(n, moment), heard' = heard, adrift' = adrift, n \in DOMAIN builds',
         n \in DOMAIN builds => builds'[n].was = builds[n].was /\ Runs(n),
         moment = "started" => n \notin DOMAIN builds,
         moment = "ended" => ~Runs(n)'
  PROVE  NewsOf(n)'
<1>. DEFINE l == Len(sends[n])
<1>1. /\ l \in Nat /\ DOMAIN sends[n] = 1 .. l /\ Len(sends'[n]) = l + 1
      /\ DOMAIN sends'[n] = 1 .. l + 1 /\ \A k \in 1 .. l : sends'[n][k] = sends[n][k]
      /\ sends'[n][l + 1].moment = moment /\ sends'[n][l + 1].state = "begun"
      /\ sends'[n][l + 1].todo = {}
  BY TaskAppended
<1>. HIDE DEF l
<1>2. ASSUME NEW m PROVE Told(n, m)' <=> Told(n, m)
  <2>1. ASSUME NEW k \in DOMAIN sends'[n], NEW e \in sends'[n][k].todo, m = Message(n, k, e)'
        PROVE  Told(n, m)
    <3>1. k \in 1 .. l
      BY <1>1, <2>1
    <3>. QED BY <1>1, <2>1, <3>1 DEF Told, Message
  <2>2. ASSUME NEW k \in DOMAIN sends[n], NEW e \in sends[n][k].todo, m = Message(n, k, e)
        PROVE  Told(n, m)'
    <3>1. k \in 1 .. l
      BY <1>1
    <3>2. k \in DOMAIN sends'[n] /\ e \in sends'[n][k].todo /\ m = Message(n, k, e)'
      BY <1>1, <2>2, <3>1 DEF Message
    <3>. QED BY <3>2 DEF Told
  <2>. QED BY <2>1, <2>2 DEF Told
<1>3. /\ \A k \in 1 .. l : sends[n][k].moment # "ended"
      /\ \A m : Told(n, m) => m.moment # "ended"
  BY <1>1 DEF NewsOf, EndLast, Fitting
<1>4. InTurn(n)'
  <2>1. \A k \in 1 .. l + 1 : k \in 1 .. l \/ k = l + 1
    BY <1>1
  <2>. QED BY <1>1, <2>1 DEF NewsOf, InTurn
<1>5. EndLast(n)'
  <2>1. ASSUME NEW k \in 1 .. l + 1, sends'[n][k].moment = "ended"
        PROVE  k = l + 1 /\ moment = "ended"
    <3>1. k \in 1 .. l \/ k = l + 1
      BY <1>1
    <3>. QED BY <1>1, <1>3, <2>1, <3>1
  <2>2. \A m : Told(n, m)' => m.moment # "ended"
    BY <1>2, <1>3
  <2>. QED BY <1>1, <2>1, <2>2 DEF EndLast
<1>6. InOrder(n)'
  <2>1. ASSUME NEW x \in MomentNames, x # "ended" \/ moment = "ended",
               moment = "started" => x = "started"
        PROVE  RankOf(x) <= RankOf(moment)
    BY <2>1, Ranks DEF MomentNames
  <2>2. ASSUME NEW j \in 1 .. l PROVE RankOf(sends[n][j].moment) <= RankOf(moment)
    <3>1. sends[n] \in Seq(Tasks) /\ sends[n][j] \in Tasks
      BY <1>1 DEF NewsTyped
    <3>2. moment # "started"
      BY <1>1, <2>2 DEF NewsOf
    <3>. QED BY <1>3, <2>1, <3>1, <3>2 DEF Tasks
  <2>3. ASSUME NEW m, Told(n, m) PROVE RankOf(m.moment) <= RankOf(moment)
    <3>1. m.moment \in MomentNames
      BY <2>3, ToldTyped DEF Messages
    <3>2. moment # "started"
      BY <2>3 DEF NewsOf, Fitting
    <3>. QED BY <1>3, <2>1, <2>3, <3>1, <3>2
  <2>4. RankOf(moment) <= RankOf(moment)
    BY Ranks DEF MomentNames
  <2>5. \A k \in 1 .. l + 1 : k \in 1 .. l \/ k = l + 1
    BY <1>1
  <2>6. ASSUME NEW k \in 1 .. l + 1
        PROVE  /\ \A j \in 1 .. k : RankOf(sends'[n][j].moment) <= RankOf(sends'[n][k].moment)
               /\ \A m : Told(n, m) => RankOf(m.moment) <= RankOf(sends'[n][k].moment)
    <3>1. CASE k = l + 1
      BY <1>1, <2>2, <2>3, <2>4, <2>5, <3>1
    <3>2. CASE k \in 1 .. l
      <4>1. \A j \in 1 .. k : j \in 1 .. l
        BY <1>1, <3>2
      <4>. QED BY <1>1, <3>2, <4>1 DEF NewsOf, InOrder
    <3>. QED BY <2>5, <3>1, <3>2
  <2>. QED BY <1>1, <1>2, <2>6 DEF InOrder
<1>7. Fitting(n)'
  BY <1>2 DEF NewsOf, Fitting
<1>. QED BY <1>4, <1>5, <1>6, <1>7 DEF NewsOf

(* Of what is selected a destination hears through one event of the list. *)
LEMMA SelectedOnce ==
  ASSUME NewsTyped, NEW events \in Seq(EventNames)
  PROVE  /\ SelectNotifications(events) \subseteq EventNames \X Destinations
         /\ \A e \in SelectNotifications(events) : \E i \in DOMAIN events : e[1] = events[i]
         /\ \A e, f \in SelectNotifications(events) : e[2] = f[2] => e[1] = f[1]
<1>. DEFINE l == Len(events)
<1>1. l \in Nat /\ DOMAIN events = 1 .. l /\ \A i \in 1 .. l : events[i] \in EventNames
  OBVIOUS
<1>. HIDE DEF l
<1>2. ASSUME NEW e \in SelectNotifications(events)
      PROVE  \E i \in 1 .. l : \E d \in block[events[i]] :
               /\ e = <<events[i], d>>
               /\ \A j \in 1 .. i - 1 : d \notin block[events[j]]
  BY <1>1 DEF SelectNotifications
<1>3. ASSUME NEW e \in SelectNotifications(events)
      PROVE  /\ e \in EventNames \X Destinations
             /\ \E i \in DOMAIN events : e[1] = events[i]
  <2>1. PICK i \in 1 .. l : \E d \in block[events[i]] : e = <<events[i], d>>
    BY <1>2
  <2>2. PICK d \in block[events[i]] : e = <<events[i], d>>
    BY <2>1
  <2>3. events[i] \in EventNames /\ d \in Destinations
    BY <1>1 DEF NewsTyped
  <2>. QED BY <1>1, <2>2, <2>3
<1>4. ASSUME NEW e \in SelectNotifications(events), NEW f \in SelectNotifications(events),
             e[2] = f[2]
      PROVE  e[1] = f[1]
  <2>1. PICK i \in 1 .. l : \E d \in block[events[i]] :
               /\ e = <<events[i], d>>
               /\ \A j \in 1 .. i - 1 : d \notin block[events[j]]
    BY <1>2
  <2>2. PICK k \in 1 .. l : \E d \in block[events[k]] :
               /\ f = <<events[k], d>>
               /\ \A j \in 1 .. k - 1 : d \notin block[events[j]]
    BY <1>2
  <2>3. /\ e[1] = events[i] /\ e[2] \in block[events[i]]
        /\ \A j \in 1 .. i - 1 : e[2] \notin block[events[j]]
    BY <2>1
  <2>4. /\ f[1] = events[k] /\ f[2] \in block[events[k]]
        /\ \A j \in 1 .. k - 1 : f[2] \notin block[events[j]]
    BY <2>2
  <2>5. ~(i < k) /\ ~(k < i)
    BY <1>1, <1>4, <2>3, <2>4
  <2>6. i = k
    BY <1>1, <2>5
  <2>. QED BY <2>3, <2>4, <2>6
<1>. QED BY <1>3, <1>4

(* Sequences of two and three events, as the arms of SelectNotifications    *)
(* list them.                                                               *)
LEMMA Lists ==
  ASSUME NEW S, NEW a \in S, NEW b \in S, NEW c \in S
  PROVE  /\ <<b, c>> \in Seq(S) /\ \A i \in DOMAIN <<b, c>> : <<b, c>>[i] \in {b, c}
         /\ <<a, b, c>> \in Seq(S)
         /\ \A i \in DOMAIN <<a, b, c>> : <<a, b, c>>[i] \in {a, b, c}
         /\ <<a>> \o <<b, c>> = <<a, b, c>> /\ <<>> \o <<b, c>> = <<b, c>>
<1>2. <<b, c>> \in Seq(S) /\ \A i \in DOMAIN <<b, c>> : <<b, c>>[i] \in {b, c}
  OBVIOUS
<1>3. /\ <<a, b, c>> \in Seq(S)
      /\ \A i \in DOMAIN <<a, b, c>> : <<a, b, c>>[i] \in {a, b, c}
  OBVIOUS
<1>4. <<a>> \o <<b, c>> = <<a, b, c>>
  <2>. DEFINE s == <<a>> \o <<b, c>>
              t == <<a, b, c>>
  <2>1. DOMAIN s = 1 .. 3 /\ DOMAIN t = 1 .. 3
    OBVIOUS
  <2>2. s[1] = t[1] /\ s[2] = t[2] /\ s[3] = t[3]
    OBVIOUS
  <2>3. s = [i \in 1 .. 3 |-> s[i]] /\ t = [i \in 1 .. 3 |-> t[i]]
    OBVIOUS
  <2>. HIDE DEF s, t
  <2>4. \A i \in 1 .. 3 : s[i] = t[i]
    BY <2>2
  <2>5. s = t
    BY <2>3, <2>4
  <2>. QED BY <2>5 DEF s, t
<1>5. <<>> \o <<b, c>> = <<b, c>>
  OBVIOUS
<1>. QED BY <1>2, <1>3, <1>4, <1>5

(* The events of a moment are its own. *)
LEMMA EventsOfMoment ==
  ASSUME NEW n, NEW moment \in MomentNames
  PROVE  /\ MatchingEvents(n, moment) \in Seq(EventNames)
         /\ \A i \in DOMAIN MatchingEvents(n, moment) :
              LET e == MatchingEvents(n, moment)[i] IN
              /\ moment = "started" => e = "on_start"
              /\ moment = "waiting" => e = "on_waiting"
              /\ e = "on_fixed" => builds[n].status = "success" /\ PreviousBuildFailed(n)
<1>. SUFFICES ASSUME NEW events, events = MatchingEvents(n, moment)
     PROVE /\ events \in Seq(EventNames)
           /\ \A i \in DOMAIN events :
              /\ moment = "started" => events[i] = "on_start"
              /\ moment = "waiting" => events[i] = "on_waiting"
              /\ events[i] = "on_fixed" => builds[n].status = "success" /\ PreviousBuildFailed(n)
  OBVIOUS
<1>. EventNames = {"on_start", "on_waiting", "on_success", "on_fixed",
                   "on_failure", "on_cancelled", "on_complete"}
  BY DEF EventNames
<1>. moment \in {"started", "waiting", "ended"}
  BY DEF MomentNames
<1>1. CASE moment = "started"
  <2>1. events = <<"on_start">>
    BY <1>1 DEF MatchingEvents
  <2>2. events \in Seq(EventNames) /\ \A i \in DOMAIN events : events[i] = "on_start"
    BY <2>1
  <2>. QED BY <1>1, <2>2
<1>2. CASE moment = "waiting"
  <2>1. events = <<"on_waiting">>
    BY <1>2 DEF MatchingEvents
  <2>2. events \in Seq(EventNames) /\ \A i \in DOMAIN events : events[i] = "on_waiting"
    BY <2>1
  <2>. QED BY <1>2, <2>2
<1>3. CASE moment = "ended"
  <2>1. CASE builds[n].status = "success" /\ PreviousBuildFailed(n)
    <3>1. events = <<"on_fixed">> \o <<"on_success", "on_complete">>
      BY <1>3, <2>1 DEF MatchingEvents
    <3>2. events = <<"on_fixed", "on_success", "on_complete">>
      BY <3>1, Lists
    <3>3. events \in Seq(EventNames)
      BY <3>2, Lists
    <3>. QED BY <1>3, <2>1, <3>3
  <2>2. CASE builds[n].status = "success" /\ ~PreviousBuildFailed(n)
    <3>1. events = <<>> \o <<"on_success", "on_complete">>
      BY <1>3, <2>2 DEF MatchingEvents
    <3>2. events = <<"on_success", "on_complete">>
      BY <3>1, Lists
    <3>3. events \in Seq(EventNames) /\ \A i \in DOMAIN events : events[i] \in {"on_success", "on_complete"}
      BY <3>2, Lists
    <3>. QED BY <1>3, <3>3
  <2>3. CASE builds[n].status # "success"
    <3>1. PICK e \in {"on_failure", "on_cancelled"} : events = <<e, "on_complete">>
      BY <1>3, <2>3 DEF MatchingEvents
    <3>2. events \in Seq(EventNames) /\ \A i \in DOMAIN events : events[i] \in {e, "on_complete"}
      BY <3>1, Lists
    <3>. QED BY <1>3, <3>2
  <2>. QED BY <2>1, <2>2, <2>3
<1>. QED BY <1>1, <1>2, <1>3

(* Fewer are told of a build, and its tasks are the ones they were. *)
LEMMA Shrinks ==
  ASSUME NEW n, NewsOf(n), builds' = builds,
         DOMAIN sends'[n] = DOMAIN sends[n], Len(sends'[n]) = Len(sends[n]),
         sends[n] # <<>>,
         \A k \in DOMAIN sends[n] :
           /\ sends'[n][k].moment = sends[n][k].moment
           /\ sends'[n][k].state = sends[n][k].state
           /\ sends[n][k].state = "begun" => sends'[n][k].todo = sends[n][k].todo,
         \A m : Told(n, m)' => Told(n, m)
  PROVE  NewsOf(n)'
<1>1. InTurn(n)'
  BY DEF NewsOf, InTurn
<1>2. EndLast(n)'
  BY DEF NewsOf, EndLast, Runs
<1>3. InOrder(n)'
  <2>1. ASSUME NEW k \in DOMAIN sends'[n]
        PROVE  /\ \A j \in 1 .. k : RankOf(sends'[n][j].moment) <= RankOf(sends'[n][k].moment)
               /\ \A m : Told(n, m)' => RankOf(m.moment) <= RankOf(sends'[n][k].moment)
    BY DEF NewsOf, InOrder
  <2>. QED BY <2>1 DEF InOrder
<1>4. Fitting(n)'
  BY DEF NewsOf, Fitting
<1>. QED BY <1>1, <1>2, <1>3, <1>4 DEF NewsOf

(* How many builds and sends there are.                                     *)
LEMMA Sizes ==
  ASSUME NewsTyped
  PROVE  /\ Len(builds) \in Nat /\ DOMAIN builds = 1 .. Len(builds) /\ MaxBuilds \in Nat
         /\ DOMAIN builds \subseteq 1 .. MaxBuilds /\ Len(builds) <= MaxBuilds
         /\ \A n \in DOMAIN builds : builds[n] \in BuildRows
         /\ \A n \in 1 .. MaxBuilds :
              /\ sends[n] \in Seq(Tasks) /\ Len(sends[n]) \in Nat
              /\ DOMAIN sends[n] = 1 .. Len(sends[n])
              /\ \A k \in DOMAIN sends[n] : sends[n][k] \in Tasks
BY NotificationsAssumption DEF NewsTyped

(* What is a list of l entries of S.                                        *)
LEMMA ListOf ==
  ASSUME NEW S, NEW l \in Nat, NEW t, t = [i \in 1 .. l |-> t[i]], \A i \in 1 .. l : t[i] \in S
  PROVE  t \in Seq(S) /\ Len(t) = l /\ DOMAIN t = 1 .. l
<1>1. [i \in 1 .. l |-> t[i]] \in Seq(S) /\ Len([i \in 1 .. l |-> t[i]]) = l
  OBVIOUS
<1>. QED BY <1>1

(* What is selected when its turn has come is told of the build in order,   *)
(* fits, and nothing else of its moment was told.                           *)
LEMMA ReadKeeps ==
  ASSUME NewsTyped, Settled, NEW n \in DOMAIN builds, NewsOf(n),
         NEW k \in DOMAIN sends[n], ReadBlock(n, k)
  PROVE  NewsTyped' /\ NewsOf(n)'
<1>. DEFINE mo == sends[n][1].moment
            new == SelectNotifications(MatchingEvents(n, mo))
            Msg(e) == [moment |-> mo, event |-> e[1], to |-> e[2]]
<1>1. k = 1 /\ n \in 1 .. MaxBuilds
  BY NotificationsAssumption DEF NewsTyped, ReadBlock, MayBegin
<1>2. /\ sends \in [1 .. MaxBuilds -> Seq(Tasks)] /\ sends[n] \in Seq(Tasks)
      /\ 1 \in DOMAIN sends[n] /\ sends[n][1] \in Tasks
      /\ Len(sends[n]) \in Nat /\ DOMAIN sends[n] = 1 .. Len(sends[n])
  BY <1>1 DEF NewsTyped
<1>3. /\ mo \in MomentNames
      /\ sends[n][1].todo = {} /\ sends[n][1].state = "begun"
      /\ \A j \in DOMAIN sends[n] : j # 1 => sends[n][j].state = "begun" /\ sends[n][j].todo = {}
  <2>1. mo \in MomentNames /\ sends[n][1].state = "begun"
    BY <1>1, <1>2 DEF Tasks, ReadBlock
  <2>2. ASSUME NEW j \in DOMAIN sends[n]
        PROVE  /\ sends[n][j].state \in {"begun", "sending"}
               /\ sends[n][j].state = "sending" => j = 1
               /\ sends[n][j].state = "begun" => sends[n][j].todo = {}
    <3>1. sends[n][j] \in Tasks
      BY <1>2
    <3>. QED BY <3>1 DEF Tasks, NewsOf, InTurn
  <2>. QED BY <1>2, <2>1, <2>2
<1>4. /\ new \subseteq EventNames \X Destinations
      /\ \A e \in new :
           /\ mo = "started" => e[1] = "on_start"
           /\ mo = "waiting" => e[1] = "on_waiting"
           /\ e[1] = "on_fixed" => builds[n].status = "success" /\ PreviousBuildFailed(n)
      /\ \A e, f \in new : e[2] = f[2] => e[1] = f[1]
  <2>. DEFINE events == MatchingEvents(n, mo)
  <2>. HIDE DEF mo
  <2>1. /\ events \in Seq(EventNames)
        /\ \A i \in DOMAIN events :
              /\ mo = "started" => events[i] = "on_start"
              /\ mo = "waiting" => events[i] = "on_waiting"
              /\ events[i] = "on_fixed" => builds[n].status = "success" /\ PreviousBuildFailed(n)
    BY <1>3, EventsOfMoment
  <2>. HIDE DEF events
  <2>2. /\ SelectNotifications(events) \subseteq EventNames \X Destinations
        /\ \A e \in SelectNotifications(events) : \E i \in DOMAIN events : e[1] = events[i]
        /\ \A e, f \in SelectNotifications(events) : e[2] = f[2] => e[1] = f[1]
    BY <2>1, SelectedOnce
  <2>3. new = SelectNotifications(events)
    BY DEF events
  <2>. QED BY <2>1, <2>2, <2>3
<1>. HIDE DEF new
<1>5. /\ sends'[n] = [sends[n] EXCEPT ![1].state = "sending", ![1].todo = new]
      /\ sends' = [sends EXCEPT ![n] = sends'[n]]
  BY <1>1, <1>2 DEF ReadBlock, new
<1>6. /\ DOMAIN sends'[n] = DOMAIN sends[n] /\ Len(sends'[n]) = Len(sends[n])
      /\ sends'[n] \in Seq(Tasks)
      /\ sends'[n][1] = [sends[n][1] EXCEPT !.state = "sending", !.todo = new]
      /\ \A j \in DOMAIN sends[n] : j # 1 => sends'[n][j] = sends[n][j]
  <2>1. [sends[n][1] EXCEPT !.state = "sending", !.todo = new] \in Tasks
    BY <1>2, <1>4 DEF Tasks
  <2>2. /\ \A j \in DOMAIN sends[n] : j # 1 => sends'[n][j] = sends[n][j]
        /\ sends'[n][1] = [sends[n][1] EXCEPT !.state = "sending", !.todo = new]
        /\ sends'[n] = [j \in DOMAIN sends[n] |-> sends'[n][j]]
    BY <1>2, <1>5
  <2>3. \A j \in 1 .. Len(sends[n]) : sends'[n][j] \in Tasks
    <3>1. \A j \in 1 .. Len(sends[n]) : sends[n][j] \in Tasks
      BY <1>2
    <3>. QED BY <1>2, <2>1, <2>2, <3>1
  <2>4. sends'[n] = [j \in 1 .. Len(sends[n]) |-> sends'[n][j]]
    BY <1>2, <2>2
  <2>5. /\ sends'[n] \in Seq(Tasks) /\ Len(sends'[n]) = Len(sends[n])
        /\ DOMAIN sends'[n] = 1 .. Len(sends[n])
    BY <1>2, <2>3, <2>4, ListOf
  <2>. QED BY <1>2, <2>2, <2>5
<1>7. sends'[n][1].moment = mo /\ sends'[n][1].state = "sending" /\ sends'[n][1].todo = new
  BY <1>2, <1>6 DEF Tasks
<1>8. NewsTyped'
  <2>1. sends' \in [1 .. MaxBuilds -> Seq(Tasks)]
    BY <1>1, <1>2, <1>5, <1>6
  <2>. QED BY <2>1 DEF NewsTyped, ReadBlock
<1>9. ASSUME NEW m
      PROVE  Told(n, m)' <=> Told(n, m) \/ \E e \in new : m = Msg(e)
  <2>1. heard' = heard /\ adrift' = adrift
    BY DEF ReadBlock
  <2>2. ASSUME NEW j \in DOMAIN sends'[n], NEW e \in sends'[n][j].todo, m = Message(n, j, e)'
        PROVE  Told(n, m) \/ \E f \in new : m = Msg(f)
    <3>1. CASE j = 1
      BY <1>7, <2>2, <3>1 DEF Message
    <3>2. CASE j # 1
      BY <1>6, <2>2, <3>2 DEF Message, Told
    <3>. QED BY <3>1, <3>2
  <2>3. ASSUME NEW j \in DOMAIN sends[n], NEW e \in sends[n][j].todo, m = Message(n, j, e)
        PROVE  Told(n, m)'
    <3>1. j # 1
      BY <1>3, <2>3
    <3>2. j \in DOMAIN sends'[n] /\ e \in sends'[n][j].todo /\ m = Message(n, j, e)'
      BY <1>6, <2>3, <3>1 DEF Message
    <3>. QED BY <3>2 DEF Told
  <2>4. ASSUME NEW e \in new, m = Msg(e) PROVE Told(n, m)'
    <3>1. 1 \in DOMAIN sends'[n] /\ e \in sends'[n][1].todo /\ m = Message(n, 1, e)'
      BY <1>2, <1>6, <1>7, <2>4 DEF Message
    <3>. QED BY <3>1 DEF Told
  <2>. QED BY <2>1, <2>2, <2>3, <2>4 DEF Told
<1>10. /\ builds' = builds
       /\ mo = "ended" => /\ n \in DOMAIN builds /\ ~Runs(n) /\ Len(sends[n]) = 1
                          /\ \A m : Told(n, m) => m.moment # "ended"
  BY <1>2, <1>3 DEF NewsOf, EndLast, ReadBlock
<1>11. InTurn(n)'
  <2>1. ASSUME NEW j \in DOMAIN sends'[n]
        PROVE  /\ sends'[n][j].state = "sending" => j = 1
               /\ sends'[n][j].state = "begun" => sends'[n][j].todo = {}
    <3>1. CASE j = 1
      BY <1>7, <3>1
    <3>2. CASE j # 1
      BY <1>3, <1>6, <3>2
    <3>. QED BY <3>1, <3>2
  <2>. QED BY <2>1 DEF InTurn
<1>12. EndLast(n)'
  <2>1. \A e : Msg(e).moment = mo
    OBVIOUS
  <2>. HIDE DEF Msg, mo
  <2>2. ASSUME NEW m, Told(n, m)', m.moment = "ended"
        PROVE  n \in DOMAIN builds /\ ~Runs(n)
    BY <1>9, <1>10, <2>1, <2>2 DEF NewsOf, EndLast
  <2>3. ASSUME NEW j \in DOMAIN sends[n], sends'[n][j].moment = "ended"
        PROVE  /\ j = Len(sends[n]) /\ n \in DOMAIN builds /\ ~Runs(n)
               /\ sends'[n][j].state = "begun" => \A m : Told(n, m)' => m.moment # "ended"
    <3>1. CASE j = 1
      BY <1>2, <1>7, <1>10, <2>3, <3>1
    <3>2. CASE j # 1
      <4>1. sends'[n][j] = sends[n][j]
        BY <1>6, <3>2
      <4>2. /\ j = Len(sends[n]) /\ n \in DOMAIN builds /\ ~Runs(n)
            /\ \A m : Told(n, m) => m.moment # "ended"
        BY <1>3, <2>3, <3>2, <4>1 DEF NewsOf, EndLast
      <4>3. mo # "ended"
        BY <1>10, <3>2, <4>2
      <4>. QED BY <1>9, <2>1, <4>2, <4>3
    <3>. QED BY <3>1, <3>2
  <2>. QED BY <1>6, <1>10, <2>2, <2>3 DEF EndLast, Runs
<1>13. InOrder(n)'
  <2>1. \A e : Msg(e).moment = mo
    OBVIOUS
  <2>2. \A j \in DOMAIN sends[n] : sends'[n][j].moment = sends[n][j].moment
    BY <1>6, <1>7
  <2>3. \A j \in DOMAIN sends[n] : RankOf(mo) <= RankOf(sends[n][j].moment)
    <3>1. \A j \in 1 .. Len(sends[n]) : 1 \in 1 .. j
      BY <1>2
    <3>. QED BY <1>2, <3>1 DEF NewsOf, InOrder
  <2>. HIDE DEF Msg, mo
  <2>4. ASSUME NEW j \in DOMAIN sends[n]
        PROVE  /\ \A i \in 1 .. j : RankOf(sends'[n][i].moment) <= RankOf(sends'[n][j].moment)
               /\ \A m : Told(n, m)' => RankOf(m.moment) <= RankOf(sends'[n][j].moment)
    <3>1. \A i \in 1 .. j : i \in DOMAIN sends[n]
      BY <1>2
    <3>. QED BY <1>9, <2>1, <2>2, <2>3, <3>1 DEF NewsOf, InOrder
  <2>. QED BY <1>6, <2>4 DEF InOrder
<1>14. Fitting(n)'
  <2>1. \A e : Msg(e).moment = mo /\ Msg(e).event = e[1] /\ Msg(e).to = e[2]
    OBVIOUS
  <2>2. builds[n].status = "success" /\ PreviousBuildFailed(n) => builds[n].was = "failed"
    <3>1. builds[n].branch \in Branches
      BY Sizes DEF BuildRows
    <3>. QED BY <3>1 DEF Settled, PreviousBuildFailed
  <2>. HIDE DEF Msg, mo
  <2>3. ASSUME NEW m, Told(n, m)'
        PROVE  /\ m.moment = "started" => m.event = "on_start"
               /\ m.moment = "waiting" => m.event = "on_waiting"
               /\ m.event = "on_fixed" => builds[n].was = "failed"
    <3>1. CASE Told(n, m)
      BY <3>1 DEF NewsOf, Fitting
    <3>2. CASE \E e \in new : m = Msg(e)
      BY <1>4, <2>1, <2>2, <3>2
    <3>. QED BY <1>9, <2>3, <3>1, <3>2
  <2>4. ASSUME NEW m, Told(n, m), NEW e \in new, m.moment = mo
        PROVE  m.event = e[1]
    <3>1. mo # "ended"
      BY <1>10, <2>4
    <3>. QED BY <1>3, <1>4, <2>4, <3>1 DEF NewsOf, Fitting, MomentNames
  <2>5. ASSUME NEW m, Told(n, m)', NEW l, Told(n, l)', l.moment = m.moment, l.to = m.to
        PROVE  l.event = m.event
    <3>1. CASE Told(n, m) /\ Told(n, l)
      BY <2>5, <3>1 DEF NewsOf, Fitting
    <3>2. CASE \E e \in new : m = Msg(e) /\ Told(n, l)
      BY <2>1, <2>4, <2>5, <3>2
    <3>3. CASE \E e \in new : l = Msg(e) /\ Told(n, m)
      BY <2>1, <2>4, <2>5, <3>3
    <3>4. CASE \E e, f \in new : m = Msg(e) /\ l = Msg(f)
      BY <1>4, <2>1, <2>5, <3>4
    <3>. QED BY <1>9, <2>5, <3>1, <3>2, <3>3, <3>4
  <2>. QED BY <1>10, <2>3, <2>5 DEF Fitting
<1>. QED BY <1>8, <1>10, <1>11, <1>12, <1>13, <1>14 DEF NewsOf

(* What became of a branch before a build is an outcome, or there is none.  *)
LEMMA LastOutcomeIs ==
  ASSUME NewsTyped, NEW n \in Nat, NEW b
  PROVE  /\ LastOutcome(Outcomes(n, b)) \in {"none", "success", "failed"}
         /\ Outcomes(n, b) # {} => \E m \in DOMAIN builds :
              /\ m < n /\ m = (CHOOSE x \in Outcomes(n, b) : \A k \in Outcomes(n, b) : k <= x)
              /\ LastOutcome(Outcomes(n, b)) = builds[m].status
<1>1. CASE Outcomes(n, b) = {}
  BY <1>1 DEF LastOutcome
<1>2. CASE Outcomes(n, b) # {}
  <2>. DEFINE S == Outcomes(n, b)
              m == CHOOSE x \in S : \A k \in S : k <= x
  <2>1. /\ S \subseteq DOMAIN builds /\ \A x \in S : x < n
        /\ \A x \in S : builds[x].status \in {"success", "failed"}
    BY DEF Outcomes
  <2>2. S \subseteq 1 .. Len(builds) /\ S # {} /\ Len(builds) \in Nat
    BY <1>2, <2>1, Sizes
  <2>3. LastOutcome(S) = builds[m].status
    BY <1>2 DEF LastOutcome
  <2>. HIDE DEF S
  <2>4. m \in S
    BY <2>2, GreatestIs
  <2>5. m \in DOMAIN builds /\ m < n /\ LastOutcome(S) \in {"success", "failed"}
    BY <2>1, <2>3, <2>4
  <2>. HIDE DEF m
  <2>6. LastOutcome(S) \in {"none", "success", "failed"}
    BY <2>5
  <2>. QED BY <2>3, <2>5, <2>6 DEF S, m
<1>. QED BY <1>1, <1>2

(* It is not changed by what becomes of later builds. *)
LEMMA SamePast ==
  ASSUME NewsTyped, NEW n \in Nat, NEW b,
         \A m : m < n => (m \in DOMAIN builds <=> m \in DOMAIN builds'),
         \A m \in DOMAIN builds : m < n => builds'[m] = builds[m]
  PROVE  LastOutcome(Outcomes(n, b))' = LastOutcome(Outcomes(n, b))
<1>1. Outcomes(n, b)' = Outcomes(n, b)
  BY DEF Outcomes
<1>2. CASE Outcomes(n, b) = {}
  BY <1>1, <1>2 DEF LastOutcome
<1>3. CASE Outcomes(n, b) # {}
  <2>1. PICK m \in DOMAIN builds :
          /\ m < n /\ m = (CHOOSE x \in Outcomes(n, b) : \A k \in Outcomes(n, b) : k <= x)
          /\ LastOutcome(Outcomes(n, b)) = builds[m].status
    BY <1>3, LastOutcomeIs
  <2>2. LastOutcome(Outcomes(n, b))' = builds'[m].status
    BY <1>1, <1>3, <2>1 DEF LastOutcome
  <2>. QED BY <2>1, <2>2
<1>. QED BY <1>2, <1>3

(* A build that is added. *)
LEMMA AddedBuild ==
  ASSUME NewsTyped, NEW row \in BuildRows, builds' = Append(builds, row)
  PROVE  /\ builds' \in Seq(BuildRows) /\ Len(builds') = Len(builds) + 1
         /\ DOMAIN builds' = 1 .. Len(builds) + 1
         /\ \A n \in DOMAIN builds : builds'[n] = builds[n]
         /\ builds'[Len(builds) + 1] = row
BY DEF NewsTyped

(* A build is added, as one that failed at once, or with what had become of *)
(* its branch while no other build ran.                                     *)
LEMMA AddedSettled ==
  ASSUME NewsTyped, Settled, NEW row \in BuildRows, builds' = Append(builds, row),
         row.status # "failed" =>
           /\ ~\E m \in DOMAIN builds : Runs(m)
           /\ row.was = LastOutcome(Outcomes(Len(builds) + 1, row.branch))
  PROVE  Settled'
<1>. DEFINE l == Len(builds)
<1>1. /\ l \in Nat /\ DOMAIN builds = 1 .. l /\ DOMAIN builds' = 1 .. l + 1
      /\ \A n \in 1 .. l : builds'[n] = builds[n]
      /\ builds'[l + 1] = row
  BY Sizes, AddedBuild
<1>. HIDE DEF l
<1>2. ASSUME NEW n \in 1 .. l + 1, NEW b
      PROVE  LastOutcome(Outcomes(n, b))' = LastOutcome(Outcomes(n, b))
  <2>1. n \in Nat /\ \A m : m < n => (m \in DOMAIN builds <=> m \in DOMAIN builds')
    BY <1>1
  <2>2. \A m \in DOMAIN builds : m < n => builds'[m] = builds[m]
    BY <1>1
  <2>. QED BY <2>1, <2>2, SamePast
<1>3. ASSUME NEW n \in DOMAIN builds', builds'[n].status # "failed"
      PROVE  /\ \A m \in 1 .. n - 1 : ~Runs(m)'
             /\ \A b \in Branches :
                  builds'[n].branch = b => builds'[n].was = LastOutcome(Outcomes(n, b))'
  <2>1. \A m \in 1 .. n - 1 : m \in 1 .. l
    BY <1>1, <1>3
  <2>2. CASE n = l + 1
    BY <1>1, <1>2, <1>3, <2>1, <2>2 DEF Runs, l
  <2>3. CASE n \in 1 .. l
    BY <1>1, <1>2, <1>3, <2>1, <2>3 DEF Settled, Runs
  <2>. QED BY <1>1, <2>2, <2>3
<1>. QED BY <1>3 DEF Settled

(* When a build ends the ones before it have. *)
LEMMA EndedSettled ==
  ASSUME NewsTyped, Settled, NEW n \in DOMAIN builds, EndBuild(n)
  PROVE  /\ Settled' /\ builds' \in Seq(BuildRows) /\ Len(builds') = Len(builds)
         /\ DOMAIN builds' = DOMAIN builds
         /\ \A m \in DOMAIN builds : m # n => builds'[m] = builds[m]
         /\ builds'[n].was = builds[n].was /\ ~Runs(n)'
<1>1. PICK status \in {"success", "failed", "cancelled"} :
        builds' = [builds EXCEPT ![n].status = status]
  BY DEF EndBuild
<1>2. /\ Len(builds) \in Nat /\ DOMAIN builds = 1 .. Len(builds)
      /\ \A m \in DOMAIN builds : builds[m] \in BuildRows
  BY Sizes
<1>3. /\ DOMAIN builds' = DOMAIN builds
      /\ \A m \in DOMAIN builds : m # n => builds'[m] = builds[m]
      /\ builds'[n] = [builds[n] EXCEPT !.status = status]
      /\ builds' = [m \in 1 .. Len(builds) |-> builds'[m]]
  BY <1>1, <1>2
<1>4. /\ builds'[n] \in BuildRows /\ builds'[n].status = status
      /\ builds'[n].was = builds[n].was /\ builds'[n].branch = builds[n].branch
  BY <1>2, <1>3 DEF BuildRows
<1>5. builds' \in Seq(BuildRows) /\ Len(builds') = Len(builds)
  <2>1. \A m \in 1 .. Len(builds) : builds'[m] \in BuildRows
    BY <1>2, <1>3, <1>4
  <2>. QED BY <1>2, <1>3, <2>1, ListOf
<1>6. Runs(n) /\ builds[n].status # "failed" /\ ~Runs(n)'
  BY <1>4 DEF EndBuild, Runs
<1>7. ASSUME NEW p \in DOMAIN builds', builds'[p].status # "failed"
      PROVE  /\ \A m \in 1 .. p - 1 : ~Runs(m)'
             /\ \A b \in Branches :
                  builds'[p].branch = b => builds'[p].was = LastOutcome(Outcomes(p, b))'
  <2>1. builds[p].status # "failed"
    BY <1>3, <1>6, <1>7
  <2>2. /\ \A m \in 1 .. p - 1 : ~Runs(m)
        /\ \A b \in Branches :
             builds[p].branch = b => builds[p].was = LastOutcome(Outcomes(p, b))
    BY <1>3, <2>1 DEF Settled
  <2>3. p <= n
    BY <1>2, <1>3, <1>6, <2>2
  <2>4. \A b \in Branches : LastOutcome(Outcomes(p, b))' = LastOutcome(Outcomes(p, b))
    <3>1. p \in Nat /\ \A m : m < p => (m \in DOMAIN builds <=> m \in DOMAIN builds')
      BY <1>2, <1>3
    <3>2. \A m \in DOMAIN builds : m < p => builds'[m] = builds[m]
      BY <1>2, <1>3, <2>3
    <3>3. ASSUME NEW b PROVE LastOutcome(Outcomes(p, b))' = LastOutcome(Outcomes(p, b))
      BY <3>1, <3>2, SamePast
    <3>. QED BY <3>3
  <2>5. builds'[p].was = builds[p].was /\ builds'[p].branch = builds[p].branch
    BY <1>3, <1>4
  <2>6. \A m \in 1 .. p - 1 : m \in DOMAIN builds /\ m # n
    BY <1>2, <1>3, <2>3
  <2>7. \A m \in 1 .. p - 1 : Runs(m)' => Runs(m)
    BY <1>3, <2>6 DEF Runs
  <2>. QED BY <2>2, <2>4, <2>5, <2>7
<1>. QED BY <1>3, <1>4, <1>5, <1>6, <1>7 DEF Settled

(* Every other build is told of as it was. *)
LEMMA OthersKept ==
  ASSUME NEW n, \A i \in 1 .. MaxBuilds : NewsOf(i),
         \A i \in 1 .. MaxBuilds : i # n =>
           /\ sends'[i] = sends[i] \/ sends'[i] = <<>>
           /\ i \in DOMAIN builds => i \in DOMAIN builds' /\ builds'[i] = builds[i]
           /\ i \notin DOMAIN builds => sends'[i] = sends[i]
           /\ \A m : m \in heard'[i] \/ <<i, m>> \in adrift'
                       => m \in heard[i] \/ <<i, m>> \in adrift
  PROVE  \A i \in 1 .. MaxBuilds : i # n => NewsOf(i)'
<1>1. ASSUME NEW i \in 1 .. MaxBuilds, i # n PROVE NewsOf(i)'
  <2>1. NewsOf(i)
    OBVIOUS
  <2>2. /\ sends'[i] = sends[i] \/ sends'[i] = <<>>
        /\ i \in DOMAIN builds => i \in DOMAIN builds' /\ builds'[i] = builds[i]
        /\ i \notin DOMAIN builds => sends'[i] = sends[i]
        /\ \A m : m \in heard'[i] \/ <<i, m>> \in adrift'
                    => m \in heard[i] \/ <<i, m>> \in adrift
    BY <1>1
  <2>. QED BY <2>1, <2>2, OldNews
<1>. QED BY <1>1

(* A build begins, or is recorded as one that its YAML makes fail.          *)
LEMMA BuildSteps ==
  ASSUME NewsInv, NEW branch \in Branches, StartBuild(branch) \/ RecordInvalid(branch)
  PROVE  NewsInv'
<1>0. PICK n : n = Len(builds) + 1
  OBVIOUS
<1>. DEFINE was == LastOutcome(Outcomes(n, branch))
            start == [branch |-> branch, status |-> "running", was |-> was]
            invalid == [branch |-> branch, status |-> "failed", was |-> was]
<1>1. NewsTyped /\ Settled /\ \A i \in 1 .. MaxBuilds : NewsOf(i)
  BY DEF NewsInv
<1>2. /\ Len(builds) \in Nat /\ DOMAIN builds = 1 .. Len(builds)
      /\ n <= MaxBuilds /\ MaxBuilds \in Nat /\ n \in Nat
  BY <1>0, <1>1, Sizes DEF StartBuild, RecordInvalid
<1>3. was \in {"none", "success", "failed"}
  BY <1>1, <1>2, LastOutcomeIs
<1>4. PICK row \in BuildRows :
        /\ builds' = Append(builds, row) /\ row.branch = branch
        /\ row.status # "failed" =>
             /\ ~\E m \in DOMAIN builds : Runs(m)
             /\ row.was = LastOutcome(Outcomes(Len(builds) + 1, row.branch))
  <2>. HIDE DEF was
  <2>1. CASE StartBuild(branch)
    <3>1. start \in BuildRows /\ start.branch = branch /\ start.was = was
      BY <1>3 DEF BuildRows
    <3>2. builds' = Append(builds, start) /\ ~\E m \in DOMAIN builds : Runs(m)
      BY <1>0, <2>1 DEF StartBuild, was
    <3>. QED BY <1>0, <3>1, <3>2 DEF was
  <2>2. CASE RecordInvalid(branch)
    <3>1. /\ invalid \in BuildRows /\ invalid.branch = branch /\ invalid.was = was
          /\ invalid.status = "failed"
      BY <1>3 DEF BuildRows
    <3>2. builds' = Append(builds, invalid)
      BY <1>0, <2>2 DEF RecordInvalid, was
    <3>. QED BY <3>1, <3>2
  <2>. QED BY <2>1, <2>2
<1>5. /\ builds' \in Seq(BuildRows) /\ Len(builds') = n /\ DOMAIN builds' = 1 .. n
      /\ \A i \in DOMAIN builds : builds'[i] = builds[i]
  BY <1>0, <1>1, <1>4, AddedBuild
<1>6. Settled'
  BY <1>1, <1>4, AddedSettled
<1>7. /\ block' = block /\ adrift' = adrift /\ heard' = heard
      /\ sends' = sends \/ (StartBuild(branch) /\ sends' = Tell(n, "started"))
  BY <1>0 DEF StartBuild, RecordInvalid
<1>8. n \in 1 .. MaxBuilds /\ n \notin DOMAIN builds /\ n \in DOMAIN builds'
  BY <1>0, <1>2, <1>5
<1>9. /\ sends' \in [1 .. MaxBuilds -> Seq(Tasks)]
      /\ \A i \in 1 .. MaxBuilds : i # n => sends'[i] = sends[i]
  <2>1. CASE sends' = Tell(n, "started")
    BY <1>1, <1>8, <2>1, TaskAppended DEF MomentNames
  <2>. QED BY <1>1, <1>7, <2>1 DEF NewsTyped
<1>10. NewsTyped'
  BY <1>1, <1>2, <1>5, <1>7, <1>9 DEF NewsTyped
<1>11. \A i \in 1 .. MaxBuilds : i # n => NewsOf(i)'
  <2>1. \A i \in 1 .. MaxBuilds : i # n => (i \in DOMAIN builds <=> i \in DOMAIN builds')
    BY <1>0, <1>2, <1>5
  <2>. QED BY <1>1, <1>5, <1>7, <1>9, <2>1, OthersKept
<1>12. NewsOf(n)'
  <2>1. NewsOf(n)
    BY <1>1, <1>8
  <2>2. CASE sends' = Tell(n, "started")
    BY <1>1, <1>7, <1>8, <2>1, <2>2, TellKeeps DEF MomentNames
  <2>3. CASE sends' = sends
    BY <1>7, <1>8, <2>1, <2>3, OldNews
  <2>. QED BY <1>7, <2>2, <2>3
<1>. QED BY <1>6, <1>10, <1>11, <1>12 DEF NewsInv

(* A build waits for input, or ends.                                        *)
LEMMA NewsTold ==
  ASSUME NewsInv, NEW n \in DOMAIN builds, WaitForInput(n) \/ EndBuild(n)
  PROVE  NewsInv'
<1>. PICK moment \in {"waiting", "ended"} :
       (moment = "waiting" /\ WaitForInput(n)) \/ (moment = "ended" /\ EndBuild(n))
  OBVIOUS
<1>1. NewsTyped /\ Settled /\ n \in 1 .. MaxBuilds /\ \A i \in 1 .. MaxBuilds : NewsOf(i)
  BY Sizes DEF NewsInv
<1>2. /\ Runs(n) /\ sends' = Tell(n, moment) /\ moment \in MomentNames
      /\ block' = block /\ adrift' = adrift /\ heard' = heard
  BY DEF WaitForInput, EndBuild, MomentNames
<1>3. /\ sends' \in [1 .. MaxBuilds -> Seq(Tasks)]
      /\ \A i \in 1 .. MaxBuilds : i # n => sends'[i] = sends[i]
  BY <1>1, <1>2, TaskAppended
<1>4. /\ Settled' /\ builds' \in Seq(BuildRows) /\ Len(builds') = Len(builds)
      /\ DOMAIN builds' = DOMAIN builds
      /\ \A m \in DOMAIN builds : m # n => builds'[m] = builds[m]
      /\ builds'[n].was = builds[n].was /\ (moment = "ended" => ~Runs(n)')
  <2>1. CASE moment = "ended"
    BY <1>1, <2>1, EndedSettled
  <2>2. CASE moment = "waiting"
    <3>1. builds' = builds
      BY <2>2 DEF WaitForInput
    <3>2. Settled'
      BY <1>1, <3>1 DEF Settled, Runs, LastOutcome, Outcomes
    <3>. QED BY <1>1, <2>2, <3>1, <3>2 DEF NewsTyped
  <2>. QED BY <2>1, <2>2
<1>5. NewsTyped'
  BY <1>1, <1>2, <1>3, <1>4 DEF NewsTyped
<1>6. \A i \in 1 .. MaxBuilds : i # n => NewsOf(i)'
  BY <1>1, <1>2, <1>3, <1>4, OthersKept
<1>7. NewsOf(n)'
  BY <1>1, <1>2, <1>4, TellKeeps
<1>. QED BY <1>1, <1>4, <1>5, <1>6, <1>7 DEF NewsInv

(* While no build changes.                                                  *)
LEMMA SettledKept ==
  ASSUME Settled, builds' = builds PROVE Settled'
BY DEF Settled, Runs, LastOutcome, Outcomes

(* One entry is sent. *)
LEMMA SendKeeps ==
  ASSUME NewsInv, NEW n \in DOMAIN builds, NEW k \in DOMAIN sends[n], Send(n, k)
  PROVE  NewsInv'
<1>1. NewsTyped /\ Settled /\ n \in 1 .. MaxBuilds /\ \A i \in 1 .. MaxBuilds : NewsOf(i)
  BY Sizes DEF NewsInv
<1>2. PICK e \in sends[n][k].todo :
        /\ sends' = [sends EXCEPT ![n][k].todo = sends[n][k].todo \ {e}]
        /\ \/ heard' = [heard EXCEPT ![n] = heard[n] \cup {Message(n, k, e)}] /\ adrift' = adrift
           \/ heard' = heard /\ adrift' = adrift
           \/ adrift' = adrift \cup {<<n, Message(n, k, e)>>} /\ heard' = heard
  BY DEF Send
<1>3. builds' = builds /\ block' = block /\ sends[n][k].state = "sending"
  BY DEF Send
<1>4. /\ sends[n] \in Seq(Tasks) /\ Len(sends[n]) \in Nat /\ DOMAIN sends[n] = 1 .. Len(sends[n])
      /\ \A j \in DOMAIN sends[n] : sends[n][j] \in Tasks
  BY <1>1, Sizes
<1>. DEFINE row == [sends[n][k] EXCEPT !.todo = sends[n][k].todo \ {e}]
<1>5. row \in Tasks
  BY <1>4 DEF Tasks
<1>6. /\ sends'[n][k] = row /\ \A j \in DOMAIN sends[n] : j # k => sends'[n][j] = sends[n][j]
      /\ sends'[n] = [j \in 1 .. Len(sends[n]) |-> sends'[n][j]]
      /\ \A i \in 1 .. MaxBuilds : i # n => sends'[i] = sends[i]
      /\ sends' = [i \in 1 .. MaxBuilds |-> sends'[i]]
  BY <1>1, <1>2, <1>4 DEF NewsTyped
<1>7. /\ row.moment = sends[n][k].moment /\ row.state = "sending"
      /\ row.todo = sends[n][k].todo \ {e}
  BY <1>3, <1>4 DEF Tasks
<1>. HIDE DEF row
<1>8. sends'[n] \in Seq(Tasks) /\ Len(sends'[n]) = Len(sends[n]) /\ DOMAIN sends'[n] = DOMAIN sends[n]
  <2>1. \A j \in 1 .. Len(sends[n]) : sends'[n][j] \in Tasks
    BY <1>4, <1>5, <1>6
  <2>. QED BY <1>4, <1>6, <2>1, ListOf
<1>9. sends' \in [1 .. MaxBuilds -> Seq(Tasks)]
  <2>1. \A i \in 1 .. MaxBuilds : sends'[i] \in Seq(Tasks)
    <3>1. \A i \in 1 .. MaxBuilds : i # n => sends'[i] = sends[i] /\ sends[i] \in Seq(Tasks)
      BY <1>1, <1>6, Sizes
    <3>2. sends'[n] \in Seq(Tasks)
      BY <1>8
    <3>. QED BY <3>1, <3>2
  <2>. QED BY <1>6, <2>1
<1>10. Told(n, Message(n, k, e)) /\ Message(n, k, e) \in Messages
  <2>1. Told(n, Message(n, k, e))
    BY DEF Told
  <2>. PICK m : m = Message(n, k, e)
    OBVIOUS
  <2>2. m \in Messages
    BY <1>1, <2>1, ToldTyped
  <2>. QED BY <2>1, <2>2
<1>11. NewsTyped'
  <2>1. adrift' \subseteq (1 .. MaxBuilds) \X Messages
    BY <1>1, <1>2, <1>10 DEF NewsTyped
  <2>2. heard' \in [1 .. MaxBuilds -> SUBSET Messages]
    BY <1>1, <1>2, <1>10 DEF NewsTyped
  <2>. QED BY <1>1, <1>3, <1>9, <2>1, <2>2 DEF NewsTyped
<1>12. ASSUME NEW m, Told(n, m)' PROVE Told(n, m)
  <2>1. CASE m \in heard'[n] \/ <<n, m>> \in adrift'
    <3>1. n \in DOMAIN heard
      BY <1>1 DEF NewsTyped
    <3>2. m \in heard[n] \/ <<n, m>> \in adrift \/ m = Message(n, k, e)
      <4>1. CASE heard' = heard
        BY <1>2, <2>1, <4>1
      <4>2. CASE adrift' = adrift /\ heard' = [heard EXCEPT ![n] = @ \cup {Message(n, k, e)}]
        BY <2>1, <3>1, <4>2
      <4>. QED BY <1>2, <4>1, <4>2
    <3>. QED BY <1>10, <3>2 DEF Told
  <2>2. ASSUME NEW j \in DOMAIN sends'[n], NEW f \in sends'[n][j].todo, m = Message(n, j, f)'
        PROVE  Told(n, m)
    <3>1. j \in DOMAIN sends[n] /\ f \in sends[n][j].todo /\ m = Message(n, j, f)
      BY <1>6, <1>7, <1>8, <2>2 DEF Message
    <3>. QED BY <3>1 DEF Told
  <2>. QED BY <1>12, <2>1, <2>2 DEF Told
<1>13. NewsOf(n)'
  <2>1. \A j \in DOMAIN sends[n] :
           /\ sends'[n][j].moment = sends[n][j].moment
           /\ sends'[n][j].state = sends[n][j].state
           /\ sends[n][j].state = "begun" => sends'[n][j].todo = sends[n][j].todo
    BY <1>3, <1>6, <1>7
  <2>2. sends[n] # <<>>
    BY <1>4
  <2>. QED BY <1>1, <1>3, <1>8, <1>12, <2>1, <2>2, Shrinks
<1>14. \A i \in 1 .. MaxBuilds : i # n => NewsOf(i)'
  <2>1. ASSUME NEW i \in 1 .. MaxBuilds, i # n, NEW m, m \in heard'[i] \/ <<i, m>> \in adrift'
        PROVE  m \in heard[i] \/ <<i, m>> \in adrift
    <3>1. heard'[i] = heard[i]
      BY <1>1, <1>2, <2>1 DEF NewsTyped
    <3>2. <<i, m>> \in adrift' => <<i, m>> \in adrift
      BY <1>2, <2>1
    <3>. QED BY <2>1, <3>1, <3>2
  <2>. QED BY <1>1, <1>3, <1>6, <2>1, OthersKept
<1>. QED BY <1>1, <1>3, <1>11, <1>13, <1>14, SettledKept DEF NewsInv

(* A task is done with: it was the first, and the others move up. *)
LEMMA SentKeeps ==
  ASSUME NewsInv, NEW n \in DOMAIN builds, NEW k \in DOMAIN sends[n], Sent(n, k)
  PROVE  NewsInv'
<1>. DEFINE l == Len(sends[n])
<1>1. NewsTyped /\ Settled /\ n \in 1 .. MaxBuilds /\ \A i \in 1 .. MaxBuilds : NewsOf(i)
  BY Sizes DEF NewsInv
<1>2. /\ builds' = builds /\ block' = block /\ adrift' = adrift /\ heard' = heard
      /\ sends' = [sends EXCEPT ![n] = TasksWithout(sends[n], k)]
  BY DEF Sent
<1>3. /\ l \in Nat /\ DOMAIN sends[n] = 1 .. l /\ k = 1 /\ l >= 1
      /\ \A j \in 1 .. l : sends[n][j] \in Tasks
  <2>1. l \in Nat /\ DOMAIN sends[n] = 1 .. l /\ \A j \in 1 .. l : sends[n][j] \in Tasks
    BY <1>1, Sizes
  <2>2. k = 1
    BY <1>1 DEF Sent, NewsOf, InTurn
  <2>. QED BY <2>1, <2>2
<1>4. /\ sends'[n] = [i \in 1 .. l - 1 |-> sends[n][i + 1]]
      /\ \A i \in 1 .. MaxBuilds : i # n => sends'[i] = sends[i]
      /\ sends' = [i \in 1 .. MaxBuilds |-> sends'[i]]
  <2>1. TasksWithout(sends[n], k) = [i \in 1 .. l - 1 |-> sends[n][i + 1]]
    <3>1. \A i \in 1 .. l - 1 : (IF i < k THEN i ELSE i + 1) = i + 1
      BY <1>3
    <3>. QED BY <3>1 DEF TasksWithout
  <2>. QED BY <1>1, <1>2, <2>1 DEF NewsTyped
<1>. HIDE DEF l
<1>5. /\ sends'[n] \in Seq(Tasks) /\ Len(sends'[n]) = l - 1 /\ DOMAIN sends'[n] = 1 .. l - 1
      /\ \A i \in 1 .. l - 1 : sends'[n][i] = sends[n][i + 1] /\ i + 1 \in 1 .. l
  <2>1. \A i \in 1 .. l - 1 : sends'[n][i] = sends[n][i + 1] /\ i + 1 \in 1 .. l
    BY <1>3, <1>4
  <2>2. \A i \in 1 .. l - 1 : sends'[n][i] \in Tasks
    BY <1>3, <2>1
  <2>3. l - 1 \in Nat /\ sends'[n] = [i \in 1 .. l - 1 |-> sends'[n][i]]
    BY <1>3, <1>4, <2>1
  <2>. QED BY <2>1, <2>2, <2>3, ListOf
<1>6. NewsTyped'
  <2>1. \A i \in 1 .. MaxBuilds : sends'[i] \in Seq(Tasks)
    BY <1>1, <1>4, <1>5 DEF NewsTyped
  <2>2. sends' \in [1 .. MaxBuilds -> Seq(Tasks)]
    BY <1>4, <2>1
  <2>. QED BY <1>1, <1>2, <2>2 DEF NewsTyped
<1>7. ASSUME NEW m, Told(n, m)' PROVE Told(n, m)
  <2>1. ASSUME NEW j \in DOMAIN sends'[n], NEW f \in sends'[n][j].todo, m = Message(n, j, f)'
        PROVE  Told(n, m)
    <3>1. j + 1 \in DOMAIN sends[n] /\ f \in sends[n][j + 1].todo /\ m = Message(n, j + 1, f)
      BY <1>3, <1>5, <2>1 DEF Message
    <3>. QED BY <3>1 DEF Told
  <2>. QED BY <1>2, <1>7, <2>1 DEF Told
<1>8. NewsOf(n)'
  <2>1. NewsOf(n)
    BY <1>1
  <2>2. InTurn(n)'
    <3>1. ASSUME NEW j \in 1 .. l - 1
          PROVE  sends'[n][j].state # "sending" /\ (sends'[n][j].state = "begun" => sends'[n][j].todo = {})
      <4>1. j + 1 \in 1 .. l /\ j + 1 # 1 /\ sends'[n][j] = sends[n][j + 1]
        BY <1>3, <1>5
      <4>. QED BY <1>3, <2>1, <4>1 DEF NewsOf, InTurn
    <3>. QED BY <1>5, <3>1 DEF InTurn
  <2>3. EndLast(n)'
    <3>1. ASSUME NEW j \in 1 .. l - 1, sends'[n][j].moment = "ended"
          PROVE  /\ j = l - 1 /\ n \in DOMAIN builds /\ ~Runs(n)
                 /\ sends'[n][j].state = "begun" => \A m : Told(n, m) => m.moment # "ended"
      <4>1. j + 1 \in 1 .. l /\ sends'[n][j] = sends[n][j + 1]
        BY <1>5
      <4>2. /\ j + 1 = l /\ n \in DOMAIN builds /\ ~Runs(n)
            /\ sends[n][j + 1].state = "begun" => \A m : Told(n, m) => m.moment # "ended"
        BY <1>3, <2>1, <3>1, <4>1 DEF NewsOf, EndLast, l
      <4>. QED BY <1>3, <4>1, <4>2
    <3>2. ~Runs(n) => ~Runs(n)'
      BY <1>2 DEF Runs
    <3>3. \A m : Told(n, m)' /\ m.moment = "ended" => n \in DOMAIN builds' /\ ~Runs(n)'
      BY <1>2, <1>7, <2>1, <3>2 DEF NewsOf, EndLast
    <3>. QED BY <1>2, <1>5, <1>7, <3>1, <3>2, <3>3 DEF EndLast
  <2>4. InOrder(n)'
    <3>1. ASSUME NEW j \in 1 .. l - 1
          PROVE  /\ \A i \in 1 .. j : RankOf(sends'[n][i].moment) <= RankOf(sends'[n][j].moment)
                 /\ \A m : Told(n, m) => RankOf(m.moment) <= RankOf(sends'[n][j].moment)
      <4>1. j + 1 \in 1 .. l /\ sends'[n][j] = sends[n][j + 1]
        BY <1>5
      <4>2. /\ \A i \in 1 .. j + 1 : RankOf(sends[n][i].moment) <= RankOf(sends[n][j + 1].moment)
            /\ \A m : Told(n, m) => RankOf(m.moment) <= RankOf(sends[n][j + 1].moment)
        BY <1>3, <2>1, <4>1 DEF NewsOf, InOrder
      <4>3. \A i \in 1 .. j : i + 1 \in 1 .. j + 1 /\ sends'[n][i] = sends[n][i + 1]
        BY <1>3, <1>5
      <4>4. ASSUME NEW i \in 1 .. j
            PROVE  RankOf(sends'[n][i].moment) <= RankOf(sends'[n][j].moment)
        BY <4>1, <4>2, <4>3
      <4>. QED BY <4>1, <4>2, <4>4
    <3>. QED BY <1>5, <1>7, <3>1 DEF InOrder
  <2>5. Fitting(n)'
    BY <1>2, <1>7, <2>1 DEF NewsOf, Fitting
  <2>. QED BY <1>2, <2>2, <2>3, <2>4, <2>5 DEF NewsOf
<1>9. \A i \in 1 .. MaxBuilds : i # n => NewsOf(i)'
  BY <1>1, <1>2, <1>4, OthersKept
<1>. QED BY <1>1, <1>2, <1>6, <1>8, <1>9, SettledKept DEF NewsInv

(* What is said to whom is read (SelectNotifications) while the build is    *)
(* settled: the messages of one moment go through one event each.           *)
LEMMA ReadBlockKeeps ==
  ASSUME NewsInv, NEW n \in DOMAIN builds, NEW k \in DOMAIN sends[n], ReadBlock(n, k)
  PROVE  NewsInv'
<1>1. NewsTyped /\ Settled /\ n \in 1 .. MaxBuilds /\ \A i \in 1 .. MaxBuilds : NewsOf(i)
  BY Sizes DEF NewsInv
<1>2. NewsTyped' /\ NewsOf(n)'
  BY <1>1, ReadKeeps
<1>3. /\ builds' = builds /\ adrift' = adrift /\ heard' = heard
      /\ \A i \in 1 .. MaxBuilds : i # n => sends'[i] = sends[i]
  BY DEF ReadBlock, NewsInv, NewsTyped
<1>4. \A i \in 1 .. MaxBuilds : i # n => NewsOf(i)'
  BY <1>1, <1>3, OthersKept
<1>. QED BY <1>1, <1>2, <1>3, <1>4, SettledKept DEF NewsInv

(* A message that arrives late, tasks that are lost, a block that is edited.*)
LEMMA NothingNew ==
  ASSUME NewsInv, ArrivesLate \/ EditPipeline \/ \E n \in DOMAIN builds : LoseSends(n)
  PROVE  NewsInv'
<1>1. NewsTyped /\ Settled /\ \A i \in 1 .. MaxBuilds : NewsOf(i)
  BY DEF NewsInv
<1>2. /\ builds' = builds /\ sends' \in [1 .. MaxBuilds -> Seq(Tasks)]
      /\ block' \in [EventNames -> SUBSET Destinations] /\ block' \in Blocks
      /\ adrift' \subseteq (1 .. MaxBuilds) \X Messages
      /\ heard' \in [1 .. MaxBuilds -> SUBSET Messages]
      /\ \A i \in 1 .. MaxBuilds :
           /\ sends'[i] = sends[i] \/ (sends'[i] = <<>> /\ i \in DOMAIN builds)
           /\ \A m : m \in heard'[i] \/ <<i, m>> \in adrift'
                       => m \in heard[i] \/ <<i, m>> \in adrift
  <2>1. CASE EditPipeline
    <3>1. block' \in Blocks /\ UNCHANGED <<builds, sends, adrift, heard>>
      BY <2>1 DEF EditPipeline
    <3>. QED BY <1>1, <3>1, NotificationsAssumption DEF NewsTyped
  <2>2. ASSUME NEW n \in DOMAIN builds, LoseSends(n)
        PROVE  /\ builds' = builds /\ block' = block /\ adrift' = adrift /\ heard' = heard
               /\ sends' \in [1 .. MaxBuilds -> Seq(Tasks)]
               /\ \A i \in 1 .. MaxBuilds :
                    sends'[i] = sends[i] \/ (sends'[i] = <<>> /\ i \in DOMAIN builds)
    <3>1. sends' = [sends EXCEPT ![n] = <<>>] /\ <<>> \in Seq(Tasks)
      BY <2>2 DEF LoseSends
    <3>. QED BY <1>1, <2>2, <3>1 DEF NewsTyped, LoseSends
  <2>3. CASE ArrivesLate
    <3>1. PICK late \in adrift :
            /\ adrift' = adrift \ {late}
            /\ heard' = [heard EXCEPT ![late[1]] = heard[late[1]] \cup {late[2]}]
            /\ UNCHANGED <<builds, sends, block>>
      BY <2>3 DEF ArrivesLate
    <3>2. PICK l \in 1 .. MaxBuilds, m \in Messages : late = <<l, m>>
      BY <1>1 DEF NewsTyped
    <3>3. heard' = [heard EXCEPT ![l] = heard[l] \cup {m}] /\ <<l, m>> \in adrift
      BY <3>1, <3>2
    <3>4. heard' \in [1 .. MaxBuilds -> SUBSET Messages]
      BY <1>1, <3>3 DEF NewsTyped
    <3>5. ASSUME NEW i \in 1 .. MaxBuilds, NEW x, x \in heard'[i]
          PROVE  x \in heard[i] \/ <<i, x>> \in adrift
      BY <1>1, <3>3, <3>5 DEF NewsTyped
    <3>. QED BY <1>1, <3>1, <3>4, <3>5 DEF NewsTyped
  <2>. QED BY <1>1, <2>1, <2>2, <2>3 DEF NewsTyped
<1>3. NewsTyped'
  BY <1>1, <1>2 DEF NewsTyped
<1>4. \A i \in 1 .. MaxBuilds : NewsOf(i)'
  <2>1. ASSUME NEW i \in 1 .. MaxBuilds PROVE NewsOf(i)'
    BY <1>1, <1>2, OldNews
  <2>. QED BY <2>1
<1>. QED BY <1>1, <1>2, <1>3, <1>4, SettledKept DEF NewsInv

(* Each of the steps.                                                       *)
LEMMA NewsStep == NewsInv /\ [NotificationsNext]_notificationsVars => NewsInv'
<1>. SUFFICES ASSUME NewsInv, [NotificationsNext]_notificationsVars PROVE NewsInv'
  OBVIOUS
<1>1. ASSUME NEW branch \in Branches, StartBuild(branch) \/ RecordInvalid(branch)
      PROVE  NewsInv'
  BY <1>1, BuildSteps
<1>2. ASSUME NEW n \in DOMAIN builds, WaitForInput(n) \/ EndBuild(n)
      PROVE  NewsInv'
  BY <1>2, NewsTold
<1>3. ASSUME NEW n \in DOMAIN builds, NEW k \in DOMAIN sends[n],
             ReadBlock(n, k) \/ Send(n, k) \/ Sent(n, k)
      PROVE  NewsInv'
  BY <1>3, ReadBlockKeeps, SendKeeps, SentKeeps
<1>4. CASE ArrivesLate \/ EditPipeline \/ \E n \in DOMAIN builds : LoseSends(n)
  BY <1>4, NothingNew
<1>5. CASE UNCHANGED notificationsVars
  <2>1. /\ builds' = builds /\ sends' = sends /\ block' = block
        /\ adrift' = adrift /\ heard' = heard
    BY <1>5 DEF notificationsVars
  <2>2. NewsTyped' /\ Settled'
    BY <2>1, SettledKept DEF NewsInv, NewsTyped
  <2>3. ASSUME NEW n \in 1 .. MaxBuilds PROVE NewsOf(n)'
    BY <2>1, OldNews DEF NewsInv
  <2>. QED BY <2>1, <2>2, <2>3 DEF NewsInv
<1>. QED BY <1>1, <1>2, <1>3, <1>4, <1>5 DEF NotificationsNext

(* The inductive invariant holds from the first state on.                   *)
LEMMA NewsAlways == NotificationsSpec => []NewsInv
<1>. QED BY NewsStart, NewsStep, PTL DEF NotificationsSpec

(* A build that is told fixed began when its branch was broken              *)
(* (previous_build_failed, whenever the question is asked).                 *)
THEOREM FixedAlwaysBroken == NotificationsSpec => []FixedWasBroken
<1>1. NewsInv => FixedWasBroken
  <2>1. ASSUME NewsInv, NEW n \in DOMAIN builds, NEW m \in heard[n], m.event = "on_fixed"
        PROVE  builds[n].was = "failed"
    <3>1. NewsOf(n) /\ Told(n, m)
      BY <2>1, Sizes DEF NewsInv, Told
    <3>. QED BY <2>1, <3>1 DEF NewsOf, Fitting
  <2>. QED BY <2>1 DEF FixedWasBroken
<1>. QED BY <1>1, NewsAlways, PTL

(* A destination hears of a moment of a build through one event             *)
(* (select_notifications), whatever the block says when it is read.         *)
THEOREM AlwaysThroughOneEvent == NotificationsSpec => []ToldThroughOneEvent
<1>1. NewsInv => ToldThroughOneEvent
  <2>1. ASSUME NewsInv, NEW n \in DOMAIN heard, NEW l \in heard[n], NEW m \in heard[n],
               l.moment = m.moment, l.to = m.to
        PROVE  l.event = m.event
    <3>1. NewsOf(n) /\ Told(n, m) /\ Told(n, l)
      BY <2>1 DEF NewsInv, NewsTyped, Told
    <3>. QED BY <2>1, <3>1 DEF NewsOf, Fitting
  <2>. QED BY <2>1 DEF ToldThroughOneEvent
<1>. QED BY <1>1, NewsAlways, PTL

(* News of a build arrives in the order it happened, but for what was given *)
(* up (the sends that wait for the ones before).                            *)
THEOREM NewsAlwaysInOrder == NotificationsSpec => NewsInOrder
<1>. DEFINE A == \A n \in DOMAIN heard : \A m \in heard'[n] \ heard[n] :
       <<n, m>> \in adrift \/ \A h \in heard[n] : RankOf(h.moment) <= RankOf(m.moment)
<1>1. ASSUME NewsInv, NotificationsNext PROVE A
  <2>. SUFFICES ASSUME NEW i \in DOMAIN heard, NEW m \in heard'[i] \ heard[i],
                       <<i, m>> \notin adrift, NEW h \in heard[i]
       PROVE  RankOf(h.moment) <= RankOf(m.moment)
    OBVIOUS
  <2>0. NewsTyped /\ i \in 1 .. MaxBuilds /\ NewsOf(i) /\ heard' # heard
    BY <1>1 DEF NewsInv, NewsTyped
  <2>1. ASSUME NEW n \in DOMAIN builds, NEW k \in DOMAIN sends[n], Send(n, k)
        PROVE  RankOf(h.moment) <= RankOf(m.moment)
    <3>1. PICK e \in sends[n][k].todo :
            heard' = [heard EXCEPT ![n] = heard[n] \cup {Message(n, k, e)}]
      BY <2>0, <2>1 DEF Send
    <3>2. i = n /\ m = Message(n, k, e)
      BY <2>0, <3>1 DEF NewsTyped
    <3>3. m.moment = sends[n][k].moment /\ Told(i, h)
      BY <3>2 DEF Message, Told
    <3>. QED BY <2>0, <3>2, <3>3 DEF NewsOf, InOrder
  <2>2. CASE ArrivesLate
    <3>1. PICK late \in adrift :
            heard' = [heard EXCEPT ![late[1]] = heard[late[1]] \cup {late[2]}]
      BY <2>2 DEF ArrivesLate
    <3>2. PICK l \in 1 .. MaxBuilds, x \in Messages : late = <<l, x>>
      BY <2>0 DEF NewsTyped
    <3>3. heard' = [heard EXCEPT ![l] = heard[l] \cup {x}] /\ <<l, x>> \in adrift
      BY <3>1, <3>2
    <3>4. i = l /\ m = x
      BY <2>0, <3>3 DEF NewsTyped
    <3>. QED BY <3>3, <3>4
  <2>3. CASE \/ \E branch \in Branches : StartBuild(branch) \/ RecordInvalid(branch)
             \/ \E n \in DOMAIN builds : WaitForInput(n) \/ EndBuild(n) \/ LoseSends(n)
             \/ \E n \in DOMAIN builds : \E k \in DOMAIN sends[n] : ReadBlock(n, k) \/ Sent(n, k)
             \/ EditPipeline
    BY <2>0, <2>3 DEF StartBuild, RecordInvalid, WaitForInput, EndBuild, LoseSends, ReadBlock,
                      Sent, EditPipeline
  <2>. QED BY <1>1, <2>1, <2>2, <2>3 DEF NotificationsNext
<1>2. NewsInv /\ [NotificationsNext]_notificationsVars => [A]_notificationsVars
  BY <1>1
<1>. QED BY <1>2, NewsAlways, PTL DEF NotificationsSpec, NewsInOrder

-----------------------------------------------------------------------------
(* What the server lets through, a step of any type and of any fields, the  *)
(* agent accepts, but for what nobody checks.                               *)
LEMMA AgentRuns ==
  ASSUME NEW type \in STEP_TYPE_KEYS, NEW value, ValidAction(type, value)
  PROVE  NobodyChecks(type, value.has) \/ AgentAccepts(type, value.has)
<1>. PICK c : c = value.has
  OBVIOUS
<1>. SUFFICES ASSUME ~NobodyChecks(type, c) PROVE AgentAccepts(type, c)
  OBVIOUS
<1>1. \A f : Given(c, f) => Printed(c, f)
  BY DEF Given, Truthy, Printed
<1>2. \A f \in {"tags", "commands", "paths"} : Given(c, f) => Listed(c, f)
  BY DEF NobodyChecks, Given, Listed
<1>3. CASE type = "http_request"
  <2>1. ValidHttpRequest(c)
    BY <1>3 DEF ValidAction, MayBeNull
  <2>2. AcceptsHttpRequest(c)
    BY <2>1 DEF ValidHttpRequest, AcceptsHttpRequest, Optional, Mapping, IsNumber
  <2>. QED BY <1>3, <2>2 DEF AgentAccepts
<1>4. CASE type = "docker_login"
  <2>1. Given(c, "username") /\ Given(c, "password")
    BY <1>4 DEF NobodyChecks
  <2>. QED BY <1>1, <1>4, <2>1 DEF AgentAccepts, CommandAccepts
<1>5. ASSUME type \in {"write_file", "copy_files", "delete_files", "ai_agent", "docker_push",
                       "git_clone", "ssh_exec", "kube_apply"}
      PROVE  /\ \A fields \in Needs[type] : \E f \in fields : Given(c, f)
             /\ type = "kube_apply" => c["manifests"] = "texts"
  BY <1>5 DEF ValidAction, MayBeNull
<1>6. CASE type = "write_file"
  <2>1. Needs[type] = {{"path"}}
    BY <1>6 DEF Needs
  <2>. QED BY <1>1, <1>5, <1>6, <2>1 DEF AgentAccepts, FileStepAccepts
<1>7. CASE type = "copy_files"
  <2>1. Needs[type] = {{"source"}, {"destination"}}
    BY <1>7 DEF Needs
  <2>. QED BY <1>1, <1>5, <1>7, <2>1 DEF AgentAccepts, FileStepAccepts
<1>8. CASE type = "delete_files"
  <2>1. Needs[type] = {{"path", "paths"}}
    BY <1>8 DEF Needs
  <2>. QED BY <1>1, <1>2, <1>5, <1>8, <2>1 DEF AgentAccepts, FileStepAccepts
<1>9. CASE type = "ai_agent"
  <2>1. Needs[type] = {{"prompt"}, {"api_key"}}
    BY <1>9 DEF Needs
  <2>. QED BY <1>1, <1>5, <1>9, <2>1 DEF AgentAccepts, AiAgentAccepts
<1>10. CASE type = "docker_push"
  <2>1. Needs[type] = {{"tags", "image"}}
    BY <1>10 DEF Needs
  <2>. QED BY <1>1, <1>2, <1>5, <1>10, <2>1 DEF AgentAccepts, CommandAccepts
<1>11. CASE type = "git_clone"
  <2>1. Needs[type] = {{"repo"}}
    BY <1>11 DEF Needs
  <2>. QED BY <1>1, <1>5, <1>11, <2>1 DEF AgentAccepts, CommandAccepts
<1>12. CASE type = "ssh_exec"
  <2>1. Needs[type] = {{"host"}, {"commands"}}
    BY <1>12 DEF Needs
  <2>. QED BY <1>1, <1>2, <1>5, <1>12, <2>1 DEF AgentAccepts, CommandAccepts
<1>13. CASE type = "kube_apply"
  <2>1. Needs[type] = {{"kubeconfig"}, {"manifests"}}
    BY <1>13 DEF Needs
  <2>2. Listed(c, "manifests") /\ Printed(c, "kubeconfig")
    BY <1>1, <1>5, <1>13, <2>1 DEF Listed, Given
  <2>. QED BY <1>13, <2>2 DEF AgentAccepts, KubeApplyAccepts
<1>14. CASE type \notin {"write_file", "copy_files", "delete_files", "ai_agent", "docker_push",
                         "git_clone", "ssh_exec", "kube_apply", "docker_login", "http_request"}
  BY <1>14 DEF AgentAccepts, CommandAccepts
<1>. QED BY <1>3, <1>4, <1>6, <1>7, <1>8, <1>9, <1>10, <1>11, <1>12, <1>13, <1>14

(* Labels and the names that are written are sequences, so that a number    *)
(* can be appended.                                                         *)
Labels == Seq(Nat \cup {"x"})
(* The stages of a definition are lists of steps of types that are known.   *)
KnownStep(step) ==
  /\ ~step.plain => step.actions \subseteq STEP_TYPE_KEYS
  /\ step.label \in Labels /\ step.title \in Labels
KnownTypes ==
  \A i \in DOMAIN definition.list :
    LET list == definition.list[i].list IN
    /\ Len(list) \in Nat /\ DOMAIN list = 1 .. Len(list)
    /\ \A j \in DOMAIN list : KnownStep(list[j])
(* A build that waits is compiled from a definition that passed the checks. *)
Compiled ==
  triggered.status = "pending" =>
    Valid(definition) /\ triggered.stages = Compile(definition)

(* A trigger compiles what it has validated; the YAML stays.                *)
LEMMA CompilerStep ==
  Compiled /\ KnownTypes /\ [CompilerNext]_compilerVars => Compiled' /\ KnownTypes'
<1>. SUFFICES ASSUME Compiled, KnownTypes, [CompilerNext]_compilerVars
              PROVE  Compiled' /\ KnownTypes'
  OBVIOUS
<1>1. ASSUME NEW way \in {"person", "webhook", "step"}, TriggerBy(way) PROVE Compiled'
  BY <1>1 DEF TriggerBy, Build, Compiled
<1>2. ASSUME UNCHANGED compilerVars PROVE Compiled'
  BY <1>2 DEF compilerVars, Compiled
<1>3. definition' = definition
  BY DEF CompilerNext, TriggerBy, compilerVars
<1>. QED BY <1>1, <1>2, <1>3 DEF CompilerNext, KnownTypes

(* The steps that are tried are of known types, with labels.                *)
LEMMA StepParts ==
  ASSUME NEW types \in SUBSET STEP_TYPE_KEYS, NEW value
  PROVE  /\ KnownStep(Step(types, value)) /\ KnownStep(PlainStep)
         /\ \A l \in Names : KnownStep([PlainStep EXCEPT !.label = l])
         /\ \A shape :
              /\ KnownStep([Step(types, value) EXCEPT !.named = shape])
              /\ KnownStep([Step(types, value) EXCEPT !.env = shape])
         /\ \A shape : \A t \in Names :
              KnownStep([Step(types, value) EXCEPT !.named = shape, !.title = t])
<1>1. Names \subseteq Labels /\ <<"x">> \in Labels
  BY DEF Names, Labels
<1>. QED BY <1>1 DEF Step, PlainStep, KnownStep

(* So is a definition of one step.                                          *)
LEMMA OneStepKnown ==
  ASSUME NEW step, KnownStep(step), definition.list = OneStep(step).list
  PROVE  KnownTypes
<1>1. definition.list = <<Stage(<<"x">>, <<step>>)>>
  BY DEF OneStep, Definition
<1>2. DOMAIN definition.list = {1} /\ definition.list[1].list = <<step>>
  BY <1>1 DEF Stage
<1>3. /\ DOMAIN definition.list[1].list = 1 .. 1 /\ Len(definition.list[1].list) = 1
      /\ definition.list[1].list[1] = step
  BY <1>2
<1>. QED BY <1>2, <1>3 DEF KnownTypes

(* And every definition that is tried.                                      *)
LEMMA CompilerStart == CompilerInit => Compiled /\ KnownTypes
<1>. SUFFICES ASSUME CompilerInit PROVE Compiled /\ KnownTypes
  OBVIOUS
<1>1. Compiled
  BY DEF CompilerInit, Compiled, NotTriggered, Build
<1>. SUFFICES KnownTypes
  BY <1>1
<1>0. "run" \in STEP_TYPE_KEYS /\ "notify" \in STEP_TYPE_KEYS
  BY DEF STEP_TYPE_KEYS, Needs
<1>2. CASE StepVaries
  <2>1. ASSUME NEW types \in SUBSET STEP_TYPE_KEYS, NEW value, definition = OneStep(Step(types, value))
        PROVE  KnownTypes
    BY <2>1, StepParts, OneStepKnown
  <2>2. CASE \E type \in STEP_TYPE_KEYS, shape \in Shape :
               definition = OneStep(Step({type}, Scalar(shape)))
    BY <2>1, <2>2
  <2>3. CASE \E type \in STEP_TYPE_KEYS :
             \E fs \in {s \in SUBSET FieldsOf(type) : Cardinality(s) \in 1 .. 3} :
             \E g \in fs, shape \in Shape :
               definition = OneStep(Step({type},
                 Keys([f \in fs |-> IF f = g THEN shape ELSE RightShape(f)])))
    <3>1. PICK type \in STEP_TYPE_KEYS :
             \E fs \in {s \in SUBSET FieldsOf(type) : Cardinality(s) \in 1 .. 3} :
             \E g \in fs, shape \in Shape :
               definition = OneStep(Step({type},
                 Keys([f \in fs |-> IF f = g THEN shape ELSE RightShape(f)])))
      BY <2>3
    <3>2. \E value : definition = OneStep(Step({type}, value))
      BY <3>1
    <3>. QED BY <2>1, <3>2
  <2>4. CASE \E types \in {{}, {"run", "notify"}} : definition = OneStep(Step(types, NoAction))
    BY <1>0, <2>1, <2>4
  <2>5. CASE \E shape \in Shape :
               \/ definition = OneStep([Step({"run"}, NoAction) EXCEPT !.named = Scalar(shape)])
               \/ definition = OneStep([Step({"run"}, NoAction) EXCEPT !.env = Scalar(shape)])
    <3>1. \A x : /\ KnownStep([Step({"run"}, NoAction) EXCEPT !.named = x])
                 /\ KnownStep([Step({"run"}, NoAction) EXCEPT !.env = x])
      BY <1>0, StepParts
    <3>2. \E step : KnownStep(step) /\ definition = OneStep(step)
      BY <2>5, <3>1
    <3>. QED BY <3>2, OneStepKnown
  <2>. QED BY <1>2, <2>2, <2>3, <2>4, <2>5 DEF StepVaries
<1>3. CASE NamesVary
  <2>1. PICK n \in 1 .. 3 : \E steps \in [1 .. n -> Labelled] :
          definition = Definition(<<Stage(<<"x">>, steps)>>)
    BY <1>3 DEF NamesVary
  <2>2. PICK steps \in [1 .. n -> Labelled] : definition = Definition(<<Stage(<<"x">>, steps)>>)
    BY <2>1
  <2>3. DOMAIN definition.list = {1} /\ definition.list[1].list = steps
    BY <2>2 DEF Definition, Stage
  <2>4. ASSUME NEW step \in Labelled PROVE KnownStep(step)
    <3>1. CASE \E l \in Names : step = [PlainStep EXCEPT !.label = l]
      BY <3>1, StepParts
    <3>2. CASE \E t \in Names :
                 step = [Step({"run"}, NoAction) EXCEPT !.named = Scalar("text"), !.title = t]
      <4>1. \A shape : \A t \in Names :
              KnownStep([Step({"run"}, NoAction) EXCEPT !.named = shape, !.title = t])
        BY <1>0, StepParts
      <4>2. PICK t \in Names :
              step = [Step({"run"}, NoAction) EXCEPT !.named = Scalar("text"), !.title = t]
        BY <3>2
      <4>3. PICK shape : shape = Scalar("text")
        OBVIOUS
      <4>. QED BY <4>1, <4>2, <4>3
    <3>. QED BY <3>1, <3>2 DEF Labelled
  <2>5. Len(steps) = n /\ DOMAIN steps = 1 .. n /\ \A j \in DOMAIN steps : steps[j] \in Labelled
    BY <2>2
  <2>. QED BY <2>3, <2>4, <2>5 DEF KnownTypes
<1>. DEFINE S == Stage(<<"x">>, <<PlainStep>>)
<1>4. ASSUME NEW l, definition.list = l, \A i \in DOMAIN l : l[i].list = <<PlainStep>>
      PROVE  KnownTypes
  <2>1. KnownStep(PlainStep)
    BY StepParts
  <2>2. DOMAIN <<PlainStep>> = 1 .. 1 /\ Len(<<PlainStep>>) = 1 /\ <<PlainStep>>[1] = PlainStep
    OBVIOUS
  <2>. QED BY <1>4, <2>1, <2>2 DEF KnownTypes
<1>5. CASE StageVaries
  <2>1. ASSUME NEW shape \in Shape, NEW stage \in
                 {[S EXCEPT !.name = Scalar(shape)], [S EXCEPT !.steps = Scalar(shape)],
                  [S EXCEPT !.when = Scalar(shape)], [S EXCEPT !.runs_on = Scalar(shape)],
                  [S EXCEPT !.artifacts = Scalar(shape)], [S EXCEPT !.env = Scalar(shape)]},
               definition = Definition(<<stage>>)
        PROVE  KnownTypes
    <3>1. stage.list = <<PlainStep>>
      BY DEF Stage
    <3>2. definition.list = <<stage>>
      BY <2>1 DEF Definition
    <3>. QED BY <1>4, <3>1, <3>2
  <2>2. ASSUME NEW title \in Names,
               definition = Definition(<<S, Stage(title, <<PlainStep>>)>>)
        PROVE  KnownTypes
    <3>1. definition.list = <<S, Stage(title, <<PlainStep>>)>>
      BY <2>2 DEF Definition
    <3>2. S.list = <<PlainStep>> /\ Stage(title, <<PlainStep>>).list = <<PlainStep>>
      BY DEF Stage
    <3>. QED BY <1>4, <3>1, <3>2
  <2>3. \/ \E shape \in Shape : \E stage \in
               {[S EXCEPT !.name = Scalar(shape)], [S EXCEPT !.steps = Scalar(shape)],
                [S EXCEPT !.when = Scalar(shape)], [S EXCEPT !.runs_on = Scalar(shape)],
                [S EXCEPT !.artifacts = Scalar(shape)], [S EXCEPT !.env = Scalar(shape)]} :
             definition = Definition(<<stage>>)
        \/ \E title \in Names : definition = Definition(<<S, Stage(title, <<PlainStep>>)>>)
    BY <1>5 DEF StageVaries
  <2>. HIDE DEF S
  <2>. QED BY <2>1, <2>2, <2>3
<1>6. CASE TopVaries
  <2>1. definition.list = OneStep(PlainStep).list
    <3>. DEFINE D == OneStep(PlainStep)
    <3>1. \A x : /\ [D EXCEPT !.is = x].list = D.list /\ [D EXCEPT !.env = x].list = D.list
                 /\ [D EXCEPT !.stages = x].list = D.list
                 /\ [D EXCEPT !.runs_on = x].list = D.list
                 /\ [D EXCEPT !.notifications = x].list = D.list
      BY DEF OneStep, Definition
    <3>2. \/ \E shape \in Shape : definition \in
               {[D EXCEPT !.is = shape], [D EXCEPT !.env = Scalar(shape)],
                [D EXCEPT !.stages = Scalar(shape)], [D EXCEPT !.runs_on = Scalar(shape)],
                [D EXCEPT !.notifications = Scalar(shape)],
                [D EXCEPT !.notifications = Keys([e \in {"on_failure", "on_fixed"} |-> shape])],
                [D EXCEPT !.notifications = Keys([e \in {"on_fire"} |-> shape])]}
          \/ \E fs \in SUBSET {"os", "arch", "labels"}, s \in Shape, t \in Shape :
               definition = [D EXCEPT !.runs_on = Keys([f \in fs |-> IF f = "labels" THEN s ELSE t])]
      BY <1>6 DEF TopVaries
    <3>. SUFFICES definition.list = D.list
      OBVIOUS
    <3>. HIDE DEF D
    <3>3. CASE \E shape \in Shape : definition \in
               {[D EXCEPT !.is = shape], [D EXCEPT !.env = Scalar(shape)],
                [D EXCEPT !.stages = Scalar(shape)], [D EXCEPT !.runs_on = Scalar(shape)],
                [D EXCEPT !.notifications = Scalar(shape)],
                [D EXCEPT !.notifications = Keys([e \in {"on_failure", "on_fixed"} |-> shape])],
                [D EXCEPT !.notifications = Keys([e \in {"on_fire"} |-> shape])]}
      <4>1. PICK shape \in Shape : definition \in
               {[D EXCEPT !.is = shape], [D EXCEPT !.env = Scalar(shape)],
                [D EXCEPT !.stages = Scalar(shape)], [D EXCEPT !.runs_on = Scalar(shape)],
                [D EXCEPT !.notifications = Scalar(shape)],
                [D EXCEPT !.notifications = Keys([e \in {"on_failure", "on_fixed"} |-> shape])],
                [D EXCEPT !.notifications = Keys([e \in {"on_fire"} |-> shape])]}
        BY <3>3
      <4>2. PICK x : x = Keys([e \in {"on_failure", "on_fixed"} |-> shape])
        OBVIOUS
      <4>3. PICK y : y = Keys([e \in {"on_fire"} |-> shape])
        OBVIOUS
      <4>4. PICK z : z = Scalar(shape)
        OBVIOUS
      <4>5. definition \in {[D EXCEPT !.is = shape], [D EXCEPT !.env = z], [D EXCEPT !.stages = z],
                            [D EXCEPT !.runs_on = z], [D EXCEPT !.notifications = z],
                            [D EXCEPT !.notifications = x], [D EXCEPT !.notifications = y]}
        BY <4>1, <4>2, <4>3, <4>4
      <4>6. /\ [D EXCEPT !.is = shape].list = D.list /\ [D EXCEPT !.env = z].list = D.list
            /\ [D EXCEPT !.stages = z].list = D.list /\ [D EXCEPT !.runs_on = z].list = D.list
            /\ [D EXCEPT !.notifications = z].list = D.list
            /\ [D EXCEPT !.notifications = x].list = D.list
            /\ [D EXCEPT !.notifications = y].list = D.list
        BY <3>1
      <4>. QED BY <4>5, <4>6
    <3>4. CASE \E fs \in SUBSET {"os", "arch", "labels"}, s \in Shape, t \in Shape :
                 definition = [D EXCEPT !.runs_on = Keys([f \in fs |-> IF f = "labels" THEN s ELSE t])]
      <4>1. PICK fs \in SUBSET {"os", "arch", "labels"}, s \in Shape, t \in Shape :
              definition = [D EXCEPT !.runs_on = Keys([f \in fs |-> IF f = "labels" THEN s ELSE t])]
        BY <3>4
      <4>2. PICK x : x = Keys([f \in fs |-> IF f = "labels" THEN s ELSE t])
        OBVIOUS
      <4>3. definition = [D EXCEPT !.runs_on = x]
        BY <4>1, <4>2
      <4>. QED BY <3>1, <4>3
    <3>. QED BY <3>2, <3>3, <3>4
  <2>. QED BY <2>1, StepParts, OneStepKnown
<1>. QED BY <1>2, <1>3, <1>5, <1>6 DEF CompilerInit

(* So that what waits is always compiled from steps of known types.         *)
LEMMA CompilerAlways == CompilerSpec => [](Compiled /\ KnownTypes)
BY CompilerStart, CompilerStep, PTL DEF CompilerSpec

(* What compiled has only steps that passed _validate_step. *)
LEMMA CompiledIsRunnable == Compiled /\ KnownTypes => ValidStepIsRunnable
<1>1. ASSUME Compiled, KnownTypes, triggered.status = "pending",
             NEW i \in DOMAIN triggered.stages, NEW j \in DOMAIN triggered.stages[i].steps
      PROVE  LET step == triggered.stages[i].steps[j] IN
             NobodyChecks(step.step_type, step.config) \/ AgentAccepts(step.step_type, step.config)
  <2>1. Valid(definition) /\ triggered.stages = Compile(definition)
    BY <1>1 DEF Compiled
  <2>2. i \in DOMAIN definition.list
    BY <2>1 DEF Compile
  <2>. DEFINE list == definition.list[i].list
  <2>3. triggered.stages[i] = CompileStage(definition.list[i])
    BY <2>1, <2>2 DEF Compile
  <2>. DEFINE names == StepNames(list)
  <2>4. triggered.stages[i].steps =
          [q \in DOMAIN list |-> [name |-> names[q], step_type |-> StepType(list[q]),
                                  config |-> list[q].value.has]]
    BY <2>3 DEF CompileStage
  <2>. HIDE DEF names
  <2>5. j \in DOMAIN list
    BY <2>4
  <2>6. /\ triggered.stages[i].steps[j].step_type = StepType(list[j])
        /\ triggered.stages[i].steps[j].config = list[j].value.has
    BY <2>4, <2>5
  <2>7. ValidStep(list[j]) /\ KnownStep(list[j])
    BY <1>1, <2>1, <2>2, <2>5 DEF Valid, ValidStage, KnownTypes
  <2>8. CASE list[j].plain
    <3>1. StepType(list[j]) = "run"
      BY <2>8 DEF StepType
    <3>. QED BY <2>6, <3>1 DEF AgentAccepts, CommandAccepts
  <2>9. CASE ~list[j].plain
    <3>1. PICK type \in STEP_TYPE_KEYS :
            list[j].actions = {type} /\ ValidAction(type, list[j].value)
      BY <2>7, <2>9 DEF ValidStep, KnownStep
    <3>2. StepType(list[j]) = type
      BY <2>9, <3>1 DEF StepType
    <3>. PICK value : value = list[j].value
      OBVIOUS
    <3>3. NobodyChecks(type, value.has) \/ AgentAccepts(type, value.has)
      BY <3>1, AgentRuns
    <3>. QED BY <2>6, <3>2, <3>3
  <2>. QED BY <2>8, <2>9
<1>. QED BY <1>1 DEF ValidStepIsRunnable

(* A step of a build that waits passed _validate_step, and the agent does   *)
(* not turn it down for what it says, but for what nobody checks.           *)
THEOREM ValidStepsAlwaysRun == CompilerSpec => []ValidStepIsRunnable
BY CompiledIsRunnable, CompilerAlways, PTL

-----------------------------------------------------------------------------
(* What finitely many have is finite.                                       *)
LEMMA ImageFinite ==
  ASSUME NEW S, IsFiniteSet(S), NEW f, DOMAIN f = S
  PROVE  IsFiniteSet({f[x] : x \in S})
<1>. DEFINE g == [x \in S |-> f[x]]
            T == {f[x] : x \in S}
<1>1. g \in [S -> T] /\ \A t \in T : \E x \in S : g[x] = t
  OBVIOUS
<1>2. g \in Surjection(S, T)
  BY <1>1 DEF Surjection
<1>. HIDE DEF g, T
<1>3. IsFiniteSet(T)
  BY <1>2, FS_Surjection
<1>. QED BY <1>3 DEF T

(* There is a number that makes a label new. *)
LEMMA NumberIsNew ==
  ASSUME NEW taken, IsFiniteSet(taken), NEW label \in Labels
  PROVE  Numbered(label, taken) \notin taken /\ Numbered(label, taken) \in Labels
<1>1. CASE label \notin taken
  BY <1>1 DEF Numbered
<1>2. CASE label \in taken
  <2>. DEFINE c == Cardinality(taken)
              R == 2 .. c + 2
              new == {n \in R : Append(label, n) \notin taken}
  <2>1. c \in Nat
    BY FS_CardinalityType
  <2>2. \A n \in R : Append(label, n) \in Labels /\ Append(label, n)[Len(label) + 1] = n
    BY <2>1 DEF Labels
  <2>. HIDE DEF c
  <2>3. new # {}
    <3>1. SUFFICES ASSUME \A n \in R : Append(label, n) \in taken PROVE FALSE
      OBVIOUS
    <3>. DEFINE f == [n \in R |-> Append(label, n)]
    <3>2. f \in [R -> taken] /\ \A a, b \in R : f[a] = f[b] => a = b
      BY <2>2, <3>1
    <3>3. f \in Injection(R, taken)
      BY <3>2 DEF Injection, IsInjective
    <3>. HIDE DEF f, R
    <3>4. Cardinality(R) <= Cardinality(taken)
      BY <3>3, FS_Injection
    <3>5. Cardinality(R) = c + 1
      BY <2>1, FS_Interval DEF R
    <3>. QED BY <2>1, <3>4, <3>5 DEF c
  <2>4. new \subseteq Nat
    BY <2>1
  <2>5. PICK n \in new : \A k \in new : n <= k
    <3>. HIDE DEF new
    <3>. QED BY <2>3, <2>4, SmallestNumber
  <2>6. \E m \in R : /\ Append(label, m) \notin taken
                     /\ \A k \in 2 .. m - 1 : Append(label, k) \in taken
    <3>1. ASSUME NEW k \in 2 .. n - 1 PROVE Append(label, k) \in taken
      <4>1. k \in R /\ ~(n <= k)
        BY <2>1
      <4>. QED BY <2>5, <4>1
    <3>. QED BY <2>5, <3>1
  <2>7. Numbered(label, taken) = Append(label, CHOOSE m \in R :
          Append(label, m) \notin taken /\ \A k \in 2 .. m - 1 : Append(label, k) \in taken)
    BY <1>2 DEF Numbered, c
  <2>8. \E m \in R : Numbered(label, taken) = Append(label, m) /\ Append(label, m) \notin taken
    BY <2>6, <2>7
  <2>. QED BY <2>2, <2>8
<1>. QED BY <1>1, <1>2

(* The names of a stage's steps, one after the other. *)
LEMMA NamesInTurn ==
  ASSUME NEW steps, NEW l \in Nat, l = Len(steps), DOMAIN steps = 1 .. l,
         \A i \in 1 .. l : steps[i].label \in Labels /\ steps[i].title \in Labels
  PROVE  \A i \in 1 .. l :
           /\ NameGiven(steps[i]) => StepNames(steps)[i] = steps[i].title
           /\ ~NameGiven(steps[i]) =>
                /\ \A j \in 1 .. l : NameGiven(steps[j]) => StepNames(steps)[i] # steps[j].title
                /\ \A q \in 1 .. i - 1 : StepNames(steps)[i] # StepNames(steps)[q]
<1>. DEFINE written == {steps[i].title : i \in {j \in DOMAIN steps : NameGiven(steps[j])}}
            Name(step, names) ==
              IF NameGiven(step) THEN step.title
              ELSE Numbered(step.label, written \cup {names[i] : i \in DOMAIN names})
            More(n, names) == Append(names, Name(steps[n], names))
            Sat(m, f) == f = [n \in 0 .. m |-> IF n = 0 THEN <<>> ELSE More(n, f[n - 1])]
            u == CHOOSE f : Sat(l, f)
<1>1. StepNames(steps) = u[l]
  BY Zenon DEF StepNames
<1>2. Sat(l, u)
  <2>1. \E f : Sat(l, f)
    <3>. DEFINE T == {m \in 0 .. l : ~\E f : Sat(m, f)}
    <3>2. SUFFICES ASSUME T # {} PROVE FALSE
      <4>. HIDE DEF Sat
      <4>1. l \in 0 .. l
        OBVIOUS
      <4>. QED BY <4>1
    <3>3. T \subseteq Nat
      OBVIOUS
    <3>4. PICK m \in T : \A y \in T : m <= y
      <4>. HIDE DEF T
      <4>. QED BY <3>2, <3>3, SmallestNumber
    <3>. HIDE DEF More
    <3>5. m # 0
      <4>1. Sat(0, [n \in 0 .. 0 |-> <<>>])
        OBVIOUS
      <4>. QED BY <3>4, <4>1
    <3>6. m - 1 \in 0 .. l /\ m - 1 \notin T
      <4>. HIDE DEF Sat
      <4>1. m \in 0 .. l /\ m - 1 \in 0 .. l /\ ~(m <= m - 1)
        BY <3>4, <3>5
      <4>. QED BY <3>4, <4>1
    <3>7. PICK f : Sat(m - 1, f)
      BY <3>6
    <3>. DEFINE g == [n \in 0 .. m |-> IF n = m THEN More(m, f[m - 1]) ELSE f[n]]
    <3>8. Sat(m, g)
      <4>1. ASSUME NEW n \in 0 .. m
            PROVE  g[n] = IF n = 0 THEN <<>> ELSE More(n, g[n - 1])
        <5>1. CASE n = 0
          BY <3>5, <3>7, <4>1, <5>1
        <5>2. CASE n # 0
          <6>1. n - 1 \in 0 .. m /\ n - 1 # m
            BY <5>2
          <6>2. g[n - 1] = f[n - 1]
            BY <6>1
          <6>3. n # m => f[n] = More(n, f[n - 1])
            BY <3>7, <5>2
          <6>. QED BY <5>2, <6>2, <6>3
        <5>. QED BY <5>1, <5>2
      <4>. QED BY <4>1
    <3>. QED BY <3>4, <3>8
  <2>. HIDE DEF Sat
  <2>. QED BY <2>1 DEF u
<1>. HIDE DEF u
<1>3. /\ u[0] = <<>>
      /\ \A n \in 1 .. l : u[n] = More(n, u[n - 1])
  <2>. HIDE DEF More
  <2>. QED BY <1>2
<1>4. IsFiniteSet(written)
  <2>. DEFINE S == {j \in DOMAIN steps : NameGiven(steps[j])}
              f == [i \in S |-> steps[i].title]
  <2>1. IsFiniteSet(S)
    <3>1. IsFiniteSet(1 .. l) /\ S \in SUBSET (1 .. l)
      BY FS_Interval
    <3>. HIDE DEF S
    <3>. QED BY <3>1, FS_Subset
  <2>2. DOMAIN f = S /\ written = {f[i] : i \in S}
    OBVIOUS
  <2>. HIDE DEF S, f, written
  <2>3. IsFiniteSet({f[i] : i \in S})
    BY <2>1, <2>2, ImageFinite
  <2>. QED BY <2>2, <2>3
<1>. DEFINE Fine(m) ==
       /\ u[m] \in Seq(Labels) /\ Len(u[m]) = m
       /\ \A i \in 1 .. m :
           /\ NameGiven(steps[i]) => u[m][i] = steps[i].title
           /\ ~NameGiven(steps[i]) =>
                u[m][i] \notin written /\ \A q \in 1 .. i - 1 : u[m][i] # u[m][q]
<1>5. ASSUME NEW m \in 1 .. l, Fine(m - 1) PROVE Fine(m)
  <2>. DEFINE names == u[m - 1]
              x == Name(steps[m], names)
              N == {names[i] : i \in DOMAIN names}
  <2>1. names \in Seq(Labels) /\ Len(names) = m - 1 /\ DOMAIN names = 1 .. m - 1
    BY <1>5
  <2>2. IsFiniteSet(N)
    <3>1. IsFiniteSet(DOMAIN names)
      BY <2>1, FS_Interval
    <3>. HIDE DEF names
    <3>. QED BY <3>1, ImageFinite
  <2>3. IsFiniteSet(written \cup N)
    <3>. HIDE DEF written, N
    <3>. QED BY <1>4, <2>2, FS_Union
  <2>4. /\ x \in Labels
        /\ NameGiven(steps[m]) => x = steps[m].title
        /\ ~NameGiven(steps[m]) => x \notin written \cup N
    <3>. HIDE DEF written, N, names
    <3>1. CASE NameGiven(steps[m])
      BY <3>1
    <3>2. CASE ~NameGiven(steps[m])
      <4>1. x = Numbered(steps[m].label, written \cup N)
        BY <3>2 DEF N
      <4>. HIDE DEF x
      <4>. QED BY <2>3, <3>2, <4>1, NumberIsNew
    <3>. QED BY <3>1, <3>2
  <2>5. u[m] = Append(names, x)
    BY <1>3
  <2>. HIDE DEF x, written
  <2>6. /\ u[m] \in Seq(Labels) /\ Len(u[m]) = m /\ u[m][m] = x
        /\ \A i \in 1 .. m - 1 : u[m][i] = names[i]
    <3>. HIDE DEF names
    <3>. QED BY <2>1, <2>4, <2>5
  <2>7. ASSUME NEW i \in 1 .. m
        PROVE  /\ NameGiven(steps[i]) => u[m][i] = steps[i].title
               /\ ~NameGiven(steps[i]) =>
                    u[m][i] \notin written /\ \A q \in 1 .. i - 1 : u[m][i] # u[m][q]
    <3>1. CASE i = m
      <4>1. \A q \in 1 .. m - 1 : u[m][q] \in N
        BY <2>1, <2>6
      <4>. QED BY <2>4, <2>6, <3>1, <4>1
    <3>2. CASE i \in 1 .. m - 1
      <4>1. \A q \in 1 .. i - 1 : q \in 1 .. m - 1
        BY <3>2
      <4>. QED BY <1>5, <2>6, <3>2, <4>1
    <3>. QED BY <3>1, <3>2
  <2>. QED BY <2>6, <2>7
<1>6. Fine(0)
  BY <1>3
<1>7. Fine(l)
  <2>. DEFINE T == {m \in 0 .. l : ~Fine(m)}
  <2>. HIDE DEF Fine
  <2>1. SUFFICES ASSUME T # {} PROVE FALSE
    OBVIOUS
  <2>2. PICK m \in T : \A y \in T : m <= y
    <3>1. T \subseteq Nat
      OBVIOUS
    <3>. HIDE DEF T
    <3>. QED BY <2>1, <3>1, SmallestNumber
  <2>3. m # 0 /\ m - 1 \in 0 .. l /\ m - 1 \notin T
    BY <1>6, <2>2
  <2>. QED BY <1>5, <2>2, <2>3
<1>8. \A j \in 1 .. l : NameGiven(steps[j]) => steps[j].title \in written
  OBVIOUS
<1>. HIDE DEF written
<1>. QED BY <1>1, <1>7, <1>8

(* What compiled has the names that unique_step_names gives. *)
LEMMA CompiledIsDistinct == Compiled /\ KnownTypes => LabelsAreDistinct
<1>1. ASSUME Compiled, KnownTypes, triggered.status = "pending",
             NEW i \in DOMAIN triggered.stages
      PROVE  LET steps == triggered.stages[i].steps  source == definition.list[i].list IN
             \A j, k \in DOMAIN steps :
               j # k /\ ~NameGiven(source[j]) => steps[j].name # steps[k].name
  <2>1. triggered.stages = Compile(definition)
    BY <1>1 DEF Compiled
  <2>2. i \in DOMAIN definition.list
    BY <2>1 DEF Compile
  <2>. PICK list : list = definition.list[i].list
    OBVIOUS
  <2>. PICK l : l = Len(list)
    OBVIOUS
  <2>3. /\ l \in Nat /\ DOMAIN list = 1 .. l
        /\ \A j \in 1 .. l : list[j].label \in Labels /\ list[j].title \in Labels
    BY <1>1, <2>2 DEF KnownTypes, KnownStep
  <2>4. triggered.stages[i] = CompileStage(definition.list[i])
    BY <2>1, <2>2 DEF Compile
  <2>. DEFINE names == StepNames(list)
  <2>5. triggered.stages[i].steps =
          [q \in DOMAIN list |-> [name |-> names[q], step_type |-> StepType(list[q]),
                                  config |-> list[q].value.has]]
    BY <2>4 DEF CompileStage
  <2>6. \A q \in 1 .. l :
         /\ NameGiven(list[q]) => names[q] = list[q].title
         /\ ~NameGiven(list[q]) =>
              /\ \A j \in 1 .. l : NameGiven(list[j]) => names[q] # list[j].title
              /\ \A p \in 1 .. q - 1 : names[q] # names[p]
    <3>1. l = Len(list) /\ l \in Nat /\ DOMAIN list = 1 .. l
      BY <2>3
    <3>2. \A j \in 1 .. l : list[j].label \in Labels /\ list[j].title \in Labels
      BY <2>3
    <3>. QED BY ONLY <3>1, <3>2, NamesInTurn
  <2>. HIDE DEF names
  <2>7. /\ DOMAIN triggered.stages[i].steps = 1 .. l
        /\ \A q \in 1 .. l : triggered.stages[i].steps[q].name = names[q]
    BY <2>3, <2>5
  <2>8. ASSUME NEW j \in 1 .. l, NEW k \in 1 .. l, j # k, ~NameGiven(list[j])
        PROVE  names[j] # names[k]
    <3>1. CASE NameGiven(list[k])
      BY <2>6, <2>8, <3>1
    <3>2. CASE ~NameGiven(list[k])
      <4>1. k \in 1 .. j - 1 \/ j \in 1 .. k - 1
        BY <2>3, <2>8
      <4>. QED BY <2>6, <2>8, <3>2, <4>1
    <3>. QED BY <3>1, <3>2
  <2>. QED BY <2>7, <2>8
<1>. QED BY <1>1 DEF LabelsAreDistinct

(* A label that is made up (unique_step_names) is told from every other     *)
(* name of its stage.                                                       *)
THEOREM LabelsAlwaysDistinct == CompilerSpec => []LabelsAreDistinct
BY CompiledIsDistinct, CompilerAlways, PTL

-----------------------------------------------------------------------------
(* While a build runs there are MaxNews tasks of it at most, and its end     *)
(* makes one more.                                                          *)
NewsBounded ==
  \A n \in 1 .. MaxBuilds :
    /\ Len(sends[n]) <= MaxNews + 1
    /\ n \in DOMAIN builds /\ Runs(n) => Len(sends[n]) <= MaxNews

LEMMA NewsBoundedStep ==
  NewsInv /\ NewsBounded /\ [NotificationsNext]_notificationsVars => NewsBounded'
<1>. SUFFICES ASSUME NewsInv, NewsBounded, [NotificationsNext]_notificationsVars
              PROVE  NewsBounded'
  OBVIOUS
<1>1. /\ NewsTyped /\ MaxNews \in Nat \ {0} /\ Len(builds) \in Nat
      /\ DOMAIN builds = 1 .. Len(builds) /\ DOMAIN builds \subseteq 1 .. MaxBuilds
      /\ \A n \in 1 .. MaxBuilds :
           /\ sends[n] \in Seq(Tasks) /\ Len(sends[n]) \in Nat
           /\ n \notin DOMAIN builds => sends[n] = <<>>
  BY Sizes, NotificationsAssumption DEF NewsInv, NewsOf
<1>2. ASSUME NEW branch \in Branches, StartBuild(branch) \/ RecordInvalid(branch)
      PROVE  NewsBounded'
  <2>1. PICK row, n : /\ builds' = Append(builds, row) /\ n = Len(builds) + 1 /\ n <= MaxBuilds
                      /\ sends' = sends \/ sends' = Tell(n, "started")
    BY <1>2 DEF StartBuild, RecordInvalid
  <2>2. n \in 1 .. MaxBuilds /\ Len(sends[n]) = 0 /\ n \notin DOMAIN builds
    BY <1>1, <2>1
  <2>3. /\ DOMAIN builds' = 1 .. n
        /\ \A i \in DOMAIN builds : builds'[i] = builds[i]
    BY <1>1, <2>1 DEF NewsTyped
  <2>4. /\ \A i \in 1 .. MaxBuilds : i # n => sends'[i] = sends[i]
        /\ Len(sends'[n]) <= 1
    <3>1. CASE sends' = Tell(n, "started")
      BY <1>1, <2>2, <3>1, TaskAppended DEF MomentNames
    <3>2. CASE sends' = sends
      BY <2>2, <3>2
    <3>. QED BY <2>1, <3>1, <3>2
  <2>5. Len(sends'[n]) \in Nat
    <3>1. CASE sends' = Tell(n, "started")
      BY <1>1, <2>2, <3>1, TaskAppended DEF MomentNames
    <3>2. CASE sends' = sends
      BY <2>2, <3>2
    <3>. QED BY <2>1, <3>1, <3>2
  <2>6. Len(sends'[n]) <= MaxNews /\ Len(sends'[n]) <= MaxNews + 1
    BY <1>1, <2>4, <2>5
  <2>7. ASSUME NEW i \in 1 .. MaxBuilds, i # n
        PROVE  /\ Len(sends'[i]) <= MaxNews + 1
               /\ i \in DOMAIN builds' /\ Runs(i)' => Len(sends'[i]) <= MaxNews
    BY <1>1, <2>1, <2>3, <2>4, <2>7 DEF NewsBounded, Runs
  <2>. QED BY <2>6, <2>7 DEF NewsBounded
<1>3. ASSUME NEW n \in DOMAIN builds, NEW moment \in MomentNames, Runs(n), sends' = Tell(n, moment),
             \/ builds' = builds /\ Len(sends[n]) < MaxNews
             \/ /\ DOMAIN builds' = DOMAIN builds /\ builds'[n].status # "running"
                /\ \A i \in DOMAIN builds : i # n => builds'[i] = builds[i]
      PROVE  NewsBounded'
  <2>1. /\ Len(sends'[n]) = Len(sends[n]) + 1 /\ Len(sends[n]) \in Nat
        /\ \A i \in 1 .. MaxBuilds : i # n => sends'[i] = sends[i]
    BY <1>1, <1>3, TaskAppended
  <2>2. Len(sends[n]) <= MaxNews
    BY <1>1, <1>3 DEF NewsBounded
  <2>. QED BY <1>1, <1>3, <2>1, <2>2 DEF NewsBounded, Runs
<1>4. ASSUME NEW n \in DOMAIN builds, WaitForInput(n) \/ EndBuild(n) PROVE NewsBounded'
  <2>1. CASE WaitForInput(n)
    BY <1>3, <2>1 DEF WaitForInput, MomentNames
  <2>2. CASE EndBuild(n)
    <3>1. PICK status \in {"success", "failed", "cancelled"} :
            builds' = [builds EXCEPT ![n].status = status]
      BY <2>2 DEF EndBuild
    <3>2. builds[n] \in BuildRows
      BY <1>1, Sizes
    <3>3. /\ DOMAIN builds' = DOMAIN builds /\ builds'[n].status = status
          /\ \A i \in DOMAIN builds : i # n => builds'[i] = builds[i]
      BY <1>1, <3>1, <3>2 DEF BuildRows
    <3>. QED BY <1>3, <2>2, <3>3 DEF EndBuild, MomentNames
  <2>. QED BY <1>4, <2>1, <2>2
<1>5. ASSUME builds' = builds, \A i \in 1 .. MaxBuilds : Len(sends'[i]) \in 0 .. Len(sends[i])
      PROVE  NewsBounded'
  BY <1>1, <1>5 DEF NewsBounded, Runs
<1>6. ASSUME NEW n \in DOMAIN builds, LoseSends(n) PROVE NewsBounded'
  <2>1. /\ builds' = builds
        /\ \A i \in 1 .. MaxBuilds : sends'[i] = IF i = n THEN <<>> ELSE sends[i]
    BY <1>1, <1>6 DEF LoseSends, NewsTyped
  <2>. QED BY <1>1, <1>5, <2>1
<1>7. ASSUME NEW n \in DOMAIN builds, NEW k \in DOMAIN sends[n],
             ReadBlock(n, k) \/ Send(n, k) \/ Sent(n, k)
      PROVE  NewsBounded'
  <2>1. CASE ReadBlock(n, k) \/ Send(n, k)
    <3>1. builds' = builds /\ \E t : sends' = [sends EXCEPT ![n] = [sends[n] EXCEPT ![k] = t]]
      BY <2>1 DEF ReadBlock, Send
    <3>2. PICK t : sends' = [sends EXCEPT ![n] = [sends[n] EXCEPT ![k] = t]]
      BY <3>1
    <3>3. Len([sends[n] EXCEPT ![k] = t]) = Len(sends[n])
      BY <1>1
    <3>4. \A i \in 1 .. MaxBuilds : Len(sends'[i]) = Len(sends[i])
      BY <1>1, <3>2, <3>3 DEF NewsTyped
    <3>. QED BY <1>1, <1>5, <3>1, <3>4
  <2>2. CASE Sent(n, k)
    <3>1. builds' = builds /\ sends' = [sends EXCEPT ![n] = TasksWithout(sends[n], k)]
      BY <2>2 DEF Sent
    <3>2. Len(sends[n]) - 1 \in Nat
      BY <1>1
    <3>3. Len(TasksWithout(sends[n], k)) = Len(sends[n]) - 1
      BY <3>2 DEF TasksWithout
    <3>4. \A i \in 1 .. MaxBuilds :
            Len(sends'[i]) = IF i = n THEN Len(sends[n]) - 1 ELSE Len(sends[i])
      BY <1>1, <3>1, <3>3 DEF NewsTyped
    <3>. QED BY <1>1, <1>5, <3>1, <3>2, <3>4
  <2>. QED BY <1>7, <2>1, <2>2
<1>8. CASE ArrivesLate \/ EditPipeline \/ UNCHANGED notificationsVars
  BY <1>1, <1>5, <1>8 DEF ArrivesLate, EditPipeline, notificationsVars
<1>. QED BY <1>2, <1>4, <1>6, <1>7, <1>8 DEF NotificationsNext

(* Builds, tasks and the block keep their types, and the tasks of a build    *)
(* their bound.                                                              *)
THEOREM NewsTypeCorrect == NotificationsSpec => []NotificationsTypeOK
<1>1. NotificationsInit => NewsBounded
  <2>. SUFFICES ASSUME NotificationsInit PROVE NewsBounded
    OBVIOUS
  <2>1. \A n \in 1 .. MaxBuilds : Len(sends[n]) = 0
    BY DEF NotificationsInit
  <2>. QED BY <2>1, NotificationsAssumption DEF NewsBounded
<1>2. NewsInv /\ NewsBounded => NotificationsTypeOK
  <2>. SUFFICES ASSUME NewsInv, NewsBounded PROVE NotificationsTypeOK
    OBVIOUS
  <2>1. \A n \in DOMAIN builds : builds[n] \in BuildRows
    BY Sizes DEF NewsInv
  <2>. QED BY <2>1 DEF NewsInv, NewsTyped, NewsBounded, NotificationsTypeOK, BuildRows
<1>. QED BY <1>1, <1>2, NewsAlways, NewsBoundedStep, PTL DEF NotificationsSpec

(* The outcomes of a trigger.                                               *)
LEMMA CompilerStartsTyped == CompilerInit => CompilerTypeOK
BY DEF CompilerInit, CompilerTypeOK, NotTriggered, Build

LEMMA CompilerIsTyped == CompilerTypeOK /\ [CompilerNext]_compilerVars => CompilerTypeOK'
BY DEF CompilerNext, TriggerBy, Build, compilerVars, CompilerTypeOK
==============================================================================
