---------------------------- MODULE BuildStepsProofs ---------------------------
(***************************************************************************)
(* One step of a build at a time, no success that was none and no work that *)
(* outlives a successful build, for any builds, numbers of steps, sockets   *)
(* and slots; and what passes a gate or a trigger step, for any timeout.    *)
(***************************************************************************)
EXTENDS BuildSteps, SequenceTheorems, FiniteSetTheorems, TLAPS

-----------------------------------------------------------------------------
(* What a queue holds, and that it holds it once.                           *)
Has(q, x) == \E i \in DOMAIN q : q[i] = x
Once(q, x) == \A i, j \in DOMAIN q : q[i] = x /\ q[j] = x => i = j

LEMMA AppendHas ==
  ASSUME NEW S, NEW q \in Seq(S), NEW y \in S
  PROVE  /\ Append(q, y) \in Seq(S)
         /\ \A x : Has(Append(q, y), x) <=> Has(q, x) \/ x = y
         /\ \A x : Once(q, x) /\ (x = y => ~Has(q, x)) => Once(Append(q, y), x)
<1>1. /\ Append(q, y) \in Seq(S) /\ Len(Append(q, y)) = Len(q) + 1
      /\ \A i \in 1 .. Len(q) : Append(q, y)[i] = q[i]
      /\ Append(q, y)[Len(q) + 1] = y
  BY AppendProperties
<1>2. Len(q) \in Nat /\ DOMAIN q = 1 .. Len(q) /\ DOMAIN Append(q, y) = 1 .. Len(q) + 1
  BY <1>1, LenProperties
<1>3. 1 .. Len(q) + 1 = (1 .. Len(q)) \cup {Len(q) + 1}
  BY <1>2
<1>4. \A x : Has(Append(q, y), x) <=> Has(q, x) \/ x = y
  BY <1>1, <1>2, <1>3 DEF Has
<1>5. \A x : Once(q, x) /\ (x = y => ~Has(q, x)) => Once(Append(q, y), x)
  BY <1>1, <1>2, <1>3 DEF Once, Has
<1>. QED BY <1>1, <1>4, <1>5

LEMMA TailHas ==
  ASSUME NEW S, NEW q \in Seq(S), q # <<>>
  PROVE  /\ Tail(q) \in Seq(S) /\ Head(q) \in S /\ Has(q, Head(q))
         /\ \A x : Has(Tail(q), x) => Has(q, x)
         /\ \A x : Once(q, x) => Once(Tail(q), x)
         /\ Once(q, Head(q)) => ~Has(Tail(q), Head(q))
<1>1. /\ Head(q) \in S /\ Tail(q) \in Seq(S) /\ Len(Tail(q)) = Len(q) - 1
      /\ \A i \in 1 .. Len(Tail(q)) : Tail(q)[i] = q[i + 1]
  BY HeadTailProperties
<1>2. Len(q) \in Nat \ {0} /\ DOMAIN q = 1 .. Len(q) /\ DOMAIN Tail(q) = 1 .. Len(q) - 1
  BY <1>1, LenProperties, EmptySeq
<1>3. Head(q) = q[1] /\ 1 \in DOMAIN q
  BY <1>2
<1>4. \A i \in DOMAIN Tail(q) : i + 1 \in DOMAIN q /\ Tail(q)[i] = q[i + 1] /\ i + 1 # 1
  BY <1>1, <1>2
<1>5. Has(q, Head(q)) /\ \A x : Has(Tail(q), x) => Has(q, x)
  BY <1>3, <1>4 DEF Has
<1>6. \A x : Once(q, x) => Once(Tail(q), x)
  <2>. SUFFICES ASSUME NEW x, Once(q, x), NEW i \in DOMAIN Tail(q), NEW j \in DOMAIN Tail(q),
                       Tail(q)[i] = x, Tail(q)[j] = x
                PROVE  i = j
    BY DEF Once
  <2>1. i + 1 = j + 1
    BY <1>4 DEF Once
  <2>. QED BY <1>2, <2>1
<1>7. Once(q, Head(q)) => ~Has(Tail(q), Head(q))
  BY <1>3, <1>4 DEF Once, Has
<1>. QED BY <1>1, <1>5, <1>6, <1>7

(* A step is the step of a build.                                           *)
LEMMA StepIs ==
  /\ \A s \in Steps : s[1] \in Builds /\ s[2] \in 1 .. StepsOf[s[1]] /\ s = <<s[1], s[2]>>
  /\ \A b \in Builds : StepsOf[b] \in Nat /\ \A i \in 1 .. StepsOf[b] : <<b, i>> \in Steps
BY StepConstants DEF Steps

(* Messages are told apart by their types and what they are about.          *)
LEMMA Messages ==
  /\ \A s, t : RunStep(s) = RunStep(t) => s = t
  /\ \A s, t : StepFinished(s) = StepFinished(t) => s = t
  /\ \A s, b : RunStep(s) # BuildFinished(b)
  /\ \A s, t : StepFinished(s) # StepStarted(t)
  /\ \A t \in Tasks : t.type = "run_step" => t.step \in Steps /\ t = RunStep(t.step)
  /\ \A t \in Tasks : t.type = "build_finished" => t.build \in Builds
  /\ \A f \in Frames : f.type = "step_finished" => f.step \in Steps /\ f = StepFinished(f.step)
  /\ \A f \in Frames : f.type = "step_started" => f.step \in Steps /\ f = StepStarted(f.step)
  /\ \A s \in Steps : RunStep(s) \in Tasks /\ StepFinished(s) \in Frames /\ StepStarted(s) \in Frames
  /\ \A b \in Builds : BuildFinished(b) \in Tasks
<1>1. /\ \A s, t : RunStep(s) = RunStep(t) => s = t
      /\ \A s, t : StepFinished(s) = StepFinished(t) => s = t
      /\ \A s, b : RunStep(s) # BuildFinished(b)
      /\ \A s, t : StepFinished(s) # StepStarted(t)
  <2>1. \A s : RunStep(s).step = s /\ RunStep(s).type = "run_step"
    BY DEF RunStep
  <2>2. \A s : StepFinished(s).step = s /\ StepFinished(s).type = "step_finished"
    BY DEF StepFinished
  <2>3. \A b : BuildFinished(b).type = "build_finished"
    BY DEF BuildFinished
  <2>4. \A s : StepStarted(s).type = "step_started"
    BY DEF StepStarted
  <2>. QED BY <2>1, <2>2, <2>3, <2>4
<1>2. \A t \in Tasks : t.type = "run_step" => t.step \in Steps /\ t = RunStep(t.step)
  BY DEF Tasks, RunStep, BuildFinished
<1>3. \A t \in Tasks : t.type = "build_finished" => t.build \in Builds
  BY DEF Tasks, RunStep, BuildFinished
<1>4. /\ \A f \in Frames : f.type = "step_finished" => f.step \in Steps /\ f = StepFinished(f.step)
      /\ \A f \in Frames : f.type = "step_started" => f.step \in Steps /\ f = StepStarted(f.step)
  BY DEF Frames, StepStarted, StepFinished
<1>. QED BY <1>1, <1>2, <1>3, <1>4 DEF Tasks, Frames

-----------------------------------------------------------------------------
(* The invariant *)

Reported(s) == apc[s] \in {"reported", "gone"}
Queued(s) == Has(tasks, RunStep(s)) \/ Has(down, RunStep(s))
Places == {"idle", "next", "send", "wait", "over", "cleanup", "done"}

StepsTyped ==
  /\ build_status \in [Builds -> StepStatus]
  /\ step_status \in [Steps -> StepStatus] /\ seen \in [Steps -> StepStatus]
  /\ epc \in [Builds -> Places] /\ cur \in [Builds -> Nat]
  /\ \A b \in Builds : cur[b] <= StepsOf[b]
  /\ mail \in [Builds -> BOOLEAN]
  /\ tasks \in Seq(Tasks) /\ down \in Seq(Tasks)
  /\ up \in [Conns -> Seq(Frames)] /\ conn \in {NoConn} \cup Conns /\ opened \in Nat
  /\ apc \in [Steps -> {"none", "gone"} \cup InFlight]
  /\ res \in [Steps -> {"running"} \cup Ended]

Cursor ==
  \A b \in Builds :
    /\ epc[b] \in {"send", "wait"} => cur[b] > 0
    /\ epc[b] = "idle" => cur[b] = 0

(* A step is sent once, and is on its way or with the agent.                *)
OneCopy ==
  \A s \in Steps :
    /\ Once(tasks, RunStep(s)) /\ Once(down, RunStep(s))
    /\ ~(Has(tasks, RunStep(s)) /\ Has(down, RunStep(s)))
    /\ Queued(s) => apc[s] = "none"

(* What the executor has not sent is nowhere; what it has left behind in    *)
(* its loop has been reported.                                              *)
NotYet ==
  \A s \in Steps :
    s[2] > cur[s[1]] \/ (s[2] = cur[s[1]] /\ epc[s[1]] = "send")
      => apc[s] = "none" /\ ~Queued(s)
Before ==
  \A s \in Steps :
    s[2] < cur[s[1]] \/ (s[2] = cur[s[1]] /\ epc[s[1]] = "next") => Reported(s)

(* A result is of a step that was reported.                                 *)
MailIsTrue == \A b \in Builds : mail[b] /\ epc[b] = "wait" => Reported(At(b))
FramesAreTrue ==
  \A c \in Conns, s \in Steps : Has(up[c], StepFinished(s)) => Reported(s)
RowsAreTrue ==
  \A s \in Steps :
    step_status[s] = "success" \/ seen[s] = "success"
      => Reported(s) /\ res[s] = "success"

(* The executor leaves its loop with a reported step or a failed one, and   *)
(* what it concludes goes by what it has seen.                              *)
LeftFailed ==
  \A s \in Steps :
    s[2] = cur[s[1]] /\ epc[s[1]] \in {"over", "cleanup", "done"}
      => Reported(s) \/ seen[s] = "failed"
Verdict ==
  \A s \in Steps :
    /\ epc[s[1]] \in {"cleanup", "done"} /\ seen[s] = "failed"
    => build_status[s[1]] # "success"

StepsInv ==
  /\ StepsTyped /\ Cursor /\ OneCopy /\ NotYet /\ Before
  /\ MailIsTrue /\ FramesAreTrue /\ RowsAreTrue /\ LeftFailed /\ Verdict

(* The step at which the executor is.                                       *)
LEMMA AtIsStep ==
  ASSUME StepsTyped, Cursor, NEW b \in Builds, epc[b] \in {"send", "wait"}
  PROVE  /\ At(b) \in Steps /\ At(b) = <<b, cur[b]>> /\ At(b)[1] = b /\ At(b)[2] = cur[b]
         /\ cur[b] \in 1 .. StepsOf[b]
<1>1. cur[b] \in Nat /\ cur[b] > 0 /\ cur[b] <= StepsOf[b] /\ StepsOf[b] \in Nat
  BY StepIs DEF StepsTyped, Cursor
<1>2. cur[b] \in 1 .. StepsOf[b]
  BY <1>1
<1>. QED BY <1>2, StepIs DEF At

LEMMA StepsBegin == Init => StepsInv
<1>. SUFFICES ASSUME Init
              PROVE  StepsInv
  OBVIOUS
<1>. USE DEF Init
<1>1. StepsTyped
  BY StepConstants DEF StepsTyped, Conns, Places, StepStatus, NoConn
<1>2. Cursor /\ OneCopy
  BY DEF Cursor, OneCopy, Once, Has, Queued
<1>3. NotYet /\ Before
  BY StepIs DEF NotYet, Before, Queued, Has
<1>4. MailIsTrue /\ FramesAreTrue /\ RowsAreTrue /\ LeftFailed /\ Verdict
  BY StepIs DEF MailIsTrue, FramesAreTrue, RowsAreTrue, LeftFailed, Verdict, Has
<1>. QED BY <1>1, <1>2, <1>3, <1>4 DEF StepsInv

-----------------------------------------------------------------------------
(* What only loses messages, or is about something else.                    *)
LEMMA OthersKeep ==
  ASSUME StepsInv, StepsTyped',
         UNCHANGED <<build_status, step_status, epc, cur, seen, mail, apc, res>>,
         OneCopy', \A s \in Steps : Queued(s)' => Queued(s),
         \A c \in Conns : \A s \in Steps :
           Has(up[c], StepFinished(s))' => Has(up[c], StepFinished(s))
  PROVE  StepsInv'
<1>1. Cursor' /\ NotYet' /\ Before'
  BY DEF StepsInv, Cursor, NotYet, Before, Reported
<1>2. MailIsTrue' /\ FramesAreTrue' /\ RowsAreTrue' /\ LeftFailed' /\ Verdict'
  BY DEF StepsInv, MailIsTrue, FramesAreTrue, RowsAreTrue, LeftFailed, Verdict, Reported, At
<1>. QED BY <1>1, <1>2 DEF StepsInv

(* The agent goes on with a step it has: what is reported stays so, and a   *)
(* result of it is sent when it is.                                         *)
LEMMA AgentKeeps ==
  ASSUME StepsInv, NEW s \in Steps,
         NEW place \in InFlight \cup {"gone"}, NEW r \in {"running"} \cup Ended,
         apc' = [apc EXCEPT ![s] = place], res' = [res EXCEPT ![s] = r],
         apc[s] # "none" /\ ~Queued(s),
         Reported(s) => place \in {"reported", "gone"} /\ r = res[s],
         UNCHANGED <<build_status, step_status, epc, cur, seen, mail, tasks, down,
                     conn, opened>>,
         \/ UNCHANGED up
         \/ \E f \in Frames :
              /\ conn # NoConn /\ up' = [up EXCEPT ![conn] = Append(@, f)]
              /\ \A t \in Steps : f = StepFinished(t) => t = s /\ place = "reported"
  PROVE  StepsInv'
<1>. USE DEF StepsInv
<1>1. /\ apc'[s] = place /\ res'[s] = r
      /\ \A t \in Steps : t # s => apc'[t] = apc[t] /\ res'[t] = res[t]
  BY DEF StepsTyped
<1>2. \A t \in Steps : Reported(t) => Reported(t)' /\ res'[t] = res[t]
  BY <1>1 DEF Reported
<1>3. StepsTyped' /\ \A c \in Conns : \A t \in Steps :
        Has(up'[c], StepFinished(t)) => Has(up[c], StepFinished(t))
                                        \/ (t = s /\ place = "reported")
  <2>1. CASE UNCHANGED up
    BY <2>1 DEF StepsTyped, InFlight, Registered
  <2>2. ASSUME NEW f \in Frames, conn # NoConn,
               up' = [up EXCEPT ![conn] = Append(@, f)],
               \A t \in Steps : f = StepFinished(t) => t = s /\ place = "reported"
        PROVE  StepsTyped' /\ \A c \in Conns : \A t \in Steps :
                 Has(up'[c], StepFinished(t)) => Has(up[c], StepFinished(t))
                                                 \/ (t = s /\ place = "reported")
    <3>1. conn \in Conns /\ up[conn] \in Seq(Frames)
      BY <2>2 DEF StepsTyped
    <3>2. /\ Append(up[conn], f) \in Seq(Frames)
          /\ \A x : Has(Append(up[conn], f), x) <=> Has(up[conn], x) \/ x = f
      BY <3>1, AppendHas
    <3>3. /\ up' \in [Conns -> Seq(Frames)] /\ up'[conn] = Append(up[conn], f)
          /\ \A c \in Conns : c # conn => up'[c] = up[c]
      BY <2>2, <3>1, <3>2 DEF StepsTyped
    <3>4. StepsTyped'
      BY <3>3 DEF StepsTyped, InFlight, Registered
    <3>. QED BY <2>2, <3>2, <3>3, <3>4
  <2>. QED BY <2>1, <2>2
<1>4. Cursor' /\ OneCopy'
  BY <1>1 DEF Cursor, OneCopy, Queued
<1>5. NotYet' /\ Before'
  BY <1>1, <1>2 DEF NotYet, Before, Queued
<1>6. MailIsTrue'
  <2>1. \A b \in Builds : epc[b] = "wait" => At(b) \in Steps
    BY AtIsStep
  <2>. QED BY <1>2, <2>1 DEF MailIsTrue, At
<1>7. FramesAreTrue'
  BY <1>1, <1>2, <1>3 DEF FramesAreTrue, Reported
<1>8. RowsAreTrue' /\ LeftFailed' /\ Verdict'
  BY <1>2 DEF RowsAreTrue, LeftFailed, Verdict
<1>. QED BY <1>3, <1>4, <1>5, <1>6, <1>7, <1>8

(* A step the agent has is in no queue.                                     *)
LEMMA WithTheAgent ==
  ASSUME StepsInv, NEW s \in Steps, apc[s] # "none"
  PROVE  ~Queued(s)
BY DEF StepsInv, OneCopy

LEMMA RunStepsKeep ==
  ASSUME StepsInv, NEW s \in Steps, RunSteps(s) \/ End(s)
  PROVE  StepsInv'
<1>. USE DEF elsewhere, rows, presence, executor, link, sockets, InFlight, Registered
<1>1. res' = [res EXCEPT ![s] = res[s]] \/ ~(UNCHANGED res)
  BY DEF StepsInv, StepsTyped
<1>2. StepsTyped
  BY DEF StepsInv
<1>3. CASE Begin(s)
  <2>1. apc[s] = "spawned" /\ apc' = [apc EXCEPT ![s] = "begun"]
    BY <1>3 DEF Begin
  <2>2. UNCHANGED up \/ (conn # NoConn /\ up' = [up EXCEPT ![conn] = Append(@, StepStarted(s))])
    BY <1>3 DEF Begin, SendUp
  <2>3. \A t \in Steps : StepStarted(s) # StepFinished(t)
    BY Messages
  <2>4. StepStarted(s) \in Frames /\ ~Queued(s)
    BY <2>1, Messages, WithTheAgent
  <2>5. /\ UNCHANGED <<build_status, step_status, epc, cur, seen, mail, tasks, down,
                       conn, opened>>
        /\ res' = [res EXCEPT ![s] = res[s]] /\ res[s] \in {"running"} \cup Ended
    BY <1>1, <1>2, <1>3 DEF Begin, StepsTyped
  <2>. QED BY <2>1, <2>2, <2>3, <2>4, <2>5, AgentKeeps DEF Reported
<1>4. CASE Acquire(s)
  <2>1. /\ apc[s] = "begun" /\ apc' = [apc EXCEPT ![s] = "running"]
        /\ UNCHANGED <<build_status, step_status, epc, cur, seen, mail, tasks, down,
                       conn, opened, up>>
        /\ res' = [res EXCEPT ![s] = res[s]] /\ res[s] \in {"running"} \cup Ended
    BY <1>1, <1>2, <1>4 DEF Acquire, StepsTyped
  <2>. QED BY <2>1, WithTheAgent, AgentKeeps DEF Reported
<1>5. CASE GiveUp(s) \/ End(s)
  <2>1. PICK r \in Ended : res' = [res EXCEPT ![s] = r]
    BY <1>5 DEF GiveUp, End, Ended
  <2>2. /\ apc[s] \in {"begun", "running"} /\ apc' = [apc EXCEPT ![s] = "ended"]
        /\ UNCHANGED <<build_status, step_status, epc, cur, seen, mail, tasks, down,
                       conn, opened, up>>
    BY <1>5 DEF GiveUp, End
  <2>. QED BY <2>1, <2>2, WithTheAgent, AgentKeeps DEF Reported
<1>6. CASE Report(s)
  <2>1. apc[s] = "ended" /\ apc' = [apc EXCEPT ![s] = "reported"]
    BY <1>6 DEF Report
  <2>2. UNCHANGED up \/ (conn # NoConn /\ up' = [up EXCEPT ![conn] = Append(@, StepFinished(s))])
    BY <1>6 DEF Report, SendUp
  <2>3. \A t \in Steps : StepFinished(s) = StepFinished(t) => t = s
    BY Messages
  <2>4. StepFinished(s) \in Frames /\ ~Queued(s)
    BY <2>1, Messages, WithTheAgent
  <2>5. /\ UNCHANGED <<build_status, step_status, epc, cur, seen, mail, tasks, down,
                       conn, opened>>
        /\ res' = [res EXCEPT ![s] = res[s]] /\ res[s] \in {"running"} \cup Ended
    BY <1>1, <1>2, <1>6 DEF Report, StepsTyped
  <2>. QED BY <2>1, <2>2, <2>3, <2>4, <2>5, AgentKeeps DEF Reported
<1>7. CASE Untrack(s)
  <2>1. /\ apc[s] = "reported" /\ apc' = [apc EXCEPT ![s] = "gone"]
        /\ UNCHANGED <<build_status, step_status, epc, cur, seen, mail, tasks, down,
                       conn, opened, up>>
        /\ res' = [res EXCEPT ![s] = res[s]] /\ res[s] \in {"running"} \cup Ended
    BY <1>1, <1>2, <1>7 DEF Untrack, UntrackIf, StepsTyped
  <2>. QED BY <2>1, WithTheAgent, AgentKeeps DEF Reported
<1>. QED BY <1>3, <1>4, <1>5, <1>6, <1>7 DEF RunSteps

(* A frame comes to the agent: the step it is to run is in the queue no     *)
(* more.                                                                    *)
LEMMA FrameKeeps ==
  ASSUME StepsInv, Frame
  PROVE  StepsInv'
<1>. USE DEF elsewhere, rows, presence, executor, link
<1>0. StepsTyped /\ down \in Seq(Tasks) /\ down # <<>> /\ down' = Tail(down)
  BY DEF StepsInv, StepsTyped, Frame, HandleRunStep, FinishBuild
<1>1. /\ Tail(down) \in Seq(Tasks) /\ Head(down) \in Tasks /\ Has(down, Head(down))
      /\ \A x : Has(Tail(down), x) => Has(down, x)
      /\ \A x : Once(down, x) => Once(Tail(down), x)
      /\ Once(down, Head(down)) => ~Has(Tail(down), Head(down))
  BY <1>0, TailHas
<1>2. CASE HandleRunStep
  <2>. DEFINE s == Head(down).step
  <2>1. s \in Steps /\ Head(down) = RunStep(s)
    BY <1>1, <1>2, Messages DEF HandleRunStep
  <2>2. apc[s] = "none" /\ ~Has(tasks, RunStep(s)) /\ ~Has(down', RunStep(s))
    BY <1>0, <1>1, <2>1 DEF StepsInv, OneCopy, Queued
  <2>3. s[2] = cur[s[1]] /\ epc[s[1]] \notin {"send", "next"}
    <3>1. Queued(s)
      BY <1>1, <2>1 DEF Queued
    <3>2. s[2] \in Nat /\ cur[s[1]] \in Nat
      BY <1>0, <2>1, StepIs DEF StepsTyped
    <3>. QED BY <2>1, <2>2, <3>1, <3>2 DEF StepsInv, NotYet, Before, Reported
  <2>. HIDE DEF s
  <2>4. /\ apc' = [apc EXCEPT ![s] = "spawned"]
        /\ UNCHANGED <<build_status, step_status, epc, cur, seen, mail, tasks, up,
                       conn, opened, res>>
    BY <1>2 DEF HandleRunStep, s
  <2>5. apc'[s] = "spawned" /\ \A t \in Steps : t # s => apc'[t] = apc[t]
    BY <1>0, <2>1, <2>4 DEF StepsTyped
  <2>6. StepsTyped'
    BY <1>0, <1>1, <2>1, <2>4 DEF StepsTyped, InFlight
  <2>7. \A t \in Steps : (Reported(t) <=> Reported(t)') /\ (Queued(t)' => Queued(t))
    BY <1>0, <1>1, <2>2, <2>4, <2>5 DEF Reported, Queued
  <2>8. Cursor' /\ OneCopy'
    <3>1. Cursor'
      BY <2>4 DEF StepsInv, Cursor
    <3>2. OneCopy'
      BY <1>0, <1>1, <2>2, <2>4, <2>5, <2>7 DEF StepsInv, OneCopy, Queued
    <3>. QED BY <3>1, <3>2
  <2>9. NotYet' /\ Before'
    <3>1. NotYet'
      <4>1. s[2] \in Nat
        BY <2>1, StepIs
      <4>. QED BY <2>3, <2>4, <2>5, <2>7, <4>1 DEF StepsInv, NotYet
    <3>2. Before'
      BY <2>4, <2>7 DEF StepsInv, Before
    <3>. QED BY <3>1, <3>2
  <2>10. MailIsTrue'
    <3>1. \A b \in Builds : epc[b] = "wait" => At(b) \in Steps
      BY AtIsStep DEF StepsInv
    <3>. QED BY <2>4, <2>7, <3>1 DEF StepsInv, MailIsTrue, At
  <2>11. FramesAreTrue' /\ RowsAreTrue' /\ LeftFailed' /\ Verdict'
    BY <2>4, <2>7 DEF StepsInv, FramesAreTrue, RowsAreTrue, LeftFailed, Verdict
  <2>. QED BY <2>6, <2>8, <2>9, <2>10, <2>11 DEF StepsInv
<1>3. CASE FinishBuild
  <2>1. UNCHANGED <<build_status, step_status, epc, cur, seen, mail, apc, res, tasks,
                    up, conn, opened>>
    BY <1>3 DEF FinishBuild
  <2>2. StepsTyped'
    BY <1>0, <1>1, <2>1 DEF StepsTyped
  <2>3. OneCopy' /\ \A s \in Steps : Queued(s)' => Queued(s)
    BY <1>0, <1>1, <2>1 DEF StepsInv, OneCopy, Queued
  <2>. QED BY <2>1, <2>2, <2>3, OthersKeep
<1>. QED BY <1>2, <1>3 DEF Frame

-----------------------------------------------------------------------------
(* The executor's moves leave the agent, its queue and what is reported.    *)
atAgent == <<down, up, conn, opened, apc, res>>

LEMMA QueuedStays ==
  ASSUME UNCHANGED <<atAgent, tasks>>
  PROVE  \A s : (Queued(s)' <=> Queued(s)) /\ (Reported(s)' <=> Reported(s))
BY DEF atAgent, Queued, Reported

LEMMA StartKeeps ==
  ASSUME StepsInv, NEW b \in Builds, StartBuild(b)
  PROVE  StepsInv'
<1>. USE DEF StepsInv
<1>1. /\ epc[b] = "idle" /\ epc' = [epc EXCEPT ![b] = "next"]
      /\ build_status' = [build_status EXCEPT ![b] = "running"]
      /\ UNCHANGED <<step_status, cur, seen, mail, tasks, atAgent>>
  BY DEF StartBuild, Step, sockets, agent, atAgent
<1>2. /\ epc'[b] = "next" /\ \A c \in Builds : c # b => epc'[c] = epc[c]
      /\ cur[b] = 0 /\ \A c \in Builds : c # b => build_status'[c] = build_status[c]
  BY <1>1 DEF StepsTyped, Cursor
<1>3. \A s \in Steps : (Queued(s)' <=> Queued(s)) /\ (Reported(s)' <=> Reported(s))
  BY <1>1, QueuedStays
<1>4. StepsTyped'
  BY <1>1 DEF StepsTyped, atAgent, Places, StepStatus
<1>5. Cursor' /\ OneCopy'
  BY <1>1, <1>2, <1>3 DEF Cursor, OneCopy, atAgent
<1>6. NotYet' /\ Before'
  BY <1>1, <1>2, <1>3, StepIs DEF NotYet, Before, atAgent
<1>7. MailIsTrue' /\ FramesAreTrue' /\ RowsAreTrue'
  BY <1>1, <1>2, <1>3 DEF MailIsTrue, FramesAreTrue, RowsAreTrue, atAgent, At, Reported
<1>8. LeftFailed' /\ Verdict'
  BY <1>1, <1>2, <1>3, StepIs DEF LeftFailed, Verdict
<1>. QED BY <1>4, <1>5, <1>6, <1>7, <1>8

LEMMA NextStepKeeps ==
  ASSUME StepsInv, NEW b \in Builds, NextStep(b)
  PROVE  StepsInv'
<1>. USE DEF StepsInv
<1>1. epc[b] = "next" /\ UNCHANGED <<build_status, mail, tasks, atAgent>>
  BY DEF NextStep, loopRest, sockets, agent, atAgent
<1>2. \A s \in Steps : (Queued(s)' <=> Queued(s)) /\ (Reported(s)' <=> Reported(s))
  BY <1>1, QueuedStays
<1>3. cur[b] \in Nat /\ StepsOf[b] \in Nat /\ cur[b] <= StepsOf[b]
  BY StepIs DEF StepsTyped
<1>4. CASE EndLoop(b)
  <2>1. /\ epc' = [epc EXCEPT ![b] = "over"] /\ UNCHANGED <<step_status, cur, seen>>
    BY <1>4 DEF EndLoop, Step
  <2>2. epc'[b] = "over" /\ \A c \in Builds : c # b => epc'[c] = epc[c]
    BY <2>1 DEF StepsTyped
  <2>3. StepsTyped' /\ Cursor' /\ OneCopy'
    BY <1>1, <1>2, <2>1, <2>2 DEF StepsTyped, Cursor, OneCopy, atAgent, Places
  <2>4. NotYet' /\ Before' /\ LeftFailed' /\ Verdict'
    BY <1>1, <1>2, <2>1, <2>2, StepIs DEF NotYet, Before, LeftFailed, Verdict, atAgent
  <2>5. MailIsTrue' /\ FramesAreTrue' /\ RowsAreTrue'
    BY <1>1, <1>2, <2>1, <2>2 DEF MailIsTrue, FramesAreTrue, RowsAreTrue, atAgent, At, Reported
  <2>. QED BY <2>3, <2>4, <2>5
<1>5. CASE BeginStep(b) /\ cur[b] # StepsOf[b]
  <2>. DEFINE n == cur[b] + 1
              t == <<b, n>>
  <2>1. n \in 1 .. StepsOf[b] /\ n > 0 /\ n \in Nat /\ n > cur[b]
    BY <1>3, <1>5
  <2>2. t \in Steps /\ t[1] = b /\ t[2] = n
    BY <2>1, StepIs
  <2>3. /\ step_status' = [step_status EXCEPT ![t] = "running"]
        /\ seen' = [seen EXCEPT ![t] = "running"]
        /\ cur' = [cur EXCEPT ![b] = n] /\ epc' = [epc EXCEPT ![b] = "send"]
    BY <1>5 DEF BeginStep, Step
  <2>. HIDE DEF n, t
  <2>4. /\ epc'[b] = "send" /\ \A c \in Builds : c # b => epc'[c] = epc[c]
        /\ cur'[b] = n /\ \A c \in Builds : c # b => cur'[c] = cur[c]
        /\ seen'[t] = "running" /\ step_status'[t] = "running"
        /\ \A s \in Steps : s # t => seen'[s] = seen[s] /\ step_status'[s] = step_status[s]
    BY <2>2, <2>3 DEF StepsTyped
  <2>5. StepsTyped'
    <3>1. \A c \in Builds : cur'[c] <= StepsOf[c]
      <4>1. n <= StepsOf[b]
        BY <1>3, <2>1
      <4>. QED BY <2>4, <4>1 DEF StepsTyped
    <3>2. cur' \in [Builds -> Nat] /\ epc' \in [Builds -> Places]
          /\ step_status' \in [Steps -> StepStatus] /\ seen' \in [Steps -> StepStatus]
      BY <2>1, <2>3 DEF StepsTyped, Places, StepStatus
    <3>. QED BY <1>1, <3>1, <3>2 DEF StepsTyped, atAgent
  <2>6. Cursor' /\ OneCopy'
    BY <1>1, <1>2, <2>1, <2>4 DEF Cursor, OneCopy, atAgent
  <2>7. \A s \in Steps : s[1] \in Builds /\ s[2] \in Nat /\ cur[s[1]] \in Nat
    BY StepIs DEF StepsTyped
  <2>8. NotYet'
    <3>. SUFFICES ASSUME NEW s \in Steps,
                         s[2] > cur'[s[1]] \/ (s[2] = cur'[s[1]] /\ epc'[s[1]] = "send")
                  PROVE  apc[s] = "none" /\ ~Queued(s)
      BY <1>1, <1>2 DEF NotYet, atAgent
    <3>1. s[2] > cur[s[1]] \/ (s[2] = cur[s[1]] /\ epc[s[1]] = "send")
      BY <1>3, <2>1, <2>4, <2>7
    <3>. QED BY <3>1 DEF NotYet
  <2>9. Before'
    <3>. SUFFICES ASSUME NEW s \in Steps,
                         s[2] < cur'[s[1]] \/ (s[2] = cur'[s[1]] /\ epc'[s[1]] = "next")
                  PROVE  Reported(s)
      BY <1>2 DEF Before
    <3>1. s[2] < cur[s[1]] \/ (s[2] = cur[s[1]] /\ epc[s[1]] = "next")
      <4>1. CASE s[1] = b
        <5>1. s[2] < cur[b] + 1
          BY <2>4, <4>1 DEF n
        <5>. QED BY <1>1, <1>3, <2>7, <4>1, <5>1
      <4>2. CASE s[1] # b
        BY <2>4, <2>7, <4>2
      <4>. QED BY <4>1, <4>2
    <3>. QED BY <3>1 DEF Before
  <2>10. MailIsTrue' /\ FramesAreTrue' /\ RowsAreTrue'
    BY <1>1, <1>2, <2>4 DEF MailIsTrue, FramesAreTrue, RowsAreTrue, atAgent, At, Reported
  <2>11. LeftFailed' /\ Verdict'
    BY <1>1, <1>2, <2>2, <2>4, <2>7 DEF LeftFailed, Verdict
  <2>. QED BY <2>5, <2>6, <2>8, <2>9, <2>10, <2>11
<1>. QED BY <1>4, <1>5 DEF NextStep, EndLoop, Step

(* The executor's step fails, and it leaves its loop.                       *)
LEMMA FailsKeep ==
  ASSUME StepsInv, NEW b \in Builds, epc[b] \in {"send", "wait"}, Fails(b),
         mail' \in [Builds -> BOOLEAN],
         \A c \in Builds : c # b => mail'[c] = mail[c],
         UNCHANGED <<build_status, cur, tasks, atAgent>>
  PROVE  StepsInv'
<1>. USE DEF StepsInv
<1>1. /\ At(b) \in Steps /\ At(b)[1] = b /\ At(b)[2] = cur[b]
      /\ step_status' = [step_status EXCEPT ![At(b)] = "failed"]
      /\ seen' = [seen EXCEPT ![At(b)] = "failed"]
      /\ epc' = [epc EXCEPT ![b] = "over"]
  BY AtIsStep DEF Fails, Step
<1>2. \A s \in Steps : (Queued(s)' <=> Queued(s)) /\ (Reported(s)' <=> Reported(s))
  BY QueuedStays
<1>3. /\ epc'[b] = "over" /\ \A c \in Builds : c # b => epc'[c] = epc[c]
      /\ seen'[At(b)] = "failed" /\ step_status'[At(b)] = "failed"
      /\ \A s \in Steps : s # At(b) => seen'[s] = seen[s] /\ step_status'[s] = step_status[s]
  BY <1>1 DEF StepsTyped
<1>4. StepsTyped' /\ Cursor' /\ OneCopy'
  <2>1. /\ epc' \in [Builds -> Places]
        /\ step_status' \in [Steps -> StepStatus] /\ seen' \in [Steps -> StepStatus]
    BY <1>1 DEF StepsTyped, Places, StepStatus, Ended
  <2>2. StepsTyped'
    BY <2>1 DEF StepsTyped, atAgent
  <2>3. Cursor' /\ OneCopy'
    BY <1>2, <1>3 DEF Cursor, OneCopy, atAgent
  <2>. QED BY <2>2, <2>3
<1>5. NotYet' /\ Before'
  BY <1>2, <1>3, StepIs DEF NotYet, Before, atAgent
<1>6. MailIsTrue' /\ FramesAreTrue' /\ RowsAreTrue'
  BY <1>2, <1>3 DEF MailIsTrue, FramesAreTrue, RowsAreTrue, atAgent, At, Reported
<1>7. LeftFailed' /\ Verdict'
  <2>1. \A s \in Steps : s[1] = b /\ s[2] = cur[b] => s = At(b)
    BY StepIs DEF At
  <2>. QED BY <1>1, <1>2, <1>3, <2>1, StepIs DEF LeftFailed, Verdict
<1>. QED BY <1>4, <1>5, <1>6, <1>7

LEMMA SendKeeps ==
  ASSUME StepsInv, NEW b \in Builds, Send(b)
  PROVE  StepsInv'
<1>. USE DEF StepsInv
<1>1. epc[b] = "send" /\ UNCHANGED <<build_status, cur, atAgent>>
  BY DEF Send, sockets, agent, atAgent
<1>2. CASE Fails(b) /\ UNCHANGED <<tasks, mail>>
  <2>1. mail' \in [Builds -> BOOLEAN]
    BY <1>2 DEF StepsTyped
  <2>. QED BY <1>1, <1>2, <2>1, FailsKeep
<1>3. CASE /\ Push(RunStep(At(b))) /\ mail' = [mail EXCEPT ![b] = FALSE]
           /\ Step(b, "wait") /\ UNCHANGED <<step_status, seen>>
  <2>. DEFINE t == At(b)
  <2>1. /\ t \in Steps /\ t[1] = b /\ t[2] = cur[b] /\ apc[t] = "none" /\ ~Queued(t)
    BY <1>1, AtIsStep DEF NotYet
  <2>2. /\ tasks' = Append(tasks, RunStep(t)) /\ RunStep(t) \in Tasks
        /\ epc' = [epc EXCEPT ![b] = "wait"]
    BY <1>3, <2>1, Messages DEF Push, Step
  <2>3. \A s \in Steps : s[1] = b /\ s[2] = cur[b] => s = t
    BY StepIs DEF At
  <2>. HIDE DEF t
  <2>4. /\ tasks' \in Seq(Tasks)
        /\ \A x : Has(tasks', x) <=> Has(tasks, x) \/ x = RunStep(t)
        /\ \A x : Once(tasks, x) /\ (x = RunStep(t) => ~Has(tasks, x)) => Once(tasks', x)
    BY <2>2, AppendHas DEF StepsTyped
  <2>5. /\ epc'[b] = "wait" /\ \A c \in Builds : c # b => epc'[c] = epc[c]
        /\ mail'[b] = FALSE /\ \A c \in Builds : c # b => mail'[c] = mail[c]
        /\ mail' \in [Builds -> BOOLEAN] /\ epc' \in [Builds -> Places]
    BY <1>3, <2>2 DEF StepsTyped, Places
  <2>6. /\ \A s \in Steps : Reported(s)' <=> Reported(s)
        /\ \A s \in Steps : Queued(s)' <=> Queued(s) \/ s = t
    BY <1>1, <2>4, Messages DEF Reported, Queued, atAgent
  <2>7. StepsTyped'
    BY <1>1, <1>3, <2>4, <2>5 DEF StepsTyped, atAgent
  <2>8. Cursor'
    BY <1>1, <2>5 DEF Cursor
  <2>9. OneCopy'
    <3>. SUFFICES ASSUME NEW s \in Steps
                  PROVE  /\ Once(tasks', RunStep(s)) /\ Once(down', RunStep(s))
                         /\ ~(Has(tasks', RunStep(s)) /\ Has(down', RunStep(s)))
                         /\ Queued(s)' => apc'[s] = "none"
      BY DEF OneCopy
    <3>1. /\ Once(tasks, RunStep(s)) /\ Once(down, RunStep(s))
          /\ ~(Has(tasks, RunStep(s)) /\ Has(down, RunStep(s)))
          /\ Queued(s) => apc[s] = "none"
      BY DEF OneCopy
    <3>2. RunStep(s) = RunStep(t) <=> s = t
      BY Messages
    <3>. QED BY <1>1, <2>1, <2>4, <2>6, <3>1, <3>2 DEF Queued, atAgent
  <2>10. NotYet' /\ Before'
    <3>1. \A s \in Steps : s[2] \in Nat /\ cur[s[1]] \in Nat
      BY StepIs DEF StepsTyped
    <3>. QED BY <1>1, <2>1, <2>3, <2>5, <2>6, <3>1, StepIs DEF NotYet, Before, atAgent
  <2>11. MailIsTrue' /\ FramesAreTrue' /\ RowsAreTrue'
    BY <1>1, <1>3, <2>5, <2>6 DEF MailIsTrue, FramesAreTrue, RowsAreTrue, atAgent, At, Reported
  <2>12. LeftFailed' /\ Verdict'
    BY <1>1, <1>3, <2>5, <2>6, StepIs DEF LeftFailed, Verdict
  <2>. QED BY <2>7, <2>8, <2>9, <2>10, <2>11, <2>12
<1>. QED BY <1>2, <1>3 DEF Send

LEMMA TimeOutKeeps ==
  ASSUME StepsInv, NEW b \in Builds, TimeOut(b)
  PROVE  StepsInv'
<1>1. /\ epc[b] = "wait" /\ Fails(b) /\ mail' = [mail EXCEPT ![b] = FALSE]
      /\ UNCHANGED <<build_status, cur, tasks, atAgent>>
  BY DEF TimeOut, Unsubscribe, sockets, agent, atAgent
<1>2. mail' \in [Builds -> BOOLEAN] /\ \A c \in Builds : c # b => mail'[c] = mail[c]
  BY <1>1 DEF StepsInv, StepsTyped
<1>. QED BY <1>1, <1>2, FailsKeep

LEMMA WakeKeeps ==
  ASSUME StepsInv, NEW b \in Builds, Wake(b)
  PROVE  StepsInv'
<1>. USE DEF StepsInv
<1>. DEFINE t == At(b)
            place == IF step_status[t] = "failed" THEN "over" ELSE "next"
<1>1. /\ epc[b] = "wait" /\ mail[b] /\ mail' = [mail EXCEPT ![b] = FALSE]
      /\ seen' = [seen EXCEPT ![t] = step_status[t]]
      /\ epc' = [epc EXCEPT ![b] = place]
      /\ UNCHANGED <<build_status, step_status, cur, tasks, atAgent>>
  BY DEF Wake, Step, rows, sockets, agent, atAgent
<1>2. t \in Steps /\ t[1] = b /\ t[2] = cur[b] /\ Reported(t)
  BY <1>1, AtIsStep DEF MailIsTrue
<1>3. \A s \in Steps : s[1] = b /\ s[2] = cur[b] => s = t
  BY StepIs DEF At
<1>4. place \in {"over", "next"}
  OBVIOUS
<1>. HIDE DEF t, place
<1>5. \A s \in Steps : (Queued(s)' <=> Queued(s)) /\ (Reported(s)' <=> Reported(s))
  BY <1>1, QueuedStays
<1>6. /\ epc'[b] = place /\ \A c \in Builds : c # b => epc'[c] = epc[c]
      /\ mail'[b] = FALSE /\ \A c \in Builds : c # b => mail'[c] = mail[c]
      /\ seen'[t] = step_status[t] /\ \A s \in Steps : s # t => seen'[s] = seen[s]
  BY <1>1, <1>2 DEF StepsTyped
<1>7. StepsTyped'
  <2>1. /\ seen' \in [Steps -> StepStatus] /\ epc' \in [Builds -> Places]
        /\ mail' \in [Builds -> BOOLEAN]
    BY <1>1, <1>2, <1>4 DEF StepsTyped, Places
  <2>. QED BY <1>1, <2>1 DEF StepsTyped, atAgent
<1>8. Cursor' /\ OneCopy'
  BY <1>1, <1>4, <1>5, <1>6 DEF Cursor, OneCopy, atAgent
<1>9. NotYet' /\ Before'
  BY <1>1, <1>2, <1>3, <1>4, <1>5, <1>6, StepIs DEF NotYet, Before, atAgent
<1>10. MailIsTrue' /\ FramesAreTrue' /\ RowsAreTrue'
  BY <1>1, <1>2, <1>5, <1>6 DEF MailIsTrue, FramesAreTrue, RowsAreTrue, atAgent, At, Reported
<1>11. LeftFailed' /\ Verdict'
  BY <1>1, <1>2, <1>3, <1>4, <1>5, <1>6, StepIs DEF LeftFailed, Verdict
<1>. QED BY <1>7, <1>8, <1>9, <1>10, <1>11

(* The agent is told that a build is over: no step of a queue is touched.   *)
LEMMA BuildFinishedPushed ==
  ASSUME StepsInv, NEW b \in Builds,
         Push(BuildFinished(b)) \/ UNCHANGED tasks, UNCHANGED atAgent
  PROVE  /\ tasks' \in Seq(Tasks) /\ OneCopy'
         /\ \A s \in Steps : (Queued(s)' <=> Queued(s)) /\ (Reported(s)' <=> Reported(s))
<1>1. CASE UNCHANGED tasks
  BY <1>1, QueuedStays DEF StepsInv, StepsTyped, OneCopy, atAgent
<1>2. CASE tasks' = Append(tasks, BuildFinished(b))
  <2>1. BuildFinished(b) \in Tasks /\ tasks \in Seq(Tasks)
    BY Messages DEF StepsInv, StepsTyped
  <2>2. /\ tasks' \in Seq(Tasks)
        /\ \A x : Has(tasks', x) <=> Has(tasks, x) \/ x = BuildFinished(b)
        /\ \A x : Once(tasks, x) /\ (x = BuildFinished(b) => ~Has(tasks, x)) => Once(tasks', x)
    BY <1>2, <2>1, AppendHas
  <2>3. \A s \in Steps : RunStep(s) # BuildFinished(b)
    BY Messages
  <2>4. \A s \in Steps : (Queued(s)' <=> Queued(s)) /\ (Reported(s)' <=> Reported(s))
    BY <2>2, <2>3 DEF Queued, Reported, atAgent
  <2>5. OneCopy'
    BY <2>2, <2>3, <2>4 DEF StepsInv, OneCopy, atAgent
  <2>. QED BY <2>2, <2>4, <2>5
<1>. QED BY <1>1, <1>2 DEF Push

LEMMA ConcludeKeeps ==
  ASSUME StepsInv, NEW b \in Builds, Conclude(b)
  PROVE  StepsInv'
<1>. USE DEF StepsInv
<1>. DEFINE cancelled == build_status[b] = "cancelled"
            mine == {s \in Steps : s[1] = b}
            left == {s \in mine : cancelled /\ seen[s] \in {"pending", "running"}}
            final == IF cancelled THEN "cancelled"
                     ELSE IF \E s \in mine : seen[s] = "failed" THEN "failed"
                     ELSE "success"
<1>1. /\ epc[b] = "over" /\ epc' = [epc EXCEPT ![b] = "cleanup"]
      /\ build_status' = [build_status EXCEPT ![b] = final]
      /\ step_status' = [s \in Steps |-> IF s \in left THEN "cancelled" ELSE step_status[s]]
      /\ seen' = [s \in Steps |-> IF s \in left THEN "cancelled" ELSE seen[s]]
      /\ Push(BuildFinished(b)) \/ UNCHANGED tasks
      /\ UNCHANGED <<cur, mail, atAgent>>
  BY DEF Conclude, Step, sockets, agent, atAgent
<1>2. /\ tasks' \in Seq(Tasks) /\ OneCopy'
      /\ \A s \in Steps : (Queued(s)' <=> Queued(s)) /\ (Reported(s)' <=> Reported(s))
  BY <1>1, BuildFinishedPushed
<1>3. /\ epc'[b] = "cleanup" /\ \A c \in Builds : c # b => epc'[c] = epc[c]
      /\ \A s \in Steps : seen'[s] = "failed" <=> seen[s] = "failed"
      /\ \A s \in Steps : step_status'[s] = "success" => step_status[s] = "success"
      /\ \A s \in Steps : seen'[s] = "success" => seen[s] = "success"
  BY <1>1 DEF StepsTyped
<1>4. /\ final \in {"cancelled", "failed", "success"}
      /\ (\E s \in mine : seen[s] = "failed") => final # "success"
  OBVIOUS
<1>5. StepsTyped'
  <2>1. step_status' \in [Steps -> StepStatus] /\ seen' \in [Steps -> StepStatus]
    BY <1>1 DEF StepsTyped, StepStatus, Ended
  <2>. HIDE DEF final
  <2>2. build_status' \in [Builds -> StepStatus] /\ epc' \in [Builds -> Places]
    <3>1. final \in StepStatus
      BY <1>4 DEF StepStatus, Ended
    <3>2. build_status' \in [Builds -> StepStatus]
      BY <1>1, <3>1 DEF StepsTyped
    <3>3. epc' \in [Builds -> Places]
      BY <1>1 DEF StepsTyped, Places
    <3>. QED BY <3>2, <3>3
  <2>. QED BY <1>1, <1>2, <2>1, <2>2 DEF StepsTyped, atAgent
<1>6. \A c \in Builds : c # b => build_status'[c] = build_status[c]
  BY <1>1
<1>7. build_status'[b] = final
  BY <1>1 DEF StepsTyped
<1>. HIDE DEF final
<1>8. Cursor' /\ NotYet' /\ Before'
  BY <1>1, <1>2, <1>3, StepIs DEF Cursor, NotYet, Before, atAgent
<1>9. MailIsTrue' /\ FramesAreTrue' /\ RowsAreTrue'
  BY <1>1, <1>2, <1>3 DEF MailIsTrue, FramesAreTrue, RowsAreTrue, atAgent, At, Reported
<1>10. LeftFailed'
  BY <1>1, <1>2, <1>3, StepIs DEF LeftFailed
<1>11. Verdict'
  BY <1>3, <1>4, <1>6, <1>7, StepIs DEF Verdict
<1>. QED BY <1>2, <1>5, <1>8, <1>9, <1>10, <1>11

LEMMA CleanupKeeps ==
  ASSUME StepsInv, NEW b \in Builds, Cleanup(b)
  PROVE  StepsInv'
<1>. USE DEF StepsInv
<1>1. /\ epc[b] = "cleanup" /\ epc' = [epc EXCEPT ![b] = "done"]
      /\ Push(BuildFinished(b))
      /\ UNCHANGED <<build_status, step_status, seen, cur, mail, atAgent>>
  BY DEF Cleanup, Step, rows, sockets, agent, atAgent
<1>2. /\ tasks' \in Seq(Tasks) /\ OneCopy'
      /\ \A s \in Steps : (Queued(s)' <=> Queued(s)) /\ (Reported(s)' <=> Reported(s))
  BY <1>1, BuildFinishedPushed
<1>3. epc'[b] = "done" /\ \A c \in Builds : c # b => epc'[c] = epc[c]
  BY <1>1 DEF StepsTyped
<1>4. StepsTyped' /\ Cursor'
  BY <1>1, <1>2, <1>3 DEF StepsTyped, Cursor, atAgent, Places
<1>5. NotYet' /\ Before' /\ LeftFailed' /\ Verdict'
  BY <1>1, <1>2, <1>3, StepIs DEF NotYet, Before, LeftFailed, Verdict, atAgent
<1>6. MailIsTrue' /\ FramesAreTrue' /\ RowsAreTrue'
  BY <1>1, <1>2, <1>3 DEF MailIsTrue, FramesAreTrue, RowsAreTrue, atAgent, At, Reported
<1>. QED BY <1>2, <1>4, <1>5, <1>6

LEMMA CancelCommitsKeeps ==
  ASSUME StepsInv, NEW b \in Builds, CancelCommits(b)
  PROVE  StepsInv'
<1>. USE DEF StepsInv
<1>1. /\ build_status' = [build_status EXCEPT ![b] = "cancelled"]
      /\ UNCHANGED <<step_status, seen, epc, cur, mail, tasks, atAgent>>
  BY DEF CancelCommits, executor, sockets, agent, atAgent
<1>2. \A s \in Steps : (Queued(s)' <=> Queued(s)) /\ (Reported(s)' <=> Reported(s))
  BY <1>1, QueuedStays
<1>3. \A c \in Builds : build_status'[c] = "success" => build_status[c] = "success"
  BY <1>1 DEF StepsTyped
<1>4. StepsTyped' /\ Cursor' /\ OneCopy'
  BY <1>1, <1>2 DEF StepsTyped, Cursor, OneCopy, atAgent, StepStatus, Ended
<1>5. NotYet' /\ Before' /\ LeftFailed' /\ Verdict'
  BY <1>1, <1>2, <1>3, StepIs DEF NotYet, Before, LeftFailed, Verdict, atAgent
<1>6. MailIsTrue' /\ FramesAreTrue' /\ RowsAreTrue'
  BY <1>1, <1>2 DEF MailIsTrue, FramesAreTrue, RowsAreTrue, atAgent, At, Reported
<1>. QED BY <1>4, <1>5, <1>6

-----------------------------------------------------------------------------
(* The control sockets                                                      *)

LEMMA ForwardKeeps ==
  ASSUME StepsInv, NEW c \in Conns, Forward(c)
  PROVE  StepsInv'
<1>. USE DEF StepsInv
<1>1. /\ tasks \in Seq(Tasks) /\ tasks # <<>> /\ tasks' = Tail(tasks)
      /\ down \in Seq(Tasks) /\ (down' = Append(down, Head(tasks)) \/ down' = down)
      /\ UNCHANGED <<build_status, step_status, epc, cur, seen, mail, apc, res, up, conn,
                     opened>>
  BY DEF StepsTyped, Forward, rows, executor, agent
<1>2. /\ Tail(tasks) \in Seq(Tasks) /\ Head(tasks) \in Tasks /\ Has(tasks, Head(tasks))
      /\ \A x : Has(Tail(tasks), x) => Has(tasks, x)
      /\ \A x : Once(tasks, x) => Once(Tail(tasks), x)
      /\ Once(tasks, Head(tasks)) => ~Has(Tail(tasks), Head(tasks))
  BY <1>1, TailHas
<1>3. /\ down' \in Seq(Tasks)
      /\ \A x : Has(down', x) => Has(down, x) \/ x = Head(tasks)
      /\ \A x : Once(down, x) /\ (x = Head(tasks) => ~Has(down, x)) => Once(down', x)
  <2>1. /\ Append(down, Head(tasks)) \in Seq(Tasks)
        /\ \A x : Has(Append(down, Head(tasks)), x) <=> Has(down, x) \/ x = Head(tasks)
        /\ \A x : Once(down, x) /\ (x = Head(tasks) => ~Has(down, x))
                    => Once(Append(down, Head(tasks)), x)
    BY <1>1, <1>2, AppendHas
  <2>. QED BY <1>1, <2>1
<1>4. StepsTyped'
  BY <1>1, <1>2, <1>3 DEF StepsTyped
<1>5. \A s \in Steps : Queued(s)' => Queued(s)
  BY <1>1, <1>2, <1>3 DEF Queued
<1>6. OneCopy'
  <2>. SUFFICES ASSUME NEW s \in Steps
                PROVE  /\ Once(tasks', RunStep(s)) /\ Once(down', RunStep(s))
                       /\ ~(Has(tasks', RunStep(s)) /\ Has(down', RunStep(s)))
                       /\ Queued(s)' => apc'[s] = "none"
    BY DEF OneCopy
  <2>1. /\ Once(tasks, RunStep(s)) /\ Once(down, RunStep(s))
        /\ ~(Has(tasks, RunStep(s)) /\ Has(down, RunStep(s)))
        /\ Queued(s) => apc[s] = "none"
    BY DEF OneCopy
  <2>2. CASE RunStep(s) = Head(tasks)
    BY <1>1, <1>2, <1>3, <1>5, <2>1, <2>2
  <2>3. CASE RunStep(s) # Head(tasks)
    BY <1>1, <1>2, <1>3, <1>5, <2>1, <2>3
  <2>. QED BY <2>2, <2>3
<1>. QED BY <1>1, <1>4, <1>5, <1>6, OthersKeep

(* A frame is taken off a socket: there are fewer of them.                  *)
LEMMA FrameTaken ==
  ASSUME StepsInv, NEW c \in Conns, up[c] # <<>>, up' = [up EXCEPT ![c] = Tail(@)]
  PROVE  /\ up' \in [Conns -> Seq(Frames)] /\ Head(up[c]) \in Frames
         /\ Has(up[c], Head(up[c]))
         /\ \A d \in Conns : \A x : Has(up'[d], x) => Has(up[d], x)
<1>1. up[c] \in Seq(Frames) /\ up \in [Conns -> Seq(Frames)]
  BY DEF StepsInv, StepsTyped
<1>2. /\ Tail(up[c]) \in Seq(Frames) /\ Head(up[c]) \in Frames /\ Has(up[c], Head(up[c]))
      /\ \A x : Has(Tail(up[c]), x) => Has(up[c], x)
  BY <1>1, TailHas
<1>3. up'[c] = Tail(up[c]) /\ \A d \in Conns : d # c => up'[d] = up[d]
  BY <1>1
<1>4. up' \in [Conns -> Seq(Frames)]
  BY <1>1, <1>2
<1>. QED BY <1>2, <1>3, <1>4

(* The row of a step is written from a frame: with "running", or with what  *)
(* it ended with once it was reported.                                      *)
LEMMA RowWritten ==
  ASSUME StepsInv, NEW c \in Conns, up[c] # <<>>, up' = [up EXCEPT ![c] = Tail(@)],
         NEW s \in Steps, NEW v \in StepStatus,
         step_status' = [step_status EXCEPT ![s] = v],
         v = "success" => Reported(s) /\ res[s] = "success",
         mail' \in [Builds -> BOOLEAN],
         \A b \in Builds : mail'[b] /\ epc[b] = "wait" => mail[b] \/ (At(b) = s /\ Reported(s)),
         UNCHANGED <<build_status, epc, cur, seen, tasks, down, conn, opened, apc, res>>
  PROVE  StepsInv'
<1>. USE DEF StepsInv
<1>1. /\ up' \in [Conns -> Seq(Frames)]
      /\ \A d \in Conns : \A x : Has(up'[d], x) => Has(up[d], x)
  BY FrameTaken
<1>2. \A t \in Steps : (Queued(t)' <=> Queued(t)) /\ (Reported(t)' <=> Reported(t))
  BY DEF Queued, Reported
<1>3. step_status'[s] = v /\ \A t \in Steps : t # s => step_status'[t] = step_status[t]
  BY DEF StepsTyped
<1>4. StepsTyped' /\ Cursor' /\ OneCopy'
  BY <1>1, <1>2 DEF StepsTyped, Cursor, OneCopy
<1>5. NotYet' /\ Before' /\ LeftFailed' /\ Verdict'
  BY <1>2 DEF NotYet, Before, LeftFailed, Verdict
<1>6. MailIsTrue'
  BY DEF MailIsTrue, At, Reported
<1>7. FramesAreTrue' /\ RowsAreTrue'
  BY <1>1, <1>2, <1>3 DEF FramesAreTrue, RowsAreTrue
<1>. QED BY <1>4, <1>5, <1>6, <1>7

LEMMA SocketKeeps ==
  ASSUME StepsInv, NEW c \in Conns, Socket(c)
  PROVE  StepsInv'
<1>. USE DEF StepsInv
<1>1. CASE Started(c)
  <2>. DEFINE s == Head(up[c]).step
  <2>1. /\ up[c] # <<>> /\ up' = [up EXCEPT ![c] = Tail(@)]
        /\ Head(up[c]).type = "step_started"
        /\ step_status' = [step_status EXCEPT ![s] = "running"]
        /\ UNCHANGED <<build_status, epc, cur, seen, mail, tasks, down, conn, opened, apc, res>>
    BY <1>1 DEF Started, executor, agent
  <2>2. s \in Steps
    BY <2>1, FrameTaken, Messages
  <2>3. mail' \in [Builds -> BOOLEAN] /\ "running" \in StepStatus
    BY <2>1 DEF StepsTyped, StepStatus
  <2>. HIDE DEF s
  <2>. QED BY <2>1, <2>2, <2>3, RowWritten
<1>2. CASE Finished(c)
  <2>. DEFINE s == Head(up[c]).step
  <2>1. /\ up[c] # <<>> /\ up' = [up EXCEPT ![c] = Tail(@)]
        /\ Head(up[c]).type = "step_finished"
        /\ step_status' = [step_status EXCEPT ![s] = res[s]]
        /\ mail' = [mail EXCEPT ![s[1]] = @ \/ (epc[s[1]] = "wait" /\ At(s[1]) = s)]
        /\ UNCHANGED <<build_status, epc, cur, seen, tasks, down, conn, opened, apc, res>>
    BY <1>2 DEF Finished, FinishedAs, agent
  <2>2. /\ Head(up[c]) \in Frames /\ Has(up[c], Head(up[c]))
    BY <2>1, FrameTaken
  <2>3. s \in Steps /\ s[1] \in Builds /\ Reported(s)
    BY <2>1, <2>2, Messages, StepIs DEF FramesAreTrue
  <2>4. res[s] \in StepStatus
    BY <2>3 DEF StepsTyped, StepStatus
  <2>. HIDE DEF s
  <2>5. /\ mail' \in [Builds -> BOOLEAN]
        /\ \A b \in Builds : mail'[b] /\ epc[b] = "wait" => mail[b] \/ (At(b) = s /\ Reported(s))
    BY <2>1, <2>3 DEF StepsTyped
  <2>. QED BY <2>1, <2>3, <2>4, <2>5, RowWritten
<1>3. CASE TearDown(c)
  <2>1. /\ up' = [up EXCEPT ![c] = <<>>]
        /\ UNCHANGED <<build_status, step_status, epc, cur, seen, mail, tasks, down, conn,
                       opened, apc, res>>
    BY <1>3 DEF TearDown, rows, executor, agent
  <2>2. /\ up' \in [Conns -> Seq(Frames)] /\ up'[c] = <<>>
        /\ \A d \in Conns : d # c => up'[d] = up[d]
    BY <2>1, EmptySeq DEF StepsTyped
  <2>3. StepsTyped' /\ OneCopy' /\ (\A s \in Steps : Queued(s)' => Queued(s))
    BY <2>1, <2>2 DEF StepsTyped, OneCopy, Queued
  <2>4. \A d \in Conns : \A s \in Steps :
          Has(up'[d], StepFinished(s)) => Has(up[d], StepFinished(s))
    BY <2>2 DEF Has
  <2>. QED BY <2>1, <2>3, <2>4, OthersKeep
<1>. QED BY <1>1, <1>2, <1>3, ForwardKeeps DEF Socket

(* Sockets come and go, and nothing here depends on it but what is lost.    *)
LEMMA LinkKeeps ==
  ASSUME StepsInv, Connect \/ LinkDies
  PROVE  StepsInv'
<1>. USE DEF StepsInv
<1>1. /\ UNCHANGED <<build_status, step_status, epc, cur, seen, mail, apc, res, tasks, up>>
      /\ down' \in {down, <<>>}
  BY DEF Connect, LinkDies, elsewhere, rows, presence, executor, agent
<1>2. StepsTyped'
  <2>1. conn' \in {NoConn} \cup Conns /\ opened' \in Nat
    <3>1. CASE Connect
      BY <3>1, StepConstants DEF Connect, StepsTyped, Conns
    <3>2. CASE LinkDies
      BY <3>2 DEF LinkDies, StepsTyped
    <3>. QED BY <3>1, <3>2
  <2>2. down' \in Seq(Tasks)
    BY <1>1, EmptySeq DEF StepsTyped
  <2>. QED BY <1>1, <2>1, <2>2 DEF StepsTyped
<1>3. OneCopy' /\ (\A s \in Steps : Queued(s)' => Queued(s))
  BY <1>1 DEF OneCopy, Queued, Has, Once
<1>. QED BY <1>1, <1>2, <1>3, OthersKeep

LEMMA StepsStep == StepsInv /\ [Next]_vars => StepsInv'
<1>. SUFFICES ASSUME StepsInv, [Next]_vars
              PROVE  StepsInv'
  OBVIOUS
<1>1. ASSUME UNCHANGED <<build_status, step_status, epc, cur, seen, mail, tasks, atAgent>>
      PROVE  StepsInv'
  <2>1. StepsTyped' /\ OneCopy' /\ (\A s \in Steps : Queued(s)' => Queued(s))
    BY <1>1 DEF StepsInv, StepsTyped, OneCopy, Queued, atAgent
  <2>. QED BY <1>1, <2>1, OthersKeep DEF atAgent
<1>2. CASE \/ UNCHANGED vars
           \/ \E b \in Builds : Notify(b) \/ NetFires(b)
           \/ \E s \in Steps : CancelStep(s)
  BY <1>1, <1>2 DEF vars, Notify, NetFires, CancelStep, elsewhere, link, sockets, rows,
                    presence, executor, agent, atAgent
<1>3. ASSUME NEW b \in Builds, Execute(b)
      PROVE  StepsInv'
  BY <1>3, NextStepKeeps, SendKeeps, WakeKeeps, TimeOutKeeps, ConcludeKeeps, CleanupKeeps
     DEF Execute
<1>. QED
  BY <1>2, <1>3, StartKeeps, CancelCommitsKeeps, SocketKeeps, RunStepsKeep, FrameKeeps,
     LinkKeeps
     DEF Next

LEMMA StepsInvariant == Spec => []StepsInv
BY StepsBegin, StepsStep, PTL DEF Spec

-----------------------------------------------------------------------------
(* The steps as BuildRun has them                                           *)

(* What fails in the executor's eyes makes it leave its loop.               *)
FailedIsLeft ==
  \A s \in Steps : seen[s] = "failed" => epc[s[1]] \in {"over", "cleanup", "done"}

LEMMA PlaceMoves ==
  ASSUME StepsTyped, NEW b \in Builds, NEW l, epc' = [epc EXCEPT ![b] = l]
  PROVE  /\ RunPlace[b] = PlaceOf(epc[b])
         /\ RunPlace' = [RunPlace EXCEPT ![b] = PlaceOf(l)]
BY DEF StepsTyped, RunPlace

LEMMA StateMoves ==
  ASSUME StepsTyped, NEW s \in Steps, NEW g, apc' = [apc EXCEPT ![s] = g]
  PROVE  /\ RunState[s] = StateOf(apc[s])
         /\ RunState' = [RunState EXCEPT ![s] = StateOf(g)]
BY DEF StepsTyped, RunState

LEMMA FailedStays ==
  ASSUME \A s \in Steps : seen'[s] = "failed" <=> seen[s] = "failed"
  PROVE  RunFailed' = RunFailed
BY DEF RunFailed

(* What the executor does is a step of its build's run, or none.            *)
LEMMA ExecutorRuns ==
  ASSUME StepsInv, FailedIsLeft, NEW b \in Builds, StartBuild(b) \/ Execute(b)
  PROVE  [Run!Next]_(Run!runVars) /\ FailedIsLeft'
<1>. USE DEF StepsInv, Run!Move
<1>0. StepsTyped /\ StepsTyped'
  <2>1. [Next]_vars
    BY DEF Next
  <2>. QED BY <2>1, StepsStep
<1>1. apc' = apc /\ RunState' = RunState
  BY DEF StartBuild, Execute, NextStep, loopRest, Send, Wake, TimeOut, Unsubscribe, Conclude,
         Cleanup, agent, RunState
<1>2. ASSUME Run!Start(b) \/ Run!Begin(b) \/ Run!GoOn(b) \/ Run!GiveUp(b) \/ Run!Leave(b)
             \/ Run!Cancel(b) \/ Run!Conclude(b)
      PROVE  Run!Next
  BY <1>2 DEF Run!Next
<1>3. CASE StartBuild(b)
  <2>1. /\ epc[b] = "idle" /\ epc' = [epc EXCEPT ![b] = "next"]
        /\ build_status' = [build_status EXCEPT ![b] = "running"]
        /\ UNCHANGED <<cur, seen>>
    BY <1>3 DEF StartBuild, Step
  <2>2. RunPlace[b] = "idle" /\ RunPlace' = [RunPlace EXCEPT ![b] = "between"]
    BY <1>0, <2>1, PlaceMoves DEF PlaceOf
  <2>3. RunFailed' = RunFailed
    BY <2>1, FailedStays
  <2>4. Run!Start(b)
    BY <1>1, <2>1, <2>2, <2>3 DEF Run!Start
  <2>5. FailedIsLeft'
    BY <1>0, <2>1 DEF FailedIsLeft, StepsTyped
  <2>. QED BY <1>2, <2>4, <2>5
<1>4. CASE NextStep(b)
  <2>1. epc[b] = "next" /\ UNCHANGED build_status
    BY <1>4 DEF NextStep, loopRest
  <2>2. CASE EndLoop(b) /\ (build_status[b] = "cancelled" \/ cur[b] = StepsOf[b])
    <3>1. epc' = [epc EXCEPT ![b] = "over"] /\ UNCHANGED <<cur, seen>>
      BY <2>2 DEF EndLoop, Step
    <3>2. RunPlace[b] = "between" /\ RunPlace' = [RunPlace EXCEPT ![b] = "left"]
      BY <1>0, <2>1, <3>1, PlaceMoves DEF PlaceOf
    <3>3. RunFailed' = RunFailed
      BY <3>1, FailedStays
    <3>4. Run!Leave(b)
      BY <1>1, <2>1, <2>2, <3>1, <3>2, <3>3 DEF Run!Leave
    <3>5. FailedIsLeft'
      BY <1>0, <3>1 DEF FailedIsLeft, StepsTyped
    <3>. QED BY <1>2, <3>4, <3>5
  <2>3. CASE BeginStep(b) /\ build_status[b] # "cancelled" /\ cur[b] # StepsOf[b]
    <3>. DEFINE t == <<b, cur[b] + 1>>
    <3>1. /\ seen' = [seen EXCEPT ![t] = "running"]
          /\ cur' = [cur EXCEPT ![b] = @ + 1]
          /\ epc' = [epc EXCEPT ![b] = "send"]
      BY <2>3 DEF BeginStep, Step
    <3>2. RunPlace[b] = "between" /\ RunPlace' = [RunPlace EXCEPT ![b] = "out"]
      BY <1>0, <2>1, <3>1, PlaceMoves DEF PlaceOf
    <3>3. t[1] = b /\ t = <<t[1], t[2]>>
      OBVIOUS
    <3>. HIDE DEF t
    <3>4. \A s \in Steps : seen'[s] = "failed" <=> seen[s] = "failed"
      <4>1. \A s \in Steps : s = t => seen[s] # "failed" /\ seen'[s] = "running"
        BY <1>0, <2>1, <3>1, <3>3 DEF FailedIsLeft, StepsTyped
      <4>2. \A s \in Steps : s # t => seen'[s] = seen[s]
        BY <1>0, <3>1 DEF StepsTyped
      <4>. QED BY <4>1, <4>2
    <3>5. RunFailed' = RunFailed
      BY <3>4, FailedStays
    <3>6. cur[b] < StepsOf[b]
      <4>1. cur[b] \in Nat /\ StepsOf[b] \in Nat /\ cur[b] <= StepsOf[b]
        BY <1>0, StepIs DEF StepsTyped
      <4>. QED BY <2>3, <4>1
    <3>7. Run!Begin(b)
      BY <1>1, <2>1, <2>3, <3>1, <3>2, <3>5, <3>6 DEF Run!Begin
    <3>8. FailedIsLeft'
      BY <1>0, <2>1, <3>1, <3>4 DEF FailedIsLeft, StepsTyped
    <3>. QED BY <1>2, <3>7, <3>8
  <2>. QED BY <1>4, <2>2, <2>3 DEF NextStep
<1>5. ASSUME epc[b] \in {"send", "wait"}, Fails(b), UNCHANGED <<build_status, cur>>
      PROVE  [Run!Next]_(Run!runVars) /\ FailedIsLeft'
  <2>1. /\ At(b) \in Steps /\ At(b)[1] = b
        /\ seen' = [seen EXCEPT ![At(b)] = "failed"]
        /\ epc' = [epc EXCEPT ![b] = "over"]
    BY <1>5, AtIsStep DEF Fails, Step
  <2>2. RunPlace[b] = "out" /\ RunPlace' = [RunPlace EXCEPT ![b] = "left"]
    BY <1>0, <1>5, <2>1, PlaceMoves DEF PlaceOf
  <2>3. /\ seen'[At(b)] = "failed"
        /\ \A s \in Steps : s # At(b) => seen'[s] = seen[s]
    BY <1>0, <2>1 DEF StepsTyped
  <2>4. RunFailed' = RunFailed \cup {b}
    BY <2>1, <2>3 DEF RunFailed
  <2>5. Run!GiveUp(b)
    BY <1>1, <1>5, <2>2, <2>4 DEF Run!GiveUp
  <2>6. FailedIsLeft'
    BY <1>0, <2>1, <2>3 DEF FailedIsLeft, StepsTyped
  <2>. QED BY <1>2, <2>5, <2>6
<1>6. CASE Send(b)
  <2>1. epc[b] = "send" /\ UNCHANGED <<build_status, cur>>
    BY <1>6 DEF Send
  <2>2. CASE Fails(b)
    BY <1>5, <2>1, <2>2
  <2>3. CASE Step(b, "wait") /\ UNCHANGED seen
    <3>1. epc' = [epc EXCEPT ![b] = "wait"]
      BY <2>3 DEF Step
    <3>2. RunPlace' = RunPlace
      <4>1. \A c \in Builds : PlaceOf(epc'[c]) = PlaceOf(epc[c])
        BY <1>0, <2>1, <3>1 DEF StepsTyped, PlaceOf
      <4>. QED BY <4>1 DEF RunPlace
    <3>3. RunFailed' = RunFailed
      BY <2>3, FailedStays
    <3>4. FailedIsLeft'
      BY <1>0, <2>1, <2>3, <3>1 DEF FailedIsLeft, StepsTyped
    <3>. QED BY <1>1, <2>1, <3>2, <3>3, <3>4 DEF Run!runVars
  <2>. QED BY <1>6, <2>2, <2>3 DEF Send
<1>7. CASE Wake(b)
  <2>. DEFINE t == At(b)
  <2>1. /\ epc[b] = "wait" /\ mail[b] /\ UNCHANGED <<build_status, cur>>
        /\ seen' = [seen EXCEPT ![t] = step_status[t]]
        /\ epc' = [epc EXCEPT ![b] = IF step_status[t] = "failed" THEN "over" ELSE "next"]
    BY <1>7 DEF Wake, Step, rows
  <2>2. t \in Steps /\ t[1] = b /\ t = <<b, cur[b]>> /\ Reported(t) /\ seen[t] # "failed"
    BY <2>1, AtIsStep DEF MailIsTrue, FailedIsLeft
  <2>. HIDE DEF t
  <2>3. /\ seen'[t] = step_status[t]
        /\ \A s \in Steps : s # t => seen'[s] = seen[s]
    BY <1>0, <2>1, <2>2 DEF StepsTyped
  <2>4. CASE step_status[t] = "failed"
    <3>1. epc' = [epc EXCEPT ![b] = "over"]
      BY <2>1, <2>4
    <3>2. RunPlace[b] = "out" /\ RunPlace' = [RunPlace EXCEPT ![b] = "left"]
      BY <1>0, <2>1, <3>1, PlaceMoves DEF PlaceOf
    <3>3. RunFailed' = RunFailed \cup {b}
      BY <2>2, <2>3, <2>4 DEF RunFailed
    <3>4. Run!GiveUp(b)
      BY <1>1, <2>1, <3>2, <3>3 DEF Run!GiveUp
    <3>5. FailedIsLeft'
      BY <1>0, <2>2, <2>3, <3>1 DEF FailedIsLeft, StepsTyped
    <3>. QED BY <1>2, <3>4, <3>5
  <2>5. CASE step_status[t] # "failed"
    <3>1. epc' = [epc EXCEPT ![b] = "next"]
      BY <2>1, <2>5
    <3>2. RunPlace[b] = "out" /\ RunPlace' = [RunPlace EXCEPT ![b] = "between"]
      BY <1>0, <2>1, <3>1, PlaceMoves DEF PlaceOf
    <3>3. \A s \in Steps : seen'[s] = "failed" <=> seen[s] = "failed"
      BY <2>2, <2>3, <2>5
    <3>4. RunFailed' = RunFailed
      BY <3>3, FailedStays
    <3>5. RunState[Run!Current(b)] = "done"
      BY <2>2 DEF Run!Current, RunState, StateOf, Reported
    <3>6. Run!GoOn(b)
      BY <1>1, <2>1, <3>2, <3>4, <3>5 DEF Run!GoOn
    <3>7. FailedIsLeft'
      BY <1>0, <2>1, <3>1, <3>3 DEF FailedIsLeft, StepsTyped
    <3>. QED BY <1>2, <3>6, <3>7
  <2>. QED BY <2>4, <2>5
<1>8. CASE TimeOut(b)
  BY <1>5, <1>8 DEF TimeOut, Unsubscribe
<1>9. CASE Conclude(b)
  <2>. DEFINE left == {s \in {r \in Steps : r[1] = b} :
                         build_status[b] = "cancelled" /\ seen[s] \in {"pending", "running"}}
              final == IF build_status[b] = "cancelled" THEN "cancelled"
                       ELSE IF \E s \in {r \in Steps : r[1] = b} : seen[s] = "failed"
                            THEN "failed" ELSE "success"
  <2>1. /\ epc[b] = "over" /\ epc' = [epc EXCEPT ![b] = "cleanup"] /\ UNCHANGED cur
        /\ build_status' = [build_status EXCEPT ![b] = final]
        /\ seen' = [s \in Steps |-> IF s \in left THEN "cancelled" ELSE seen[s]]
    BY <1>9 DEF Conclude, Step
  <2>2. \A s \in Steps : seen'[s] = "failed" <=> seen[s] = "failed"
    BY <2>1
  <2>3. final = IF build_status[b] = "cancelled" THEN "cancelled"
                ELSE IF b \in RunFailed THEN "failed" ELSE "success"
    BY DEF RunFailed
  <2>. HIDE DEF left, final
  <2>4. RunPlace[b] = "left" /\ RunPlace' = [RunPlace EXCEPT ![b] = "over"]
    <3>1. epc[b] = "over" /\ epc' = [epc EXCEPT ![b] = "cleanup"]
      BY <2>1
    <3>2. RunPlace[b] = PlaceOf("over") /\ RunPlace' = [RunPlace EXCEPT ![b] = PlaceOf("cleanup")]
      BY <1>0, <3>1, PlaceMoves
    <3>. QED BY <3>2 DEF PlaceOf
  <2>5. RunFailed' = RunFailed
    BY <2>2, FailedStays
  <2>6. Run!Conclude(b)
    BY <1>1, <2>1, <2>3, <2>4, <2>5 DEF Run!Conclude
  <2>7. FailedIsLeft'
    BY <1>0, <2>1, <2>2 DEF FailedIsLeft, StepsTyped
  <2>. QED BY <1>2, <2>6, <2>7
<1>10. CASE Cleanup(b)
  <2>1. /\ epc[b] = "cleanup" /\ epc' = [epc EXCEPT ![b] = "done"]
        /\ UNCHANGED <<build_status, cur, seen>>
    BY <1>10 DEF Cleanup, Step, rows
  <2>2. RunPlace' = RunPlace
    <3>1. \A c \in Builds : PlaceOf(epc'[c]) = PlaceOf(epc[c])
      BY <1>0, <2>1 DEF StepsTyped, PlaceOf
    <3>. QED BY <3>1 DEF RunPlace
  <2>3. RunFailed' = RunFailed
    BY <2>1, FailedStays
  <2>4. FailedIsLeft'
    BY <1>0, <2>1 DEF FailedIsLeft, StepsTyped
  <2>. QED BY <1>1, <2>1, <2>2, <2>3, <2>4 DEF Run!runVars
<1>. QED BY <1>3, <1>4, <1>6, <1>7, <1>8, <1>9, <1>10 DEF Execute

(* What the agent makes of its frames and steps takes a step up, ends it, or *)
(* is nothing a build's run is about.                                        *)
LEMMA AgentRuns ==
  ASSUME StepsInv, FailedIsLeft,
         (\E s \in Steps : RunSteps(s) \/ End(s)) \/ HandleRunStep
  PROVE  [Run!Next]_(Run!runVars) /\ FailedIsLeft'
<1>. USE DEF StepsInv, elsewhere, rows, executor
<1>1. /\ UNCHANGED <<build_status, epc, cur, seen>>
      /\ RunPlace' = RunPlace /\ RunFailed' = RunFailed
  BY DEF RunSteps, Begin, Acquire, GiveUp, Report, Untrack, UntrackIf, End, HandleRunStep,
         RunPlace, RunFailed
<1>2. FailedIsLeft'
  BY <1>1 DEF FailedIsLeft
<1>3. Run!Steps = Steps
  BY DEF Run!Steps, Steps
<1>4. ASSUME NEW s \in Steps, Report(s) PROVE Run!Done(s)
  <2>1. apc[s] = "ended" /\ apc' = [apc EXCEPT ![s] = "reported"]
    BY <1>4 DEF Report
  <2>2. RunState[s] = "working" /\ RunState' = [RunState EXCEPT ![s] = "done"]
    BY <2>1, StateMoves DEF StateOf
  <2>. QED BY <1>1, <2>2 DEF Run!Done, Run!Becomes
<1>5. ASSUME NEW s \in Steps, Begin(s) \/ Acquire(s) \/ GiveUp(s) \/ Untrack(s) \/ End(s)
      PROVE  RunState' = RunState
  <2>1. PICK g : apc' = [apc EXCEPT ![s] = g] /\ StateOf(g) = StateOf(apc[s])
    BY <1>5 DEF Begin, Acquire, GiveUp, Untrack, UntrackIf, End, StateOf
  <2>2. \A t \in Steps : StateOf(apc'[t]) = StateOf(apc[t])
    BY <2>1 DEF StepsTyped
  <2>. QED BY <2>2 DEF RunState
<1>6. ASSUME HandleRunStep PROVE \E s \in Steps : Run!Take(s)
  <2>. DEFINE s == Head(down).step
  <2>1. /\ down \in Seq(Tasks) /\ down # <<>> /\ Head(down).type = "run_step"
        /\ apc' = [apc EXCEPT ![s] = "spawned"]
    BY <1>6 DEF HandleRunStep, StepsTyped
  <2>2. Head(down) \in Tasks /\ Has(down, Head(down))
    BY <2>1, TailHas
  <2>3. s \in Steps /\ Has(down, RunStep(s))
    BY <2>1, <2>2, Messages
  <2>. HIDE DEF s
  <2>4. Queued(s) /\ apc[s] = "none"
    BY <2>3 DEF Queued, OneCopy
  <2>5. s[2] = cur[s[1]] /\ epc[s[1]] \notin {"send", "next", "idle"}
    <3>1. s[1] \in Builds /\ s[2] \in 1 .. StepsOf[s[1]] /\ StepsOf[s[1]] \in Nat
      BY <2>3, StepIs
    <3>2. s[2] \in Nat /\ s[2] > 0 /\ cur[s[1]] \in Nat
      BY <3>1 DEF StepsTyped
    <3>3. ~Reported(s)
      BY <2>4 DEF Reported
    <3>4. s[2] = cur[s[1]] /\ epc[s[1]] \notin {"send", "next"}
      BY <2>3, <2>4, <3>2, <3>3 DEF NotYet, Before
    <3>. QED BY <3>1, <3>2, <3>4 DEF Cursor
  <2>6. s = Run!Current(s[1])
    BY <2>3, <2>5, StepIs DEF Run!Current
  <2>7. RunPlace[s[1]] \notin {"idle", "between"}
    BY <2>3, <2>5, StepIs DEF RunPlace, PlaceOf
  <2>8. RunState[s] = "none" /\ RunState' = [RunState EXCEPT ![s] = "working"]
    <3>1. RunState[s] = StateOf(apc[s]) /\ RunState' = [RunState EXCEPT ![s] = StateOf("spawned")]
      BY <2>1, <2>3, StateMoves
    <3>. QED BY <2>4, <3>1 DEF StateOf
  <2>. QED BY <1>1, <2>3, <2>6, <2>7, <2>8 DEF Run!Take, Run!Becomes
<1>7. ASSUME RunState' = RunState PROVE UNCHANGED Run!runVars
  BY <1>1, <1>7 DEF Run!runVars
<1>. QED BY <1>2, <1>3, <1>4, <1>5, <1>6, <1>7 DEF RunSteps, Run!Next

LEMMA RunStart == Init => Run!Init /\ FailedIsLeft
<1>. SUFFICES ASSUME Init PROVE Run!Init /\ FailedIsLeft
  OBVIOUS
<1>1. RunPlace = [b \in Builds |-> "idle"] /\ RunState = [s \in Steps |-> "none"]
  BY DEF Init, RunPlace, RunState, PlaceOf, StateOf
<1>2. RunFailed = {} /\ FailedIsLeft
  BY DEF Init, RunFailed, FailedIsLeft
<1>3. Run!Steps = Steps
  BY DEF Run!Steps, Steps
<1>. QED BY <1>1, <1>2, <1>3 DEF Init, Run!Init

LEMMA RunStepped ==
  StepsInv /\ FailedIsLeft /\ [Next]_vars => [Run!Next]_(Run!runVars) /\ FailedIsLeft'
<1>. SUFFICES ASSUME StepsInv, FailedIsLeft, [Next]_vars
              PROVE  [Run!Next]_(Run!runVars) /\ FailedIsLeft'
  OBVIOUS
<1>1. ASSUME UNCHANGED <<build_status, epc, cur, seen, apc>>
      PROVE  [Run!Next]_(Run!runVars) /\ FailedIsLeft'
  BY <1>1 DEF Run!runVars, RunPlace, RunFailed, RunState, FailedIsLeft
<1>2. ASSUME NEW b \in Builds, CancelCommits(b)
      PROVE  [Run!Next]_(Run!runVars) /\ FailedIsLeft'
  <2>1. /\ build_status[b] = "running"
        /\ build_status' = [build_status EXCEPT ![b] = "cancelled"]
        /\ UNCHANGED <<epc, cur, seen, apc>>
    BY <1>2 DEF CancelCommits, executor, agent
  <2>2. UNCHANGED <<RunPlace, RunFailed, RunState>> /\ FailedIsLeft'
    BY <2>1 DEF RunPlace, RunFailed, RunState, FailedIsLeft
  <2>3. Run!Cancel(b)
    BY <2>1, <2>2 DEF Run!Cancel
  <2>. QED BY <2>2, <2>3 DEF Run!Next
<1>3. CASE UNCHANGED vars
  BY <1>1, <1>3 DEF vars
<1>4. CASE \/ \E b \in Builds : Notify(b) \/ NetFires(b)
           \/ \E c \in Conns : Socket(c)
           \/ \E s \in Steps : CancelStep(s)
           \/ FinishBuild \/ Connect \/ LinkDies
  BY <1>1, <1>4
     DEF Notify, NetFires, Socket, Forward, Started, Finished, FinishedAs, TearDown, CancelStep,
         FinishBuild, Connect, LinkDies, elsewhere, rows, executor, agent
<1>. QED BY <1>2, <1>3, <1>4, ExecutorRuns, AgentRuns DEF Next, Frame

(* A build's steps are carried out as BuildRun has it: in their order, each  *)
(* at most once, the next when the one before is done, whatever is lost,     *)
(* late, doubled or given up on.                                             *)
THEOREM StepsAlwaysInOrder == Spec => StepsInOrder
<1>. QED BY RunStart, RunStepped, StepsInvariant, PTL DEF Spec, StepsInOrder, Run!Spec

-----------------------------------------------------------------------------
(* What follows from that alone: a build that gave nothing up and was not    *)
(* cancelled leaves its loop when all its steps are done.                   *)
Whole(b) == \A s \in Steps : s[1] = b => RunState[s] = "done"
RunOf(b) ==
  /\ RunPlace[b] = "idle" => cur[b] = 0
  /\ \A s \in Steps :
       s[1] = b /\ (s[2] < cur[b] \/ (s[2] = cur[b] /\ RunPlace[b] = "between"))
         => RunState[s] = "done"
  /\ RunPlace[b] = "left" => b \in RunFailed \/ build_status[b] = "cancelled" \/ Whole(b)
  /\ build_status[b] = "success" => Whole(b)
RunInv == \A b \in Builds : RunOf(b)

(* Of a build nothing moves but what the agent makes of its steps, and what *)
(* was done stays so.                                                       *)
LEMMA RunStays ==
  ASSUME NEW b, RunOf(b), RunPlace'[b] = RunPlace[b], cur'[b] = cur[b],
         build_status'[b] = build_status[b], b \in RunFailed => b \in RunFailed',
         \A s \in Steps : s[1] = b /\ RunState[s] = "done" => RunState'[s] = "done"
  PROVE  RunOf(b)'
BY DEF RunOf, Whole

(* A step of a build's run keeps this.                                      *)
LEMMA RunKeeps ==
  ASSUME StepsTyped, StepsTyped', RunInv, [Run!Next]_(Run!runVars)
  PROVE  RunInv'
<1>. USE DEF RunInv
<1>1. /\ \A s \in Steps : s[1] \in Builds /\ s[2] \in Nat /\ 0 < s[2] /\ s[2] <= StepsOf[s[1]]
      /\ \A b \in Builds : cur[b] \in Nat /\ StepsOf[b] \in Nat /\ cur[b] <= StepsOf[b]
  <2>1. \A b \in Builds : cur[b] \in Nat /\ StepsOf[b] \in Nat /\ cur[b] <= StepsOf[b]
    BY StepIs DEF StepsTyped
  <2>2. ASSUME NEW s \in Steps
        PROVE  s[1] \in Builds /\ s[2] \in Nat /\ 0 < s[2] /\ s[2] <= StepsOf[s[1]]
    <3>1. s[1] \in Builds /\ s[2] \in 1 .. StepsOf[s[1]]
      BY StepIs
    <3>. QED BY <2>1, <3>1
  <2>. QED BY <2>1, <2>2
<1>2. /\ Run!Steps = Steps /\ DOMAIN RunPlace = Builds /\ DOMAIN RunState = Steps
      /\ DOMAIN cur = Builds /\ DOMAIN build_status = Builds
  BY DEF Run!Steps, Steps, RunPlace, RunState, StepsTyped
<1>3. ASSUME NEW s \in Steps, Run!Take(s) PROVE RunInv'
  <2>1. /\ RunState[s] = "none" /\ UNCHANGED <<build_status, RunPlace, cur, RunFailed>>
        /\ \A t \in Steps : t # s => RunState'[t] = RunState[t]
    BY <1>2, <1>3 DEF Run!Take, Run!Becomes
  <2>2. \A t \in Steps : RunState[t] = "done" => RunState'[t] = "done"
    BY <2>1
  <2>. QED BY <2>1, <2>2, RunStays
<1>4. ASSUME NEW s \in Steps, Run!Done(s) PROVE RunInv'
  <2>1. /\ UNCHANGED <<build_status, RunPlace, cur, RunFailed>>
        /\ \A t \in Steps : RunState[t] = "done" => RunState'[t] = "done"
    BY <1>2, <1>4 DEF Run!Done, Run!Becomes
  <2>. QED BY <2>1, RunStays
<1>5. ASSUME NEW b \in Builds, RunState' = RunState, RunOf(b)',
             \A c \in Builds : c # b =>
               /\ RunPlace'[c] = RunPlace[c] /\ cur'[c] = cur[c]
               /\ build_status'[c] = build_status[c] /\ (c \in RunFailed => c \in RunFailed')
      PROVE  RunInv'
  BY <1>5, RunStays
<1>6. ASSUME NEW b \in Builds, Run!Start(b) PROVE RunInv'
  <2>1. /\ RunPlace[b] = "idle" /\ RunPlace' = [RunPlace EXCEPT ![b] = "between"]
        /\ build_status' = [build_status EXCEPT ![b] = "running"]
        /\ UNCHANGED <<cur, RunFailed, RunState>>
    BY <1>6 DEF Run!Start, Run!Move
  <2>2. RunPlace'[b] = "between" /\ build_status'[b] = "running" /\ cur[b] = 0
    BY <1>2, <2>1 DEF RunOf
  <2>3. RunOf(b)'
    BY <1>1, <2>1, <2>2 DEF RunOf
  <2>. QED BY <1>5, <2>1, <2>3
<1>7. ASSUME NEW b \in Builds, Run!Begin(b) PROVE RunInv'
  <2>1. /\ RunPlace[b] = "between" /\ RunPlace' = [RunPlace EXCEPT ![b] = "out"]
        /\ cur' = [cur EXCEPT ![b] = @ + 1]
        /\ UNCHANGED <<build_status, RunFailed, RunState>>
    BY <1>7 DEF Run!Begin, Run!Move
  <2>2. RunPlace'[b] = "out" /\ cur'[b] = cur[b] + 1
    BY <1>2, <2>1
  <2>3. \A s \in Steps : s[1] = b /\ s[2] < cur'[b] => RunState[s] = "done"
    <3>1. \A s \in Steps : s[1] = b /\ s[2] < cur[b] + 1 => s[2] < cur[b] \/ s[2] = cur[b]
      BY <1>1
    <3>. QED BY <2>1, <2>2, <3>1 DEF RunOf
  <2>4. RunOf(b)'
    BY <2>1, <2>2, <2>3 DEF RunOf, Whole
  <2>. QED BY <1>5, <2>1, <2>4
<1>8. ASSUME NEW b \in Builds, Run!GoOn(b) PROVE RunInv'
  <2>1. /\ RunPlace' = [RunPlace EXCEPT ![b] = "between"]
        /\ RunState[<<b, cur[b]>>] = "done"
        /\ UNCHANGED <<build_status, cur, RunFailed, RunState>>
    BY <1>8 DEF Run!GoOn, Run!Move, Run!Current
  <2>2. RunPlace'[b] = "between"
    BY <1>2, <2>1
  <2>3. \A s \in Steps : s[1] = b /\ s[2] = cur[b] => RunState[s] = "done"
    BY <2>1, StepIs
  <2>4. RunOf(b)'
    BY <2>1, <2>2, <2>3 DEF RunOf, Whole
  <2>. QED BY <1>5, <2>1, <2>4
<1>9. ASSUME NEW b \in Builds, Run!GiveUp(b) PROVE RunInv'
  <2>1. /\ RunPlace' = [RunPlace EXCEPT ![b] = "left"] /\ RunFailed' = RunFailed \cup {b}
        /\ UNCHANGED <<build_status, cur, RunState>>
    BY <1>9 DEF Run!GiveUp, Run!Move
  <2>2. RunPlace'[b] = "left" /\ b \in RunFailed'
    BY <1>2, <2>1
  <2>3. RunOf(b)'
    BY <2>1, <2>2 DEF RunOf, Whole
  <2>. QED BY <1>5, <2>1, <2>3
<1>10. ASSUME NEW b \in Builds, Run!Leave(b) PROVE RunInv'
  <2>1. /\ RunPlace[b] = "between" /\ RunPlace' = [RunPlace EXCEPT ![b] = "left"]
        /\ build_status[b] = "cancelled" \/ cur[b] = StepsOf[b]
        /\ UNCHANGED <<build_status, cur, RunFailed, RunState>>
    BY <1>10 DEF Run!Leave, Run!Move
  <2>2. RunPlace'[b] = "left"
    BY <1>2, <2>1
  <2>3. cur[b] = StepsOf[b] => Whole(b)
    <3>1. \A s \in Steps : s[1] = b /\ cur[b] = StepsOf[b] => s[2] < cur[b] \/ s[2] = cur[b]
      BY <1>1
    <3>. QED BY <2>1, <3>1 DEF RunOf, Whole
  <2>4. RunOf(b)'
    BY <2>1, <2>2, <2>3 DEF RunOf, Whole
  <2>. QED BY <1>5, <2>1, <2>4
<1>11. ASSUME NEW b \in Builds, Run!Cancel(b) PROVE RunInv'
  <2>1. /\ build_status' = [build_status EXCEPT ![b] = "cancelled"]
        /\ UNCHANGED <<RunPlace, cur, RunFailed, RunState>>
    BY <1>11 DEF Run!Cancel
  <2>2. build_status'[b] = "cancelled"
    BY <1>2, <2>1
  <2>3. RunOf(b)'
    BY <2>1, <2>2 DEF RunOf
  <2>. QED BY <1>5, <2>1, <2>3
<1>12. ASSUME NEW b \in Builds, Run!Conclude(b) PROVE RunInv'
  <2>1. /\ RunPlace[b] = "left" /\ RunPlace' = [RunPlace EXCEPT ![b] = "over"]
        /\ build_status' = [build_status EXCEPT ![b] =
                              IF @ = "cancelled" THEN "cancelled"
                              ELSE IF b \in RunFailed THEN "failed" ELSE "success"]
        /\ UNCHANGED <<cur, RunFailed, RunState>>
    BY <1>12 DEF Run!Conclude, Run!Move
  <2>2. RunPlace'[b] = "over"
        /\ (build_status'[b] = "success" => build_status[b] # "cancelled" /\ b \notin RunFailed)
    BY <1>2, <2>1
  <2>3. RunOf(b)'
    BY <2>1, <2>2 DEF RunOf, Whole
  <2>. QED BY <1>5, <2>1, <2>3
<1>13. ASSUME UNCHANGED Run!runVars PROVE RunInv'
  BY <1>13, RunStays DEF Run!runVars
<1>. QED
  BY <1>2, <1>3, <1>4, <1>6, <1>7, <1>8, <1>9, <1>10, <1>11, <1>12, <1>13 DEF Run!Next

LEMMA RunInvariant == Spec => []RunInv
<1>1. Init => RunInv
  <2>. SUFFICES ASSUME Init, NEW b \in Builds PROVE RunOf(b)
    BY DEF RunInv
  <2>1. cur[b] = 0 /\ RunPlace[b] = "idle" /\ build_status[b] = "pending"
    BY DEF Init, RunPlace, PlaceOf
  <2>2. \A s \in Steps : s[1] = b => ~(s[2] < 0)
    BY StepIs
  <2>. QED BY <2>1, <2>2 DEF RunOf
<1>2. StepsInv /\ FailedIsLeft /\ RunInv /\ [Next]_vars => FailedIsLeft' /\ RunInv'
  <2>. SUFFICES ASSUME StepsInv, FailedIsLeft, RunInv, [Next]_vars
                PROVE  FailedIsLeft' /\ RunInv'
    OBVIOUS
  <2>1. [Run!Next]_(Run!runVars) /\ FailedIsLeft'
    BY RunStepped
  <2>2. StepsTyped /\ StepsTyped'
    BY StepsStep DEF StepsInv
  <2>. QED BY <2>1, <2>2, RunKeeps
<1>. QED BY <1>1, <1>2, RunStart, StepsInvariant, PTL DEF Spec

(* Of a success all is done.                                                *)
LEMMA InvariantIsWhole == RunInv => SuccessIsWhole
<1>. SUFFICES ASSUME RunInv, NEW s \in Steps, build_status[s[1]] = "success"
              PROVE  apc[s] \in {"reported", "gone"}
  BY DEF SuccessIsWhole
<1>1. RunState[s] = "done"
  BY StepIs DEF RunInv, RunOf, Whole
<1>. QED BY <1>1 DEF RunState, StateOf

(* A build that is a success had every one of its steps come to an end on   *)
(* the agent.                                                               *)
THEOREM SuccessAlwaysWhole == Spec => []SuccessIsWhole
BY InvariantIsWhole, RunInvariant, PTL

-----------------------------------------------------------------------------
(* A step that is in flight and not over is the one its executor is at.     *)
LEMMA WorkingIsCurrent ==
  ASSUME StepsInv, NEW s \in Steps, apc[s] \in {"spawned", "begun", "running"}
  PROVE  s[2] = cur[s[1]] /\ ~Reported(s)
<1>1. s[2] \in Nat /\ cur[s[1]] \in Nat
  BY StepIs DEF StepsInv, StepsTyped
<1>2. ~Reported(s) /\ apc[s] # "none"
  BY DEF Reported
<1>. QED BY <1>1, <1>2 DEF StepsInv, NotYet, Before

(* Of two steps at work in one build each is the current one.               *)
LEMMA InvariantIsOneStep == StepsInv => OneStepAtATime
<1>. SUFFICES ASSUME StepsInv, NEW s \in Steps, NEW t \in Steps, s[1] = t[1],
                     apc[s] \in {"spawned", "begun", "running"},
                     apc[t] \in {"spawned", "begun", "running"}
              PROVE  s = t
  BY DEF OneStepAtATime
<1>. QED BY WorkingIsCurrent, StepIs

(* A build never has two steps at work on the agent, whatever is lost, late *)
(* or given up on.                                                          *)
THEOREM OneStepAlways == Spec => []OneStepAtATime
BY InvariantIsOneStep, StepsInvariant, PTL

(* What is seen as a success was reported and ended as one.                 *)
LEMMA InvariantIsReal == StepsInv => SuccessIsReal
BY DEF StepsInv, RowsAreTrue, SuccessIsReal

(* The executor never takes a step for a success that was none.             *)
THEOREM SuccessAlwaysReal == Spec => []SuccessIsReal
BY InvariantIsReal, StepsInvariant, PTL

(* A step that was not reported was left as a failed one.                   *)
LEMMA InvariantIsFailed == StepsInv => OrphanMeansFailed
<1>. SUFFICES ASSUME StepsInv, NEW s \in Steps, epc[s[1]] \in {"cleanup", "done"},
                     apc[s] \in {"spawned", "begun", "running"}
              PROVE  seen[s] = "failed" /\ build_status[s[1]] # "success"
  BY DEF OrphanMeansFailed
<1>. QED BY WorkingIsCurrent DEF StepsInv, LeftFailed, Verdict

(* Work that outlives its build on the agent is of a step that was recorded *)
(* as failed, in a build that is no success.                                *)
THEOREM OrphanAlwaysFailed == Spec => []OrphanMeansFailed
BY InvariantIsFailed, StepsInvariant, PTL

-----------------------------------------------------------------------------
(* Gates and chained pipelines: what a wait may hold.                       *)
WaitsTyped ==
  /\ waiting \in [kind : Gates \cup {"trigger_pipeline"},
                  at : {"start", "check", "get", "judge", "sleep", "done"},
                  elapsed : Nat, read : PostedAnswers \cup {Empty},
                  outcome : {"none"} \cup Final]
  /\ posts \in [all : SUBSET [answer : PostedAnswers, in_time : BOOLEAN],
                several : BOOLEAN]
  /\ gate \in PostedAnswers \cup {Empty}
  /\ cancelFlag \in BOOLEAN

(* An outcome is decided once, and nothing is posted to what is no gate or  *)
(* has not begun.                                                           *)
DecidedOnce ==
  /\ (waiting.at = "done") = (waiting.outcome # "none")
  /\ waiting.at = "judge" => Gated /\ waiting.read # Empty
  /\ posts.all # {} => Gated /\ waiting.at # "start"

(* What the key holds, and what the step read, was posted.                  *)
Posted(a) == \E p \in posts.all : p.answer = a
OnlyPosted ==
  /\ gate # Empty => Posted(gate)
  /\ waiting.read # Empty => Posted(waiting.read)

(* While nothing else is posted, an answer that counts stays in the key     *)
(* until the step judges it, and the step still has the time to.            *)
Heard(p) ==
  IF waiting.outcome = "none"
  THEN /\ gate = p.answer
       /\ waiting.at = "check" => waiting.elapsed < WaitTimeout
       /\ waiting.at = "sleep" => waiting.elapsed + 1 < WaitTimeout
  ELSE waiting.outcome = (IF p.answer.approved THEN "success" ELSE "failed")
Lone == \A p, q \in posts.all : p = q
LoneHeard ==
  ~posts.several =>
    /\ Lone
    /\ ~cancelFlag => \A p \in posts.all : p.in_time /\ p.answer.counts => Heard(p)

WaitsInv == WaitsTyped /\ DecidedOnce /\ OnlyPosted /\ PassedForAReason /\ LoneHeard

LEMMA WaitsInit == StepWaitsInit => WaitsInv
<1>. SUFFICES ASSUME StepWaitsInit
              PROVE  WaitsInv
  OBVIOUS
<1>. USE DEF StepWaitsInit
<1>1. WaitsTyped
  <2>. PICK k \in Gates \cup {"trigger_pipeline"} :
         waiting = [kind |-> k, at |-> "start", elapsed |-> 0, read |-> Empty,
                    outcome |-> "none"]
    OBVIOUS
  <2>1. waiting \in [kind : Gates \cup {"trigger_pipeline"},
                     at : {"start", "check", "get", "judge", "sleep", "done"},
                     elapsed : Nat, read : PostedAnswers \cup {Empty},
                     outcome : {"none"} \cup Final]
    OBVIOUS
  <2>2. posts \in [all : SUBSET [answer : PostedAnswers, in_time : BOOLEAN],
                   several : BOOLEAN]
    OBVIOUS
  <2>. QED BY <2>1, <2>2 DEF WaitsTyped
<1>2. DecidedOnce /\ OnlyPosted
  BY DEF DecidedOnce, OnlyPosted, Posted
<1>3. PassedForAReason /\ LoneHeard
  BY DEF PassedForAReason, LoneHeard, Lone
<1>. QED BY <1>1, <1>2, <1>3 DEF WaitsInv

(* The step's own moves and everybody else's keep the invariant.            *)
LEMMA WaitsStep == WaitsInv /\ [StepWaitsNext]_stepWaitsVars => WaitsInv'
<1>. SUFFICES ASSUME WaitsInv, [StepWaitsNext]_stepWaitsVars
              PROVE  WaitsInv'
  OBVIOUS
<1>. USE StepWaitsAssumption, EmptyIsNoAnswer DEF WaitsInv, GoTo, Decide, Gated
<1>1. CASE UNCHANGED stepWaitsVars
  BY <1>1 DEF stepWaitsVars, WaitsTyped, DecidedOnce, OnlyPosted, Posted,
              PassedForAReason, LoneHeard, Lone, Heard
<1>2. CASE StartWait
  BY <1>2 DEF StartWait, WaitsTyped, DecidedOnce, OnlyPosted, Posted,
              PassedForAReason, LoneHeard, Lone, Heard, Gates, Final
<1>3. CASE Check
  <2>1. WaitsTyped'
    BY <1>3 DEF Check, WaitsTyped, Gates, Final
  <2>2. DecidedOnce'
    BY <1>3 DEF Check, WaitsTyped, DecidedOnce, Gates, Final
  <2>3. OnlyPosted'
    BY <1>3 DEF Check, WaitsTyped, OnlyPosted, Posted
  <2>4. PassedForAReason'
    BY <1>3 DEF Check, WaitsTyped, DecidedOnce, OnlyPosted, Posted, PassedForAReason
  <2>5. LoneHeard'
    BY <1>3 DEF Check, WaitsTyped, DecidedOnce, OnlyPosted, Posted, LoneHeard, Lone, Heard
  <2>. QED BY <2>1, <2>2, <2>3, <2>4, <2>5
<1>4. CASE Get
  <2>1. WaitsTyped'
    BY <1>4 DEF Get, WaitsTyped, Gates, Final
  <2>2. DecidedOnce'
    BY <1>4 DEF Get, WaitsTyped, DecidedOnce, Gates, Final
  <2>3. OnlyPosted'
    BY <1>4 DEF Get, WaitsTyped, OnlyPosted, Posted
  <2>4. PassedForAReason'
    BY <1>4 DEF Get, WaitsTyped, DecidedOnce, OnlyPosted, Posted, PassedForAReason
  <2>5. LoneHeard'
    BY <1>4 DEF Get, WaitsTyped, DecidedOnce, OnlyPosted, Posted, LoneHeard, Lone, Heard
  <2>. QED BY <2>1, <2>2, <2>3, <2>4, <2>5
<1>5. CASE GetChild
  <2>1. WaitsTyped'
    BY <1>5 DEF GetChild, WaitsTyped, Gates, Final
  <2>2. DecidedOnce'
    BY <1>5 DEF GetChild, WaitsTyped, DecidedOnce, Gates, Final
  <2>3. OnlyPosted'
    BY <1>5 DEF GetChild, WaitsTyped, OnlyPosted, Posted
  <2>4. PassedForAReason'
    BY <1>5 DEF GetChild, WaitsTyped, DecidedOnce, OnlyPosted, Posted, PassedForAReason
  <2>5. LoneHeard'
    BY <1>5 DEF GetChild, WaitsTyped, DecidedOnce, OnlyPosted, Posted, LoneHeard, Lone, Heard
  <2>. QED BY <2>1, <2>2, <2>3, <2>4, <2>5
<1>6. CASE Judge
  <2>1. WaitsTyped'
    BY <1>6 DEF Judge, WaitsTyped, Gates, Final
  <2>2. DecidedOnce'
    BY <1>6 DEF Judge, WaitsTyped, DecidedOnce, Gates, Final
  <2>3. OnlyPosted'
    BY <1>6 DEF Judge, WaitsTyped, OnlyPosted, Posted
  <2>4. PassedForAReason'
    BY <1>6 DEF Judge, WaitsTyped, DecidedOnce, OnlyPosted, Posted, PassedForAReason, PostedAnswers, Right
  <2>5. LoneHeard'
    BY <1>6 DEF Judge, WaitsTyped, DecidedOnce, OnlyPosted, Posted, LoneHeard, Lone, Heard, PostedAnswers
  <2>. QED BY <2>1, <2>2, <2>3, <2>4, <2>5
<1>7. CASE Sleep
  <2>1. WaitsTyped'
    <3>1. waiting.elapsed \in Nat /\ waiting.elapsed + 1 \in Nat
      BY DEF WaitsTyped
    <3>. QED BY <1>7, <3>1 DEF Sleep, WaitsTyped
  <2>2. DecidedOnce'
    BY <1>7 DEF Sleep, WaitsTyped, DecidedOnce, Gates, Final
  <2>3. OnlyPosted'
    BY <1>7 DEF Sleep, WaitsTyped, OnlyPosted, Posted
  <2>4. PassedForAReason'
    BY <1>7 DEF Sleep, WaitsTyped, DecidedOnce, OnlyPosted, Posted, PassedForAReason
  <2>5. LoneHeard'
    BY <1>7 DEF Sleep, WaitsTyped, DecidedOnce, OnlyPosted, Posted, LoneHeard, Lone, Heard
  <2>. QED BY <2>1, <2>2, <2>3, <2>4, <2>5
<1>8. CASE Post
  <2>. DEFINE entry(a) == [answer |-> a, in_time |->
                waiting.at # "done" /\ waiting.elapsed + 1 < WaitTimeout]
  <2>1. PICK a \in PostedAnswers :
          /\ gate' = a
          /\ posts' = [several |-> posts.all # {}, all |-> posts.all \cup {entry(a)}]
    BY <1>8 DEF Post
  <2>2. /\ Gated /\ waiting.at # "start" /\ a # Empty
        /\ UNCHANGED <<waiting, cancelFlag, child>>
    BY <1>8, <2>1 DEF Post
  <2>3. posts'.all = posts.all \cup {entry(a)} /\ posts'.several = (posts.all # {})
    BY <2>1
  <2>4. entry(a) \in [answer : PostedAnswers, in_time : BOOLEAN] /\ entry(a).answer = a
    OBVIOUS
  <2>. HIDE DEF entry
  <2>5. WaitsTyped'
    <3>1. posts.all \in SUBSET [answer : PostedAnswers, in_time : BOOLEAN]
      BY DEF WaitsTyped
    <3>2. posts' \in [all : SUBSET [answer : PostedAnswers, in_time : BOOLEAN],
                      several : BOOLEAN]
      BY <2>1, <2>4, <3>1
    <3>. QED BY <2>1, <2>2, <3>2 DEF WaitsTyped
  <2>6. DecidedOnce'
    BY <2>2 DEF DecidedOnce
  <2>7. OnlyPosted'
    BY <2>1, <2>2, <2>3, <2>4 DEF OnlyPosted, Posted
  <2>8. PassedForAReason'
    BY <2>2, <2>3 DEF PassedForAReason
  <2>9. LoneHeard'
    <3>. SUFFICES ASSUME ~posts'.several
                  PROVE  LoneHeard'
      BY DEF LoneHeard
    <3>1. posts'.all = {entry(a)} /\ waiting.at # "judge"
      BY <2>3 DEF DecidedOnce, OnlyPosted, Posted
    <3>2. entry(a).in_time => waiting.at # "done" /\ waiting.elapsed + 1 < WaitTimeout
      BY DEF entry
    <3>3. waiting.elapsed \in Nat
      BY DEF WaitsTyped
    <3>. QED BY <2>1, <2>2, <2>4, <3>1, <3>2, <3>3
             DEF LoneHeard, Lone, Heard, DecidedOnce
  <2>. QED BY <2>5, <2>6, <2>7, <2>8, <2>9
<1>9. CASE SaveResult \/ CancelBuild \/ ChildStarts \/ ChildEnds
  BY <1>9 DEF SaveResult, CancelBuild, ChildStarts, ChildEnds, WaitsTyped,
              DecidedOnce, OnlyPosted, Posted, PassedForAReason, LoneHeard, Lone, Heard
<1>. QED
  BY <1>1, <1>2, <1>3, <1>4, <1>5, <1>6, <1>7, <1>8, <1>9
     DEF StepWaitsNext, StepMoves

LEMMA WaitsInvariant == StepWaitsSpec => []WaitsInv
BY WaitsInit, WaitsStep, PTL DEF StepWaitsSpec

(* A build passes a gate only on an answer that counts and approves, and a  *)
(* trigger step only with the build it waits for, whatever the timeout.     *)
THEOREM PassedForAReasonAlways == StepWaitsSpec => []PassedForAReason
BY WaitsInvariant, PTL DEF WaitsInv

(* An answer posted in time and by itself decides the step, although the    *)
(* key is deleted in a call of its own.                                     *)
THEOREM LoneAnswerAlways == StepWaitsSpec => []LoneAnswerIsHeard
<1>1. WaitsInv => LoneAnswerIsHeard
  BY DEF WaitsInv, LoneHeard, Heard, LoneAnswerIsHeard
<1>. QED BY <1>1, WaitsInvariant, PTL

-----------------------------------------------------------------------------
(* The rest of what is typed: rows and sockets that the arguments above do   *)
(* not need, a socket that is served, and what the agent counts.             *)
RestTyped ==
  /\ step_agent \in [Steps -> BOOLEAN] /\ signal \in [Builds -> {"no", "committed", "sent"}]
  /\ reserved \in Builds \cup {NoBuild} /\ connected \in BOOLEAN
  /\ used \in [Builds -> BOOLEAN]
  /\ conn \in {NoConn} \cup serving /\ opened \in {NoConn} \cup Conns
  /\ serving \subseteq 1 .. opened /\ cancels \subseteq Steps
  /\ stopped \in [Steps -> BOOLEAN] /\ count \in [Builds -> Nat]
  /\ dir \in [Builds -> BOOLEAN] /\ nets \in [Builds -> Seq(Nat)]

(* How many steps of a build the agent has begun is a number.                *)
LEMMA BegunIsNumber == \A b \in Builds : Begun(b) \in Nat
<1>. TAKE b \in Builds
<1>. DEFINE mine == {b} \X (1 .. StepsOf[b])
            begun == {s \in Steps : s[1] = b /\ apc[s] \in Registered \cup {"gone"}}
<1>1. IsFiniteSet(mine)
  <2>1. IsFiniteSet({b})
    BY FS_Singleton
  <2>2. IsFiniteSet(1 .. StepsOf[b])
    <3>1. 1 \in Int /\ StepsOf[b] \in Int
      BY StepIs
    <3>. QED BY <3>1, FS_Interval
  <2>. QED BY <2>1, <2>2, FS_Product
<1>2. begun \subseteq mine
  BY StepIs
<1>3. Cardinality(begun) \in Nat
  BY <1>1, <1>2, FS_Subset, FS_CardinalityType
<1>. QED BY <1>3 DEF Begun

(* What the executor and the endpoints leave of it.                          *)
LEMMA ServerRest ==
  ASSUME StepsTyped, RestTyped, NEW b \in Builds,
         StartBuild(b) \/ Execute(b) \/ CancelCommits(b) \/ Notify(b)
  PROVE  RestTyped'
<1>. USE DEF RestTyped, sockets, agent
<1>1. CASE StartBuild(b) \/ NextStep(b) \/ Send(b) \/ Wake(b) \/ TimeOut(b)
  BY <1>1 DEF StartBuild, NextStep, loopRest, Send, Wake, TimeOut, Unsubscribe, presence, rows
<1>2. CASE Conclude(b) \/ Cleanup(b) \/ CancelCommits(b)
  BY <1>2 DEF Conclude, Cleanup, CancelCommits, presence, rows, executor
<1>3. CASE Notify(b)
  BY <1>3 DEF Notify, presence, executor
<1>. QED BY <1>1, <1>2, <1>3 DEF Execute

(* Sockets come one after the other, and are served until they are torn down. *)
LEMMA SocketRest ==
  ASSUME StepsTyped, RestTyped, (\E c \in Conns : Socket(c)) \/ Connect \/ LinkDies
  PROVE  RestTyped'
<1>. USE DEF RestTyped, agent, presence, executor, rows
<1>1. ASSUME NEW c \in Conns, Forward(c) PROVE RestTyped'
  BY <1>1 DEF Forward
<1>2. ASSUME NEW c \in Conns, Started(c) PROVE RestTyped'
  <2>1. Head(up[c]).step \in Steps
    BY <1>2, TailHas, Messages DEF Started, StepsTyped
  <2>. QED BY <1>2, <2>1 DEF Started
<1>3. ASSUME NEW c \in Conns, Finished(c) PROVE RestTyped'
  BY <1>3 DEF Finished, FinishedAs
<1>4. ASSUME NEW c \in Conns, TearDown(c) PROVE RestTyped'
  BY <1>4 DEF TearDown
<1>5. CASE Connect
  <2>1. opened + 1 \in Conns
    BY <1>5, StepConstants DEF Connect, Conns, NoConn
  <2>2. opened' = opened + 1 /\ conn' = opened + 1 /\ serving' = serving \cup {opened + 1}
    BY <1>5 DEF Connect
  <2>3. serving' \subseteq 1 .. opened'
    BY <2>2 DEF Conns, NoConn
  <2>. QED BY <1>5, <2>1, <2>2, <2>3 DEF Connect
<1>6. CASE LinkDies
  BY <1>6 DEF LinkDies, elsewhere
<1>. QED BY <1>1, <1>2, <1>3, <1>4, <1>5, <1>6 DEF Socket

(* The agent counts with numbers.                                            *)
LEMMA AgentRest ==
  ASSUME StepsTyped, RestTyped,
         \/ \E s \in Steps : RunSteps(s) \/ End(s) \/ CancelStep(s)
         \/ Frame \/ \E b \in Builds : NetFires(b)
  PROVE  RestTyped'
<1>. USE DEF RestTyped, elsewhere, link, sockets, presence, executor, rows
<1>1. ASSUME NEW s \in Steps, Begin(s) PROVE RestTyped'
  BY <1>1, StepIs DEF Begin
<1>2. ASSUME NEW s \in Steps, Acquire(s) \/ GiveUp(s) \/ Report(s) \/ End(s) \/ CancelStep(s)
      PROVE  RestTyped'
  BY <1>2, StepIs DEF Acquire, GiveUp, Report, End, CancelStep
<1>3. ASSUME NEW s \in Steps, Untrack(s) PROVE RestTyped'
  <2>. PICK b \in Builds : b = s[1]
    BY StepIs
  <2>1. Append(nets[b], Begun(b)) \in Seq(Nat)
    BY BegunIsNumber, AppendHas
  <2>2. nets' \in [Builds -> Seq(Nat)]
    BY <1>3, <2>1 DEF Untrack, UntrackIf
  <2>3. count' \in [Builds -> Nat]
    BY <1>3 DEF Untrack, UntrackIf
  <2>. QED BY <1>3, <2>2, <2>3 DEF Untrack, UntrackIf
<1>4. CASE HandleRunStep
  BY <1>4 DEF HandleRunStep
<1>5. CASE FinishBuild
  <2>1. Head(down).build \in Builds
    BY <1>5, TailHas, Messages DEF FinishBuild, StepsTyped
  <2>. QED BY <1>5, <2>1 DEF FinishBuild, ReleaseWorkdir
<1>6. ASSUME NEW b \in Builds, NetFires(b) PROVE RestTyped'
  <2>1. Tail(nets[b]) \in Seq(Nat)
    BY <1>6, TailHas DEF NetFires
  <2>. QED BY <1>6, <2>1 DEF NetFires, ReleaseWorkdir
<1>. QED BY <1>1, <1>2, <1>3, <1>4, <1>5, <1>6 DEF RunSteps, Frame

LEMMA RestStep == StepsTyped /\ RestTyped /\ [Next]_vars => RestTyped'
<1>. SUFFICES ASSUME StepsTyped, RestTyped, [Next]_vars PROVE RestTyped'
  OBVIOUS
<1>1. CASE UNCHANGED vars
  BY <1>1 DEF vars, RestTyped
<1>. QED BY <1>1, ServerRest, SocketRest, AgentRest DEF Next

(* A wait has time left while it polls, and its row says nothing but what    *)
(* was decided.                                                              *)
InTime ==
  /\ waiting.elapsed <= WaitTimeout
  /\ waiting.at \in {"get", "judge", "sleep"} => waiting.elapsed < WaitTimeout
  /\ wait_status \in {"running"} \cup Final

LEMMA InTimeStep == WaitsInv /\ InTime /\ [StepWaitsNext]_stepWaitsVars => InTime'
<1>. SUFFICES ASSUME WaitsInv, InTime, [StepWaitsNext]_stepWaitsVars PROVE InTime'
  OBVIOUS
<1>. USE StepWaitsAssumption DEF WaitsInv, WaitsTyped, InTime, GoTo, Decide
<1>1. CASE UNCHANGED stepWaitsVars
  BY <1>1 DEF stepWaitsVars
<1>2. CASE StartWait
  BY <1>2 DEF StartWait, Gates
<1>3. CASE Check
  <2>1. waiting.elapsed \in Nat
    OBVIOUS
  <2>2. waiting'.elapsed = waiting.elapsed /\ wait_status' = wait_status
    BY <1>3 DEF Check
  <2>3. waiting'.at = "get" => waiting.elapsed < WaitTimeout
    <3>1. CASE waiting.elapsed >= WaitTimeout
      BY <1>3, <3>1 DEF Check
    <3>2. CASE ~(waiting.elapsed >= WaitTimeout)
      BY <2>1, <3>2
    <3>. QED BY <3>1, <3>2
  <2>4. waiting'.at \in {"get", "done"}
    BY <1>3 DEF Check
  <2>. QED BY <2>1, <2>2, <2>3, <2>4
<1>4. CASE Get \/ GetChild \/ Judge
  BY <1>4 DEF Get, GetChild, Judge
<1>5. CASE Sleep
  BY <1>5 DEF Sleep
<1>6. CASE SaveResult
  BY <1>6 DEF SaveResult, DecidedOnce, Final
<1>7. CASE Post \/ CancelBuild \/ ChildStarts \/ ChildEnds
  BY <1>7 DEF Post, CancelBuild, ChildStarts, ChildEnds
<1>. QED BY <1>1, <1>2, <1>3, <1>4, <1>5, <1>6, <1>7 DEF StepWaitsNext, StepMoves

-----------------------------------------------------------------------------
(* The two kinds of steps together: one kind moves, the other stays.         *)
KindsInv ==
  StepsInv /\ RestTyped /\ WaitsInv /\ InTime /\ kind \in {"agent", "server"}

LEMMA KindsInvariant == BuildStepsSpec => []KindsInv
<1>1. BuildStepsInit => KindsInv
  <2>. SUFFICES ASSUME BuildStepsInit PROVE KindsInv
    OBVIOUS
  <2>1. StepsInv /\ WaitsInv
    BY StepsBegin, WaitsInit DEF BuildStepsInit
  <2>2. RestTyped
    <3>1. <<>> \in Seq(Nat)
      BY EmptySeq
    <3>. QED BY <3>1 DEF BuildStepsInit, Init, RestTyped, NoConn
  <2>3. InTime
    BY StepWaitsAssumption DEF BuildStepsInit, StepWaitsInit, InTime
  <2>4. kind \in {"agent", "server"}
    BY DEF BuildStepsInit
  <2>. QED BY <2>1, <2>2, <2>3, <2>4 DEF KindsInv
<1>2. KindsInv /\ [BuildStepsNext]_buildStepsVars => KindsInv'
  <2>. SUFFICES ASSUME KindsInv, [BuildStepsNext]_buildStepsVars PROVE KindsInv'
    OBVIOUS
  <2>1. [Next]_vars /\ [StepWaitsNext]_stepWaitsVars /\ kind' = kind
    BY DEF BuildStepsNext, buildStepsVars
  <2>. QED BY <2>1, StepsStep, RestStep, WaitsStep, InTimeStep DEF KindsInv, StepsInv
<1>. QED BY <1>1, <1>2, PTL DEF BuildStepsSpec

(* Whatever kind a step is, every row, socket, counter and timer keeps its   *)
(* type, a socket in use is one that is served, and no wait outlasts its     *)
(* timeout.                                                                  *)
THEOREM StepsTypeCorrect == BuildStepsSpec => []BuildStepsTypeOK
<1>1. KindsInv => BuildStepsTypeOK
  <2>. SUFFICES ASSUME KindsInv PROVE BuildStepsTypeOK
    OBVIOUS
  <2>1. StepTypeOK
    BY DEF KindsInv, StepsInv, StepsTyped, RestTyped, StepTypeOK, Places
  <2>2. StepWaitsTypeOK
    BY StepWaitsAssumption
       DEF KindsInv, WaitsInv, WaitsTyped, DecidedOnce, InTime, StepWaitsTypeOK
  <2>. QED BY <2>1, <2>2 DEF BuildStepsTypeOK, KindsInv
<1>. QED BY <1>1, KindsInvariant, PTL

(* What was proved of each kind holds of the two together.                  *)
THEOREM StepsStand ==
  BuildStepsSpec => /\ StepsInOrder /\ [](OneStepAtATime /\ SuccessIsReal)
                    /\ [](OrphanMeansFailed /\ SuccessIsWhole)
                    /\ [](PassedForAReason /\ LoneAnswerIsHeard)
<1>1. BuildStepsSpec => Spec
  <2>1. BuildStepsInit => Init
    BY DEF BuildStepsInit
  <2>2. [BuildStepsNext]_buildStepsVars => [Next]_vars
    BY DEF BuildStepsNext, buildStepsVars
  <2>. QED BY <2>1, <2>2, PTL DEF BuildStepsSpec, Spec
<1>2. KindsInv => PassedForAReason /\ LoneAnswerIsHeard
  BY DEF KindsInv, WaitsInv, LoneHeard, Heard, LoneAnswerIsHeard
<1>. QED
  BY <1>1, <1>2, KindsInvariant, StepsAlwaysInOrder, OneStepAlways, SuccessAlwaysReal,
     OrphanAlwaysFailed, SuccessAlwaysWhole, PTL
=============================================================================
