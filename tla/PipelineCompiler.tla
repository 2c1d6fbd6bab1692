--------------------------- MODULE PipelineCompiler ---------------------------
(* From the YAML of a pipeline to the rows of a build: the definition is    *)
(* checked, compiled into stages and steps with names, and given to the     *)
(* build, by each of the three ways that make one.                          *)
EXTENDS StepContract, Naturals, Sequences

VARIABLES definition, triggered

compilerVars == <<definition, triggered>>

Scalar(shape) == [is |-> shape, has |-> [f \in {} |-> "null"]]
Absent == Scalar("absent")
Keys(fields) == [is |-> IF DOMAIN fields = {} THEN "no keys" ELSE "keys", has |-> fields]

(* A name is a text with the numbers that were appended to it: "x (2)" is   *)
(* <<"x", 2>>, also when somebody wrote it so.                              *)
Names == {<<"x">>, <<"x", 2>>}

-----------------------------------------------------------------------------
(* Checking *)

SupportedOs(c) ==
  \A f \in {"os", "arch"} : Optional(c, f, {"text"})

ValidRunsOn(v) ==
  \/ v.is \in {"absent", "null", "no text", "blank", "text"}
  \/ /\ v.is \in Mapping /\ SupportedOs(v.has)
     /\ Optional(v.has, "labels", {"no items", "texts", "blanks"})
     /\ \E f \in {"os", "arch", "labels"} : Given(v.has, f)

NOTIFICATION_EVENTS == {"on_start", "on_waiting", "on_success", "on_fixed",
                        "on_failure", "on_cancelled", "on_complete"}

(* "others" stands for entries that name no channel or have unknown fields. *)
ValidNotifications(v) ==
  \/ v.is = "absent"
  \/ /\ v.is \in Mapping /\ DOMAIN v.has # {}
     /\ DOMAIN v.has \subseteq NOTIFICATION_EVENTS
     /\ \A event \in DOMAIN v.has : v.has[event] = "texts"

ValidStep(step) ==
  \/ step.plain
  \/ /\ step.named.is \in {"absent", "text"}
     /\ \E type \in step.actions :
          step.actions = {type} /\ ValidAction(type, step.value)

ValidStage(stage) ==
  /\ stage.name.is = "text"
  /\ stage.steps.is = "others" /\ \A i \in DOMAIN stage.list : ValidStep(stage.list[i])
  /\ stage.when.is \in Mapping \cup {"absent", "null"}
  /\ stage.runs_on.is = "absent"

(* An unhashable name cannot be looked up among the names so far. *)
CheckRaises(d) ==
  /\ d.is \in {"keys", "others"} /\ d.stages.is = "others"
  /\ \E i \in DOMAIN d.list : d.list[i].name.is \in {"texts", "keys"}

(* A list is taken for the list of stages. *)
Valid(d) ==
  /\ d.is \in {"keys", "others"}
  /\ ValidRunsOn(d.runs_on) /\ ValidNotifications(d.notifications)
  /\ d.stages.is = "others"
  /\ \A i \in DOMAIN d.list : ValidStage(d.list[i])
  /\ \A i, j \in DOMAIN d.list : i # j => d.list[i].title # d.list[j].title

-----------------------------------------------------------------------------
(* Compiling *)

(* What the build then asks of an agent; nothing is any agent. *)
NormalizeRunsOn(v) ==
  IF v.is = "text" THEN {"os"}
  ELSE {f \in DOMAIN v.has : v.has[f] = "text" /\ f \in {"os", "arch"}}
         \cup {f \in DOMAIN v.has : v.has[f] = "texts" /\ f = "labels"}

(* Mutant of Numbered: the first number is tried only. *)
NumberedOnce(label, taken) ==
  IF label \notin taken THEN label ELSE Append(label, 2)

Numbered(label, taken) ==
  IF label \notin taken THEN label
  ELSE Append(label, CHOOSE n \in 2 .. Cardinality(taken) + 2 :
         /\ Append(label, n) \notin taken
         /\ \A k \in 2 .. n - 1 : Append(label, k) \in taken)

NameGiven(step) == ~step.plain /\ step.named.is = "text"

(* Names that were written stay; each label is told from all names so far.  *)
StepNames(steps) ==
  LET written == {steps[i].title : i \in {j \in DOMAIN steps : NameGiven(steps[j])}}
      Name(step, names) ==
        IF NameGiven(step) THEN step.title
        ELSE Numbered(step.label, written \cup {names[i] : i \in DOMAIN names})
      upTo[n \in 0 .. Len(steps)] ==
        IF n = 0 THEN <<>> ELSE Append(upTo[n - 1], Name(steps[n], upTo[n - 1]))
  IN  upTo[Len(steps)]

StepType(step) == IF step.plain THEN "run" ELSE CHOOSE type \in step.actions : TRUE

CompileStage(stage) ==
  LET names == StepNames(stage.list) IN
  [name |-> stage.title,
   collects |-> stage.artifacts.is \in {"texts", "blanks", "keys"},
   steps |-> [i \in DOMAIN stage.list |->
     [name |-> names[i], step_type |-> StepType(stage.list[i]),
      config |-> stage.list[i].value.has]]]

Compile(d) == [i \in DOMAIN d.list |-> CompileStage(d.list[i])]

(* The environments of pipeline, stage and step are merged with **. *)
Merges(env) == env.is \in Mapping \cup {"absent"}
CompileRaises(d) ==
  \/ ~Merges(d.env)
  \/ \E i \in DOMAIN d.list :
       \/ ~Merges(d.list[i].env)
       \/ \E j \in DOMAIN d.list[i].list :
            ~d.list[i].list[j].plain /\ ~Merges(d.list[i].list[j].env)

-----------------------------------------------------------------------------
Build(status, runs_on, stages) ==
  [status |-> status, runs_on |-> runs_on, stages |-> stages]
NotTriggered == Build("none", {}, <<>>)

(* The one stage of a build whose definition is invalid. *)
Validation == <<[name |-> <<"validation">>, collects |-> FALSE,
  steps |-> <<[name |-> <<"yaml-check">>, step_type |-> "run", config |-> [f \in {} |-> "null"]]>>]>>

(* trigger_build, the git webhook and the trigger_pipeline step.  A person  *)
(* is told what is wrong; the other two record it as a failed build.  Only  *)
(* the trigger_pipeline step forgets what the definition asks of an agent.  *)
TriggerBy(way) ==
  /\ triggered = NotTriggered
  /\ triggered' =
       IF CheckRaises(definition) THEN Build("error", {}, <<>>)
       ELSE IF ~Valid(definition)
            THEN IF way = "person" THEN Build("refused", {}, <<>>)
                 ELSE Build("failed", {}, Validation)
       ELSE IF CompileRaises(definition) THEN Build("error", {}, <<>>)
       ELSE Build("pending",
                  IF way = "step" THEN {} ELSE NormalizeRunsOn(definition.runs_on),
                  Compile(definition))
  /\ UNCHANGED definition

(* The stored YAML may be anything: saving it does not check it. *)
CompilerNext == \E way \in {"person", "webhook", "step"} : TriggerBy(way)

-----------------------------------------------------------------------------
(* The definitions that are tried: a plain one, and each part of it varied. *)

NoAction == Scalar("text")
Step(actions, value) ==
  [plain |-> FALSE, named |-> Absent, title |-> <<"x">>, label |-> <<"x">>,
   actions |-> actions, value |-> value, env |-> Absent]
PlainStep == [Step({"run"}, NoAction) EXCEPT !.plain = TRUE]
Stage(title, list) ==
  [name |-> Scalar("text"), title |-> title, steps |-> Scalar("others"), list |-> list,
   when |-> Absent, runs_on |-> Absent, artifacts |-> Absent, env |-> Absent]
Definition(list) ==
  [is |-> "keys", runs_on |-> Absent, notifications |-> Absent, env |-> Absent,
   stages |-> Scalar("others"), list |-> list]
OneStep(step) == Definition(<<Stage(<<"x">>, <<step>>)>>)

(* The values of a step: of every shape, and mappings of up to three fields *)
(* with one of every shape.                                                 *)
FieldsOf(type) ==
  CASE type = "http_request" -> {"url", "method", "headers", "json", "body", "timeout",
                                 "retries", "expect_status", "verify_tls", "other"}
    [] type = "docker_login" -> {"username", "password"}
    [] type = "run" -> {}
    [] OTHER -> UNION Needs[type] \cup {"timeout", "content"}
RightShape(f) ==
  CASE f \in {"tags", "commands", "paths", "manifests"} -> "texts"
    [] f \in {"timeout", "retries", "expect_status"} -> "number"
    [] f \in {"headers", "json"} -> "keys"
    [] f = "verify_tls" -> "true"
    [] OTHER -> "text"
StepVaries ==
  \/ \E type \in STEP_TYPE_KEYS, shape \in Shape :
       definition = OneStep(Step({type}, Scalar(shape)))
  \/ \E type \in STEP_TYPE_KEYS :
     \E fs \in {s \in SUBSET FieldsOf(type) : Cardinality(s) \in 1 .. 3} :
     \E g \in fs, shape \in Shape :
       definition = OneStep(Step({type},
         Keys([f \in fs |-> IF f = g THEN shape ELSE RightShape(f)])))
  \/ \E types \in {{}, {"run", "notify"}} : definition = OneStep(Step(types, NoAction))
  \/ \E shape \in Shape :
       \/ definition = OneStep([Step({"run"}, NoAction) EXCEPT !.named = Scalar(shape)])
       \/ definition = OneStep([Step({"run"}, NoAction) EXCEPT !.env = Scalar(shape)])

(* Up to three steps with labels and written names that repeat. *)
Labelled ==
  {[PlainStep EXCEPT !.label = l] : l \in Names}
    \cup {[Step({"run"}, NoAction) EXCEPT !.named = Scalar("text"), !.title = t] : t \in Names}
NamesVary ==
  \E n \in 1 .. 3 : \E steps \in [1 .. n -> Labelled] :
    definition = Definition(<<Stage(<<"x">>, steps)>>)

StageVaries ==
  LET S == Stage(<<"x">>, <<PlainStep>>) IN
  \/ \E shape \in Shape : \E stage \in
         {[S EXCEPT !.name = Scalar(shape)], [S EXCEPT !.steps = Scalar(shape)],
          [S EXCEPT !.when = Scalar(shape)], [S EXCEPT !.runs_on = Scalar(shape)],
          [S EXCEPT !.artifacts = Scalar(shape)], [S EXCEPT !.env = Scalar(shape)]} :
       definition = Definition(<<stage>>)
  \/ \E title \in Names : definition = Definition(<<S, Stage(title, <<PlainStep>>)>>)

TopVaries ==
  LET D == OneStep(PlainStep) IN
  \/ \E shape \in Shape : definition \in
         {[D EXCEPT !.is = shape], [D EXCEPT !.env = Scalar(shape)],
          [D EXCEPT !.stages = Scalar(shape)], [D EXCEPT !.runs_on = Scalar(shape)],
          [D EXCEPT !.notifications = Scalar(shape)],
          [D EXCEPT !.notifications = Keys([e \in {"on_failure", "on_fixed"} |-> shape])],
          [D EXCEPT !.notifications = Keys([e \in {"on_fire"} |-> shape])]}
  \/ \E fs \in SUBSET {"os", "arch", "labels"}, s \in Shape, t \in Shape :
       definition = [D EXCEPT !.runs_on = Keys([f \in fs |-> IF f = "labels" THEN s ELSE t])]

CompilerInit ==
  /\ StepVaries \/ NamesVary \/ StageVaries \/ TopVaries
  /\ triggered = NotTriggered

CompilerSpec == CompilerInit /\ [][CompilerNext]_compilerVars

CompilerTypeOK ==
  triggered.status \in {"none", "refused", "failed", "error", "pending"}

-----------------------------------------------------------------------------
(* A label that is made up for a step never repeats another name of its     *)
(* stage, written or made up, before it or after it.                        *)
LabelsAreDistinct ==
  triggered.status = "pending" =>
    \A i \in DOMAIN triggered.stages :
      LET steps == triggered.stages[i].steps  source == definition.list[i].list IN
      \A j, k \in DOMAIN steps :
        j # k /\ ~NameGiven(source[j]) => steps[j].name # steps[k].name

(* A step that passes the server's checks is not turned down by the agent   *)
(* for what it says, but for what nobody checks.                            *)
ValidStepIsRunnable ==
  triggered.status = "pending" =>
    \A i \in DOMAIN triggered.stages : \A j \in DOMAIN triggered.stages[i].steps :
      LET step == triggered.stages[i].steps[j] IN
      NobodyChecks(step.step_type, step.config) \/ AgentAccepts(step.step_type, step.config)
=============================================================================
