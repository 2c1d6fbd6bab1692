----------------------------- MODULE StepContract -----------------------------
(* What a step of a pipeline's YAML may say, on both sides: the checks of   *)
(* pipeline_compiler.py, in Python, before a build is made, and what the    *)
(* Go agent's handlers then ask of the step's config.                       *)
(*                                                                          *)
(* A value is known by its shape.  "text" is text of the form its field     *)
(* asks for and "odd" is not; "number" is a whole number in the field's     *)
(* range, "fraction" a number between whole ones, and "huge" is out of it;  *)
(* "texts", "numbers" and "others" are lists of texts, of numbers in range  *)
(* and of neither, "blanks" of spaces; "keys" is a mapping.                 *)
EXTENDS FiniteSets

Text == {"no text", "blank", "odd", "text"}
Number == {"zero", "number", "fraction", "huge"}
List == {"no items", "texts", "blanks", "numbers", "others"}
Mapping == {"no keys", "odd keys", "keys"}
Shape == {"null", "true"} \cup Text \cup Number \cup List \cup Mapping

(* Python's truth of a value, and of a field that may be missing. *)
Truthy(v) == v \notin {"null", "no text", "zero", "no items", "no keys"}
Given(c, f) == f \in DOMAIN c /\ Truthy(c[f])
Optional(c, f, shapes) == f \in DOMAIN c => c[f] \in shapes \cup {"null"}

(* isinstance(v, (int, float)) and v > 0: a YAML true is the number 1. *)
Positive == {"number", "fraction", "huge", "true"}

-----------------------------------------------------------------------------
(* The checks *)

(* The fields a step of each type must give, one of each set. *)
Needs ==
  [write_file |-> {{"path"}},
   copy_files |-> {{"source"}, {"destination"}},
   delete_files |-> {{"path", "paths"}},
   ai_agent |-> {{"prompt"}, {"api_key"}},
   docker_login |-> {},
   docker_build |-> {{"tags"}},
   docker_push |-> {{"tags", "image"}},
   git_clone |-> {{"repo"}},
   git_pull |-> {}, git_push |-> {}, wait_webhook |-> {}, wait_input |-> {},
   ssh_exec |-> {{"host"}, {"commands"}},
   kube_apply |-> {{"kubeconfig"}, {"manifests"}},
   notify |-> {{"channel"}, {"message"}},
   trigger_pipeline |-> {{"pipeline"}}]

MayBeNull == {"git_pull", "git_push", "wait_webhook", "wait_input"}
STEP_TYPE_KEYS == DOMAIN Needs \cup {"run", "http_request"}

(* Mutant of IsNumber: a YAML true counts as the number it is in Python. *)
NumberOrTrue == {"number", "fraction", "true"}

(* _is_number, with the bounds of the timeout. *)
IsNumber == {"number", "fraction"}

ValidHttpRequest(c) ==
  /\ DOMAIN c \subseteq {"url", "method", "headers", "json", "body", "timeout",
                         "retries", "expect_status", "verify_tls"}
  /\ "url" \in DOMAIN c /\ c["url"] = "text"
  /\ Optional(c, "method", {"text"})
  /\ Optional(c, "headers", {"no keys", "keys"})
  /\ ~({"json", "body"} \subseteq DOMAIN c)
  /\ "json" \in DOMAIN c => c["json"] \in Mapping \cup List
  /\ "body" \in DOMAIN c => c["body"] \in Text
  /\ Optional(c, "timeout", IsNumber)
  /\ Optional(c, "retries", {"zero", "number"})
  /\ Optional(c, "expect_status", {"number", "numbers"})
  /\ Optional(c, "verify_tls", {"true"})

(* A value is [is |-> its shape, has |-> the fields of a mapping]. *)
ValidAction(type, value) ==
  LET c == value.has IN
  CASE type = "run" -> value.is \in {"odd", "text"}
    [] type = "http_request" -> value.is \in Mapping /\ ValidHttpRequest(c)
    [] type \in MayBeNull -> value.is \in Mapping \cup {"null"}
    [] OTHER ->
         /\ value.is \in Mapping
         /\ \A fields \in Needs[type] : \E f \in fields : Given(c, f)
         /\ type = "write_file" => "content" \in DOMAIN c
         /\ type = "kube_apply" => c["manifests"] = "texts"
         /\ CASE type = "kube_apply" -> Optional(c, "timeout", Positive \ {"true"})
              [] type \in {"ai_agent", "trigger_pipeline"} ->
                   Optional(c, "timeout", Positive)
              [] OTHER -> TRUE

-----------------------------------------------------------------------------
(* The agent *)

(* configStr: anything that is there is printed, a null as "<nil>". *)
Printed(c, f) == f \in DOMAIN c /\ c[f] # "no text"
(* configStrList: only a list has items, and only its strings count. *)
Listed(c, f) == f \in DOMAIN c /\ c[f] \in {"texts", "blanks"}

AcceptsHttpRequest(c) ==
  /\ "url" \in DOMAIN c /\ c["url"] = "text"
  /\ Optional(c, "method", {"text"})
  /\ Optional(c, "headers", Mapping)
  /\ ~({"json", "body"} \subseteq DOMAIN c)
  /\ "json" \in DOMAIN c => c["json"] \in Mapping \cup List
  /\ "body" \in DOMAIN c => c["body"] \in Text
  /\ Optional(c, "timeout", {"number", "fraction"})
  /\ Optional(c, "retries", {"zero", "number"})
  /\ Optional(c, "expect_status", {"number", "numbers"})
  /\ Optional(c, "verify_tls", {"true"})

FileStepAccepts(type, c) ==
  CASE type = "write_file" -> Printed(c, "path")
    [] type = "copy_files" -> Printed(c, "source") /\ Printed(c, "destination")
    [] type = "delete_files" -> Printed(c, "path") \/ Listed(c, "paths")

AiAgentAccepts(c) == Printed(c, "prompt") /\ Printed(c, "api_key")
KubeApplyAccepts(c) == Printed(c, "kubeconfig") /\ Listed(c, "manifests")

(* The command that is put together has what it asks for. *)
CommandAccepts(type, c) ==
  CASE type = "docker_login" -> Printed(c, "username") /\ Printed(c, "password")
    [] type = "docker_push" -> Listed(c, "tags") \/ Printed(c, "image")
    [] type = "git_clone" -> Printed(c, "repo")
    [] type = "ssh_exec" -> Printed(c, "host") /\ Listed(c, "commands")
    [] OTHER -> TRUE

(* The handler of its type, or the command, accepts a step. *)
AgentAccepts(type, c) ==
  CASE type \in {"write_file", "copy_files", "delete_files"} -> FileStepAccepts(type, c)
    [] type = "ai_agent" -> AiAgentAccepts(c)
    [] type = "kube_apply" -> KubeApplyAccepts(c)
    [] type = "http_request" -> AcceptsHttpRequest(c)
    [] OTHER -> CommandAccepts(type, c)

(* What nobody checks: the credentials of a docker_login, and whether there *)
(* is a list of texts where one belongs.                                    *)
NobodyChecks(type, c) ==
  \/ type = "docker_login" /\ ~({"username", "password"} \subseteq {f \in DOMAIN c : Given(c, f)})
  \/ \E f \in {"tags", "commands", "paths"} \cap DOMAIN c : c[f] \notin {"texts", "blanks"}
=============================================================================
