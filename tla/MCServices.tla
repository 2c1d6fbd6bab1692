------------------------------ MODULE MCServices ------------------------------
(* The constants of Services for TLC that a .cfg cannot write down.         *)
EXTENDS Services

CONSTANTS
  m1, x,    (* a manifest and a chunk *)
  (* what a restore may find and bring: users, passkeys, the role, who has  *)
  (* it, projects, a pipeline, an agent, a setting of the server; and names *)
  user1, user2, passkey1, passkey2, role, grant, new, project, child, pipeline, agent,
  setting, name1, name2

OneStepEach == [purpose \in {"verify", "setup", "register"} |-> 1]

(* A manifest has a layer of two chunks, and a config. *)
TheLayer == [m \in Manifests |-> {<<x, x>>}]
TheConfigs == [m \in Manifests |-> IF m = m1 THEN <<x>> ELSE <<>>]

(* The YAML names no event, or one destination under several. *)
TheBlocks ==
  {[e \in EventNames |-> {}],
   [e \in EventNames |->
      IF e \in {"on_start", "on_waiting", "on_fixed", "on_complete"}
      THEN Destinations ELSE {}]}

TheTables ==
  <<{user1, user2}, {passkey1, passkey2}, {role}, {grant, new}, {project, child}, {pipeline},
    {agent}, {setting}>>
TheRowKeys == UNION {TheTables[t] : t \in 1 .. 8}
TheTableOf == [k \in TheRowKeys |-> CHOOSE t \in 1 .. 8 : k \in TheTables[t]]
TheRefers == <<{}, {1}, {}, {1, 3}, {1, 5}, {5}, {}, {}>>

(* One or two users, of whom name1 is the administrator; the passkey as one *)
(* of two rows; and from nothing else to a full configuration, in which the *)
(* projects have one or the other name.                                     *)
Addresses == {f \in [{user1, user2} -> {NoValue, name1, name2}] : f[user1] # f[user2]}
Row(value, to, mark) == [value |-> value, to |-> to, mark |-> mark]
If(c, row) == IF c THEN row ELSE Missing
Configuration(address, keeper, size) ==
  LET creator == CHOOSE u \in {user1, user2} : address[u] # NoValue
      swapped == size = 3
  IN [k \in TheRowKeys |->
    CASE k \in {user1, user2} ->
           If(address[k] # NoValue,
              Row(address[k], {}, IF address[k] = name1 THEN "admin" ELSE "none"))
      [] k \in {passkey1, passkey2} ->
           If(k = keeper[1] /\ address[keeper[2]] # NoValue, Row(name1, {keeper[2]}, "none"))
      [] k = role -> If(size > 0, Row(AdminName, {}, "none"))
      [] k = grant -> If(size > 1 /\ address[user1] # NoValue,
                        Row(NoValue, {user1, role}, IF swapped THEN "scoped" ELSE "global"))
      [] k = project -> If(size > 0, Row(IF swapped THEN name2 ELSE name1, {creator}, "none"))
      [] k = child -> If(size > 1, Row(IF swapped THEN name1 ELSE name2, {project}, "none"))
      [] k = pipeline -> If(size = 2, Row(NoValue, {project}, "none"))
      [] k = agent -> If(size > 0, Row(name1, {}, IF size = 1 THEN "online" ELSE "offline"))
      [] k = setting -> If(size # 1, Row(NoValue, {}, "none"))
      [] OTHER -> Missing]
TheContents ==
  {Configuration(address, keeper, size) :
     address \in Addresses, size \in 0 .. 3,
     keeper \in {<<passkey1, user1>>, <<passkey1, user2>>, <<passkey2, user2>>}}
=============================================================================
