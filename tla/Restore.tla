-------------------------------- MODULE Restore --------------------------------
(* apply_configuration: the configuration is made equal to a backup's, one  *)
(* statement after the other, in one transaction, while the database checks *)
(* unique values and foreign keys after each of them.  Nobody else writes   *)
(* configuration meanwhile.                                                 *)
(*                                                                          *)
(* Tables are numbered in the order of TABLES.  A row has a unique value    *)
(* (a name, an e-mail address in lower case, a passkey's credential), the   *)
(* rows it refers to, and a mark for what else the restore looks at: an     *)
(* administrator's flag, the scope of a role, whether an agent is connected.*)
EXTENDS Integers, FiniteSets

CONSTANTS
  TableCount,
  RowKeys, TableOf,  (* primary keys, and the table of each *)
  Refers,            (* Refers[t]: the tables that rows of t refer to *)
  Released,          (* the tables whose unique columns are strings *)
  UserTable, RoleTable, UserRoleTable, PasskeyTable, AgentTable,
  ServerState,       (* the keys of settings that a restore leaves alone *)
  NewKey,            (* a key of UserRoleTable that no row has *)
  AdminName,         (* of the role named admin *)
  Values, NoValue,
  Contents,          (* the rows that the server may have, and a backup hold *)
  Missing             (* instead of a row *)

TableNumbers == 1 .. TableCount
In(t) == {k \in RowKeys : TableOf[k] = t}
Here(D) == {k \in DOMAIN D : D[k] # Missing}
Marks == {"none", "admin", "global", "scoped", "online", "offline"}
Moving(k) == <<"~moving~", k>>
RestoreRows ==
  [value : Values \cup {NoValue} \cup {Moving(k) : k \in RowKeys}, to : SUBSET RowKeys,
   mark : Marks]

(* _is_leaf *)
Leaf(t) == \A u \in TableNumbers \ {t} : t \notin Refers[u]

(* What the database makes sure of. *)
UniqueValues(D) ==
  \A k, l \in Here(D) :
    TableOf[k] = TableOf[l] /\ D[k].value = D[l].value /\ D[k].value # NoValue => k = l
ForeignKeys(D) == \A k \in Here(D) : D[k].to \subseteq Here(D)
Sound(D) == UniqueValues(D) /\ ForeignKeys(D)

(* What the application makes sure of: a project's parent is chosen when it *)
(* is created and stays.                                                    *)
Tree(D) == \A S \in (SUBSET Here(D)) \ {{}} : \E k \in S : D[k].to \cap S = {}

(* Users and settings refer to nothing, only projects to their own table,   *)
(* and nothing to passkeys, roles given, agents or settings.  A unique      *)
(* column that is not a string is one of a leaf, and does not change.       *)
ASSUME RestoreAssumption ==
  /\ TableCount \in Nat /\ TableOf \in [RowKeys -> TableNumbers]
  /\ \A t \in TableNumbers : Refers[t] \subseteq 1 .. t
  /\ UserTable \in TableNumbers /\ RoleTable \in TableNumbers /\ UserTable # RoleTable
  /\ {UserRoleTable, PasskeyTable, AgentTable} \subseteq TableNumbers \ {UserTable, RoleTable}
  /\ UserRoleTable # PasskeyTable /\ AgentTable \notin {UserRoleTable, PasskeyTable}
  /\ UserTable \in Refers[PasskeyTable] /\ {UserTable, RoleTable} \subseteq Refers[UserRoleTable]
  /\ Refers[UserTable] = {}
  /\ \A t \in TableNumbers : Leaf(t) => t \notin Refers[t]
  /\ \A t \in {PasskeyTable, UserRoleTable} : Leaf(t)
  /\ \A k \in ServerState : Leaf(TableOf[k]) /\ Refers[TableOf[k]] = {}
  /\ ServerState \subseteq RowKeys \ (In(UserTable) \cup In(RoleTable) \cup In(PasskeyTable)
                                        \cup In(AgentTable) \cup {NewKey})
  /\ NewKey \in In(UserRoleTable)
  /\ NoValue \notin Values /\ AdminName \in Values
  /\ \A k \in RowKeys : Moving(k) \notin Values \cup {NoValue}
  /\ Missing \notin RestoreRows
  /\ \A D \in Contents :
       /\ D \in [RowKeys -> RestoreRows \cup {Missing}]
       /\ D[NewKey] = Missing
       /\ \A k \in Here(D) :
            /\ D[k].value \in Values \cup {NoValue}
            /\ \A l \in D[k].to : TableOf[l] \in Refers[TableOf[k]]
            /\ TableOf[k] \notin Released /\ ~Leaf(TableOf[k]) => D[k].value = NoValue
            /\ TableOf[k] \notin Released =>
                 \A E \in Contents : E[k] # Missing => E[k].value = D[k].value
            /\ TableOf[k] = UserRoleTable \/ k \in ServerState => D[k].value = NoValue

VARIABLES
  db,        (* the rows, as the transaction has them *)
  before,    (* the rows before the restore *)
  backup,    (* the rows in the file *)
  acting,    (* the administrator who restores *)
  wanted,    (* the rows there are to be *)
  phase, at, (* the loop, and its table *)
  written    (* the rows written so far *)

restoreVars == <<db, before, backup, acting, wanted, phase, at, written>>
given == <<before, backup, acting>>

-----------------------------------------------------------------------------
(* What is to be there *)

(* _keep_acting_admin: the account is known by its id, or else by its e-mail *)
(* address, or else it is added.  Its password is left out.                 *)
SameAddress == {u \in In(UserTable) \cap Here(backup) : backup[u].value = before[acting].value}
Account ==
  IF backup[acting] # Missing \/ SameAddress = {} THEN acting ELSE CHOOSE u \in SameAddress : TRUE
KeptAccount ==
  [(IF backup[Account] # Missing THEN backup ELSE before)[Account] EXCEPT !.mark = "admin"]

(* _keep_acting_admin_role: the global role named admin, if there is one.   *)
AdminRoles == {g \in In(RoleTable) \cap Here(backup) : backup[g].value = AdminName}
HoldsAdmin(D, u) ==
  \E k \in In(UserRoleTable) \cap Here(D), g \in AdminRoles :
    D[k].to = {u, g} /\ D[k].mark = "global"
NewRole == [value |-> NoValue, to |-> {Account} \cup AdminRoles, mark |-> "global"]

Own(k) == before[k] # Missing /\ acting \in before[k].to
Foreign(k, accounts) ==
  /\ ~Own(k) /\ backup[k] # Missing /\ accounts \cap backup[k].to = {}
  /\ \A l \in In(PasskeyTable) : Own(l) => before[l].value # backup[k].value

(* Mutant of KeptPasskey: of the backup's, only the ones of the id that     *)
(* restores are left out.                                                   *)
KeptPasskeyById(k) ==
  CASE Own(k) -> [before[k] EXCEPT !.to = {Account}]
    [] Foreign(k, {acting}) -> backup[k]
    [] OTHER -> Missing

(* _keep_acting_admin_two_step: the ones the administrator has now, none of *)
(* the backup's for the account, and of the others' none that are kept.     *)
KeptPasskey(k) ==
  CASE Own(k) -> [before[k] EXCEPT !.to = {Account}]
    [] Foreign(k, {acting, Account}) -> backup[k]
    [] OTHER -> Missing

(* _keep_agent_connections *)
KeptAgent(k) ==
  [backup[k] EXCEPT !.mark = IF before[k] # Missing THEN before[k].mark ELSE "offline"]

Wanted(k) ==
  CASE k \in ServerState -> Missing
    [] k = Account -> KeptAccount
    [] TableOf[k] = PasskeyTable -> KeptPasskey(k)
    [] TableOf[k] = AgentTable /\ backup[k] # Missing -> KeptAgent(k)
    [] k = NewKey /\ AdminRoles # {} /\ ~HoldsAdmin(backup, Account) -> NewRole
    [] OTHER -> backup[k]

(* The rows are decoded, and what is kept is put in. *)
Prepare ==
  /\ phase = "read" /\ phase' = "free"
  /\ wanted' = [k \in RowKeys |-> Wanted(k)]
  /\ UNCHANGED <<given, db, at, written>>

Doomed == {k \in Here(before) \ ServerState : wanted[k] = Missing}
Renamed == {k \in Here(before) \cap Here(wanted) : wanted[k].value # before[k].value}

-----------------------------------------------------------------------------
(* The statements *)

(* _release: a placeholder takes the place of a unique string.              *)
MakeWay(S) ==
  db' = [k \in RowKeys |-> IF k \in S /\ TableOf[k] \in Released
                           THEN [db[k] EXCEPT !.value = Moving(k)] ELSE db[k]]

(* _delete; the history that refers to the rows is detached before.         *)
DeleteRows(S) == db' = [k \in RowKeys |-> IF k \in S THEN Missing ELSE db[k]]

(* From the last table to the first, the ones that have rows of S.          *)
Have(S, t) == S \cap In(t) # {}
Downwards(p, S, t) ==
  /\ phase = p /\ t <= at /\ Have(S, t) /\ \A u \in t + 1 .. at : ~Have(S, u)
  /\ at' = t - 1
  /\ UNCHANGED <<given, wanted, phase, written>>
Passed(p, S) == phase = p /\ \A t \in 1 .. at : ~Have(S, t)

(* Mutant of FreeDoomed: no row is removed yet. *)
ReleaseDoomed(t) == Downwards("free", Doomed, t) /\ MakeWay(Doomed \cap In(t))

(* 1. Rows of tables that no other one refers to are removed, the others    *)
(* only give up their unique values.                                        *)
FreeDoomed(t) ==
  /\ Downwards("free", Doomed, t)
  /\ IF Leaf(t) THEN DeleteRows(Doomed \cap In(t)) ELSE MakeWay(Doomed \cap In(t))

Begins(p, t) == phase' = p /\ at' = t /\ UNCHANGED <<given, wanted, written>>

(* Mutant of FreeRenamed: rows that stay keep their names until they are    *)
(* written.                                                                 *)
FreeNothing == Passed("free", Doomed) /\ Begins("write", 0) /\ UNCHANGED db

FreeRenamed == Passed("free", Doomed) /\ Begins("write", 0) /\ MakeWay(Renamed)

(* 2. The rows, one at a time, table by table, and a row after the ones of  *)
(* its table that it refers to (_parents_first).  An update and an insert   *)
(* leave the same row.                                                      *)
Left == Here(wanted) \ written
WriteRow(k) ==
  /\ phase = "write" /\ k \in Left
  /\ \A l \in Left : TableOf[k] <= TableOf[l] /\ l \notin wanted[k].to
  /\ db' = [db EXCEPT ![k] = wanted[k]]
  /\ written' = written \cup {k}
  /\ UNCHANGED <<given, wanted, phase, at>>

AllWritten == phase = "write" /\ Left = {} /\ Begins("remove", TableCount) /\ UNCHANGED db

(* 3. What is left to remove, children first. *)
Remaining == {k \in Doomed : ~Leaf(TableOf[k])}
RemoveDoomed(t) == Downwards("remove", Remaining, t) /\ DeleteRows(Remaining \cap In(t))

RestoreNext ==
  \/ Prepare \/ FreeRenamed \/ AllWritten
  \/ \E t \in TableNumbers : FreeDoomed(t) \/ RemoveDoomed(t)
  \/ \E k \in RowKeys : WriteRow(k)

RestoreInit ==
  /\ before \in {D \in Contents : Sound(D) /\ Tree(D)}
  /\ backup \in {D \in Contents : Sound(D) /\ Tree(D)}
  /\ acting \in {u \in In(UserTable) \cap Here(before) : before[u].mark = "admin"}
  /\ db = before /\ wanted = backup /\ written = {}
  /\ phase = "read" /\ at = TableCount

RestoreSpec == RestoreInit /\ [][RestoreNext]_restoreVars

Databases == [RowKeys -> RestoreRows \cup {Missing}]
RestoreTypeOK ==
  /\ {db, before, backup, wanted} \subseteq Databases
  /\ acting \in In(UserTable) /\ written \subseteq RowKeys
  /\ phase \in {"read", "free", "write", "remove"} /\ at \in 0 .. TableCount

-----------------------------------------------------------------------------
(* No statement is refused: whatever the server has and the backup holds,   *)
(* names that change hands, rows that come, go or hang from others, unique  *)
(* values and foreign keys hold after each of them.                         *)
EveryStatementIsLegal == Sound(db)

Restored == Passed("remove", Remaining)

(* The administrator who restores is not locked out: their account is there, *)
(* known by its id or its address, an administrator by its flag and, if the *)
(* backup knows the role, by its role, and with exactly the passkeys they   *)
(* have, though the backup knows the account under another id or gives the  *)
(* passkeys to somebody else.                                               *)
PasskeysOf(D, u) == {D[p].value : p \in {q \in In(PasskeyTable) \cap Here(D) : u \in D[q].to}}
NotLockedOut ==
  Restored =>
    \E u \in In(UserTable) \cap Here(db) :
      /\ u = acting \/ db[u].value = before[acting].value
      /\ db[u].mark = "admin"
      /\ AdminRoles # {} => HoldsAdmin(db, u)
      /\ PasskeysOf(db, u) = PasskeysOf(before, acting)

(* In the end there is what the backup holds, and nothing else, but for the *)
(* administrator's own rows, the passkeys, and whether an agent is          *)
(* connected; and what describes the server is as it was.                   *)
RestoredIsTheBackup ==
  Restored =>
    /\ \A k \in ServerState : db[k] = before[k]
    /\ \A k \in RowKeys \ (ServerState \cup In(PasskeyTable) \cup {Account, NewKey}) :
         IF TableOf[k] = AgentTable /\ backup[k] # Missing
         THEN db[k] # Missing /\ [db[k] EXCEPT !.mark = "none"] = [backup[k] EXCEPT !.mark = "none"]
         ELSE db[k] = backup[k]
=============================================================================
