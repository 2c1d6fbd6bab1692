---------------------------- MODULE RestoreProofs ---------------------------
(*****************************************************************************)
(* The statements of a restore are legal one by one, they end with the       *)
(* backup, and the administrator keeps a way in, for any tables, rows and    *)
(* backup.                                                                   *)
(*****************************************************************************)
EXTENDS Restore, FiniteSetTheorems, TLAPS

(* What the database looks like at every moment: a row that is not written  *)
(* yet is as it was, or has given up its unique value, or is gone.          *)
Moved(k) == [before[k] EXCEPT !.value = Moving(k)]
(* Where the statements before the first written row leave it.              *)
Freed(k) ==
  IF k \in Doomed /\ Leaf(TableOf[k]) THEN Missing
  ELSE IF k \in Doomed \cup Renamed /\ TableOf[k] \in Released THEN Moved(k)
  ELSE before[k]
(* And where it is now.                                                     *)
Now(k) ==
  IF k \in written THEN wanted[k]
  ELSE CASE phase = "read" -> before[k]
         [] phase = "free" -> IF k \in Doomed /\ TableOf[k] > at THEN Freed(k) ELSE before[k]
         [] phase = "write" -> Freed(k)
         [] OTHER -> IF k \in Remaining /\ TableOf[k] > at THEN Missing ELSE Freed(k)

(* What the restore starts from does not change and is sound.               *)
Sources ==
  /\ before \in Contents /\ backup \in Contents /\ Sound(before) /\ Sound(backup)
  /\ acting \in In(UserTable) \cap Here(before)
(* What is to be there is settled when the file is read.                    *)
Planned ==
  /\ phase = "read" => wanted = backup
  /\ phase # "read" => wanted = [k \in RowKeys |-> Wanted(k)]
(* A row is written after the rows it refers to.                            *)
Progress ==
  /\ phase \in {"read", "free"} => written = {}
  /\ phase \in {"read", "free", "write", "remove"} /\ at \in 0 .. TableCount
  /\ phase = "read" => at = TableCount
  /\ phase # "read" =>
       written \subseteq Here(wanted) /\ \A k \in written : wanted[k].to \subseteq written
  /\ phase = "remove" => written = Here(wanted)
(* The inductive invariant of a restore.                                    *)
RestoreInv ==
  Sources /\ Planned /\ Progress /\ db = [k \in RowKeys |-> Now(k)]

-----------------------------------------------------------------------------
(* A row of what the server may have or a backup hold. *)
LEMMA RowOfContents ==
  ASSUME NEW D \in Contents, NEW k \in RowKeys, D[k] # Missing
  PROVE  /\ D[k] \in RestoreRows /\ D[k].value \in Values \cup {NoValue}
         /\ k # NewKey /\ D[k].to \subseteq RowKeys
         /\ \A l \in D[k].to : TableOf[l] \in Refers[TableOf[k]]
         /\ TableOf[k] \notin Released /\ ~Leaf(TableOf[k]) => D[k].value = NoValue
         /\ TableOf[k] = UserRoleTable \/ k \in ServerState => D[k].value = NoValue
<1>1. D \in [RowKeys -> RestoreRows \cup {Missing}] /\ D[NewKey] = Missing
  BY RestoreAssumption
<1>2. k \in Here(D)
  BY <1>1 DEF Here
<1>3. D[k] \in RestoreRows
  BY <1>1
<1>4. D[k].to \subseteq RowKeys
  BY <1>3 DEF RestoreRows
<1> QED
  BY <1>1, <1>2, <1>3, <1>4, RestoreAssumption

(* Nothing refers to a leaf, and rows refer backwards in the order of the   *)
(* tables.                                                                  *)
LEMMA ReferredIsNoLeaf ==
  ASSUME NEW k \in RowKeys, NEW l \in RowKeys, TableOf[l] \in Refers[TableOf[k]]
  PROVE  /\ ~Leaf(TableOf[l]) /\ l \notin ServerState /\ k \notin ServerState
         /\ TableOf[l] # PasskeyTable /\ TableOf[l] # UserRoleTable
         /\ TableOf[l] <= TableOf[k]
<1>1. TableOf[k] \in TableNumbers /\ TableOf[l] \in TableNumbers
  BY RestoreAssumption
<1>2. TableOf[l] \in 1 .. TableOf[k]
  BY <1>1, RestoreAssumption
<1>3. ~Leaf(TableOf[l])
  <2>1. CASE TableOf[k] = TableOf[l]
    BY <1>1, <2>1, RestoreAssumption
  <2>2. CASE TableOf[k] # TableOf[l]
    BY <1>1, <2>2 DEF Leaf
  <2> QED BY <2>1, <2>2
<1>4. l \notin ServerState /\ k \notin ServerState
  BY <1>3, RestoreAssumption
<1>5. TableOf[l] # PasskeyTable /\ TableOf[l] # UserRoleTable
  BY <1>3, RestoreAssumption
<1> QED
  BY <1>1, <1>2, <1>3, <1>4, <1>5 DEF TableNumbers

(* The account is a user's; no other row of the backup has its address; and *)
(* it is the one that restores or has that one's address.                   *)
LEMMA AccountIsSound ==
  ASSUME Sources
  PROVE  /\ Account \in In(UserTable) /\ Account \notin ServerState
         /\ KeptAccount \in RestoreRows
         /\ KeptAccount # Missing /\ KeptAccount.to = {} /\ KeptAccount.mark = "admin"
         /\ KeptAccount.value \in Values \cup {NoValue}
         /\ \A u \in In(UserTable) \cap Here(backup) :
              backup[u].value = KeptAccount.value /\ KeptAccount.value # NoValue => u = Account
         /\ Account = acting \/ KeptAccount.value = before[acting].value
         /\ \A D \in Contents :
              D[Account] # Missing /\ TableOf[Account] \notin Released =>
                D[Account].value = KeptAccount.value
<1> USE DEF Sources
<1>1. acting \in RowKeys /\ before[acting] # Missing /\ TableOf[acting] = UserTable
  BY DEF In, Here
<1>2. \/ backup[acting] # Missing /\ Account = acting
      \/ backup[acting] = Missing /\ SameAddress = {} /\ Account = acting
      \/ backup[acting] = Missing /\ Account \in SameAddress
  BY DEF Account
<1>3. SameAddress \subseteq In(UserTable) \cap Here(backup)
  BY DEF SameAddress
<1>4. Account \in In(UserTable) /\ Account \in RowKeys
  BY <1>2, <1>3 DEF In
<1>5. DOMAIN backup = RowKeys /\ DOMAIN before = RowKeys
  BY RestoreAssumption
<1>6. PICK D \in Contents :
        /\ D[Account] # Missing /\ KeptAccount = [D[Account] EXCEPT !.mark = "admin"]
        /\ D = IF backup[Account] # Missing THEN backup ELSE before
  <2>1. CASE backup[Account] # Missing
    BY <2>1 DEF KeptAccount
  <2>2. CASE backup[Account] = Missing
    <3>1. Account = acting
      BY <1>2, <1>3, <2>2 DEF Here
    <3> QED BY <1>1, <2>2, <3>1 DEF KeptAccount
  <2> QED BY <2>1, <2>2
<1>7. D[Account] \in RestoreRows /\ \A l \in D[Account].to : TableOf[l] \in Refers[UserTable]
  BY <1>4, <1>6, RowOfContents DEF In
<1>8. KeptAccount \in RestoreRows /\ KeptAccount.to = D[Account].to
      /\ KeptAccount.value = D[Account].value /\ KeptAccount.mark = "admin"
  BY <1>6, <1>7 DEF RestoreRows, Marks
<1>9. KeptAccount.to = {}
  BY <1>7, <1>8, RestoreAssumption
<1>10. KeptAccount # Missing /\ Account \notin ServerState
  BY <1>4, <1>8, RestoreAssumption
<1>11. ASSUME NEW u \in In(UserTable) \cap Here(backup), backup[u].value = KeptAccount.value,
              KeptAccount.value # NoValue
       PROVE  u = Account
  <2>1. CASE backup[Account] # Missing
    BY <1>4, <1>5, <1>6, <1>8, <1>11, <2>1 DEF Sound, UniqueValues, Here, In
  <2>2. CASE backup[Account] = Missing
    <3>1. Account = acting /\ SameAddress = {}
      BY <1>2, <1>3, <2>2 DEF Here
    <3> QED BY <1>6, <1>8, <1>11, <2>2, <3>1 DEF SameAddress
  <2> QED BY <2>1, <2>2
<1>12. Account = acting \/ KeptAccount.value = before[acting].value
  BY <1>2, <1>3, <1>6, <1>8 DEF SameAddress, Here
<1>13. ASSUME NEW E \in Contents, E[Account] # Missing, TableOf[Account] \notin Released
       PROVE  E[Account].value = KeptAccount.value
  <2>1. Account \in Here(D)
    BY <1>4, <1>6, RestoreAssumption DEF Here
  <2> QED BY <1>4, <1>6, <1>8, <1>13, <2>1, RestoreAssumption
<1>14. KeptAccount.value \in Values \cup {NoValue}
  BY <1>4, <1>6, <1>8, RowOfContents
<1> QED
  BY <1>4, <1>8, <1>9, <1>10, <1>11, <1>12, <1>13, <1>14

(* The cases of Wanted exclude each other. *)
WantedRowKinds(k) ==
  /\ k \in ServerState =>
       k # Account /\ TableOf[k] \notin {PasskeyTable, AgentTable} /\ k # NewKey
  /\ k = Account => TableOf[k] \notin {PasskeyTable, AgentTable} /\ k # NewKey
  /\ TableOf[k] = PasskeyTable => TableOf[k] # AgentTable /\ k # NewKey
  /\ TableOf[k] = AgentTable => k # NewKey
(* They do.                                                                 *)
LEMMA KindsAreApart ==
  ASSUME Sources, NEW k \in RowKeys
  PROVE  WantedRowKinds(k)
<1>1. Account \in In(UserTable) /\ Account \notin ServerState
  BY AccountIsSound
<1> QED
  BY <1>1, RestoreAssumption DEF WantedRowKinds, In

(* A row of the backup that is not its server's and no passkey is wanted.   *)
LEMMA BackupRowIsWanted ==
  ASSUME Sources, NEW k \in RowKeys, backup[k] # Missing, k \notin ServerState,
         TableOf[k] # PasskeyTable
  PROVE  Wanted(k) # Missing
<1>1. KeptAccount # Missing /\ Account \in In(UserTable)
  BY AccountIsSound
<1>2. TableOf[k] = AgentTable => KeptAgent(k) # Missing
  <2>1. backup[k] \in RestoreRows /\ backup \in Contents
    BY RowOfContents DEF Sources
  <2>2. KeptAgent(k) \in RestoreRows
    <3>1. before[k] # Missing => before[k].mark \in Marks
      BY RowOfContents DEF Sources, RestoreRows
    <3> QED BY <2>1, <3>1 DEF KeptAgent, RestoreRows, Marks
  <2> QED BY <2>2, RestoreAssumption
<1>3. k # NewKey
  BY RowOfContents DEF Sources
<1> QED
  BY <1>1, <1>2, <1>3 DEF Wanted

(* A row that is wanted, by where it comes from. *)
LEMMA WantedRow ==
  ASSUME Sources, NEW k \in RowKeys, Wanted(k) # Missing
  PROVE  /\ k \notin ServerState
         /\ \/ /\ k = Account /\ Wanted(k) = KeptAccount
            \/ /\ TableOf[k] = PasskeyTable /\ Own(k)
               /\ Wanted(k) = [before[k] EXCEPT !.to = {Account}]
            \/ /\ TableOf[k] = PasskeyTable /\ Foreign(k, {acting, Account})
               /\ Wanted(k) = backup[k] /\ backup[k] # Missing
            \/ /\ TableOf[k] = AgentTable /\ backup[k] # Missing
               /\ Wanted(k) = KeptAgent(k)
            \/ k = NewKey /\ Wanted(k) = NewRole
            \/ /\ k # Account /\ TableOf[k] # PasskeyTable /\ TableOf[k] # AgentTable
               /\ Wanted(k) = backup[k] /\ backup[k] # Missing
<1>0. WantedRowKinds(k)
  BY KindsAreApart
<1>1. k \notin ServerState
  BY <1>0 DEF WantedRowKinds, Wanted
<1>2. CASE TableOf[k] = PasskeyTable /\ k # Account
  <2>1. Wanted(k) = KeptPasskey(k)
    BY <1>0, <1>1, <1>2 DEF WantedRowKinds, Wanted
  <2> QED BY <1>1, <1>2, <2>1 DEF KeptPasskey, Foreign
<1>3. CASE TableOf[k] # PasskeyTable \/ k = Account
  BY <1>0, <1>1, <1>3 DEF WantedRowKinds, Wanted
<1> QED BY <1>1, <1>2, <1>3

(* Its value, the rows it refers to, and the value it had, unless its table *)
(* is one whose unique values are released.                                 *)
LEMMA WantedRowIsSound ==
  ASSUME Sources, NEW k \in RowKeys, Wanted(k) # Missing
  PROVE  /\ Wanted(k).value \in Values \cup {NoValue}
         /\ Wanted(k).to \subseteq RowKeys
         /\ \A l \in Wanted(k).to :
              TableOf[l] \in Refers[TableOf[k]] /\ Wanted(l) # Missing
         /\ before[k] # Missing /\ TableOf[k] \notin Released =>
              Wanted(k).value = before[k].value
         /\ TableOf[k] = AgentTable => Wanted(k).value = backup[k].value
<1> USE DEF Sources
<1>1. /\ Account \in RowKeys /\ TableOf[Account] = UserTable /\ Wanted(Account) = KeptAccount
      /\ KeptAccount # Missing
  BY AccountIsSound, KindsAreApart DEF WantedRowKinds, Wanted, In
<1>2. ASSUME backup[k] # Missing
      PROVE  /\ backup[k] \in RestoreRows /\ backup[k].value \in Values \cup {NoValue}
             /\ backup[k].to \subseteq RowKeys
             /\ \A l \in backup[k].to :
                  TableOf[l] \in Refers[TableOf[k]] /\ Wanted(l) # Missing
             /\ before[k] # Missing /\ TableOf[k] \notin Released =>
                  backup[k].value = before[k].value
  <2>1. k \in Here(backup) /\ DOMAIN backup = RowKeys
    BY <1>2, RestoreAssumption DEF Here
  <2>2. before[k] # Missing /\ TableOf[k] \notin Released => backup[k].value = before[k].value
    BY <2>1, RestoreAssumption
  <2>3. ASSUME NEW l \in backup[k].to PROVE Wanted(l) # Missing
    <3>1. l \in Here(backup)
      BY <2>1, <2>3 DEF Sound, ForeignKeys
    <3>2. l \in RowKeys /\ backup[l] # Missing
      BY <2>1, <3>1 DEF Here
    <3>3. TableOf[l] \in Refers[TableOf[k]]
      BY <1>2, <2>3, RowOfContents
    <3> QED BY <3>2, <3>3, ReferredIsNoLeaf, BackupRowIsWanted
  <2> QED BY <1>2, <2>2, <2>3, RowOfContents
<1>3. CASE k = Account /\ Wanted(k) = KeptAccount
  <2>1. before[k] # Missing /\ TableOf[k] \notin Released => KeptAccount.value = before[k].value
    BY <1>3, AccountIsSound
  <2> QED BY <1>1, <1>3, <2>1, AccountIsSound, RestoreAssumption
<1>4. CASE TableOf[k] = PasskeyTable /\ Own(k) /\ Wanted(k) = [before[k] EXCEPT !.to = {Account}]
  <2>1. before[k] \in RestoreRows /\ before[k].value \in Values \cup {NoValue}
    BY <1>4, RowOfContents DEF Own
  <2>2. Wanted(k).value = before[k].value /\ Wanted(k).to = {Account}
    BY <1>4, <2>1 DEF RestoreRows
  <2>3. UserTable \in Refers[PasskeyTable] /\ PasskeyTable # AgentTable
    BY RestoreAssumption
  <2> QED BY <1>1, <1>4, <2>1, <2>2, <2>3
<1>5. CASE Wanted(k) = backup[k] /\ backup[k] # Missing
  BY <1>2, <1>5
<1>6. CASE TableOf[k] = AgentTable /\ backup[k] # Missing /\ Wanted(k) = KeptAgent(k)
  <2>1. Wanted(k).value = backup[k].value /\ Wanted(k).to = backup[k].to
    BY <1>2, <1>6 DEF KeptAgent, RestoreRows
  <2> QED BY <1>2, <1>6, <2>1
<1>7. CASE k = NewKey /\ Wanted(k) = NewRole
  <2>1. NewRole.value = NoValue /\ NewRole.to = {Account} \cup AdminRoles
    BY DEF NewRole
  <2>2. TableOf[k] = UserRoleTable /\ UserRoleTable # AgentTable
        /\ {UserTable, RoleTable} \subseteq Refers[UserRoleTable]
    BY <1>7, RestoreAssumption DEF In
  <2>3. ASSUME NEW g \in AdminRoles
        PROVE  g \in RowKeys /\ TableOf[g] = RoleTable /\ Wanted(g) # Missing
    <3>1. g \in RowKeys /\ TableOf[g] = RoleTable /\ backup[g] # Missing
      BY <2>3 DEF AdminRoles, In, Here
    <3>2. TableOf[g] \in Refers[TableOf[k]]
      BY <2>2, <3>1
    <3> QED BY <3>1, <3>2, ReferredIsNoLeaf, BackupRowIsWanted
  <2>4. before[k] = Missing
    BY <1>7, RestoreAssumption
  <2> QED BY <1>1, <1>7, <2>1, <2>2, <2>3, <2>4
<1> QED
  BY <1>3, <1>4, <1>5, <1>6, <1>7, WantedRow

(* Unique values and foreign keys hold in what there is to be. *)
LEMMA WantedIsUnique ==
  ASSUME Sources, NEW k \in RowKeys, NEW l \in RowKeys, Wanted(k) # Missing, Wanted(l) # Missing,
         TableOf[k] = TableOf[l], Wanted(k).value = Wanted(l).value, Wanted(k).value # NoValue
  PROVE  k = l
<1> USE DEF Sources
<1>1. DOMAIN backup = RowKeys /\ DOMAIN before = RowKeys
  BY RestoreAssumption
<1>2. /\ UserTable \notin {PasskeyTable, AgentTable, UserRoleTable}
      /\ PasskeyTable \notin {AgentTable, UserRoleTable} /\ AgentTable # UserRoleTable
      /\ TableOf[NewKey] = UserRoleTable /\ TableOf[Account] = UserTable
  BY AccountIsSound, RestoreAssumption DEF In
<1>3. ASSUME backup[k] # Missing, backup[l] # Missing, backup[k].value = backup[l].value,
             backup[k].value # NoValue
      PROVE  k = l
  BY <1>1, <1>3 DEF Sound, UniqueValues, Here
<1>4. CASE TableOf[k] = UserTable
  <2>1. ASSUME NEW u \in RowKeys, TableOf[u] = UserTable, Wanted(u) # Missing
        PROVE  \/ u = Account /\ Wanted(u) = KeptAccount
               \/ /\ u \in In(UserTable) \cap Here(backup) /\ Wanted(u) = backup[u]
                  /\ backup[u] # Missing
    BY <1>1, <1>2, <2>1, WantedRow DEF In, Here
  <2> QED BY <1>3, <1>4, <2>1, AccountIsSound
<1>5. CASE TableOf[k] = PasskeyTable
  <2>1. ASSUME NEW p \in RowKeys, TableOf[p] = PasskeyTable, Wanted(p) # Missing
        PROVE  \/ Own(p) /\ Wanted(p).value = before[p].value
               \/ /\ Foreign(p, {acting, Account}) /\ Wanted(p) = backup[p]
                  /\ backup[p] # Missing
    <3>1. Own(p) => before[p] \in RestoreRows
      BY <2>1, RowOfContents DEF Own
    <3> QED BY <1>2, <2>1, <3>1, WantedRow DEF RestoreRows
  <2>2. CASE Own(k) /\ Own(l) /\ Wanted(k).value = before[k].value
             /\ Wanted(l).value = before[l].value
    BY <1>1, <2>2 DEF Own, Sound, UniqueValues, Here
  <2>3. ASSUME NEW p \in RowKeys, NEW q \in RowKeys, TableOf[p] = PasskeyTable, Own(p),
               Foreign(q, {acting, Account}), before[p].value = backup[q].value
        PROVE  FALSE
    BY <2>3 DEF Foreign, In
  <2> QED BY <1>3, <1>5, <2>1, <2>2, <2>3
<1>6. CASE TableOf[k] = AgentTable
  <2>1. backup[k] # Missing /\ backup[l] # Missing
    BY <1>2, <1>6, WantedRow
  <2> QED BY <1>3, <1>6, <2>1, WantedRowIsSound
<1>7. CASE TableOf[k] = UserRoleTable
  <2>1. Wanted(k) = NewRole \/ (Wanted(k) = backup[k] /\ backup[k] # Missing)
    BY <1>2, <1>7, WantedRow
  <2>2. Wanted(k).value = NoValue
    BY <1>7, <2>1, RowOfContents DEF NewRole
  <2> QED BY <2>2
<1>8. CASE TableOf[k] \notin {UserTable, PasskeyTable, AgentTable, UserRoleTable}
  BY <1>2, <1>3, <1>8, WantedRow
<1> QED
  BY <1>4, <1>5, <1>6, <1>7, <1>8

(* While the restore runs, the rows that are wanted stay the same ones. *)
LEMMA WantedStays ==
  ASSUME UNCHANGED given, NEW k \in RowKeys
  PROVE  Wanted(k)' = Wanted(k)
<1> USE DEF given
<1>1. SameAddress' = SameAddress
  BY DEF SameAddress, Here, In
<1>2. Account' = Account
  BY <1>1 DEF Account
<1>3. KeptAccount' = KeptAccount
  BY <1>2 DEF KeptAccount
<1>4. AdminRoles' = AdminRoles
  BY DEF AdminRoles, Here, In
<1>5. HoldsAdmin(backup, Account)' = HoldsAdmin(backup, Account)
  BY <1>2, <1>4 DEF HoldsAdmin, Here, In
<1>6. NewRole' = NewRole
  BY <1>2, <1>4 DEF NewRole
<1>7. Own(k)' = Own(k) /\ Foreign(k, {acting, Account})' = Foreign(k, {acting, Account})
  BY <1>2 DEF Own, Foreign, In
<1>8. KeptPasskey(k)' = KeptPasskey(k)
  BY <1>2, <1>7 DEF KeptPasskey
<1>9. KeptAgent(k)' = KeptAgent(k)
  BY DEF KeptAgent
<1> QED
  BY <1>2, <1>3, <1>4, <1>5, <1>6, <1>8, <1>9 DEF Wanted

(* What the restore starts from stays.                                      *)
LEMMA SourcesStay ==
  ASSUME Sources, UNCHANGED given PROVE Sources'
BY DEF Sources, given, Sound, UniqueValues, ForeignKeys, In, Here

(* And so does what it is to bring about.                                   *)
LEMMA PlanStays ==
  ASSUME Planned, UNCHANGED <<given, wanted>>, phase # "read", phase' # "read"
  PROVE Planned'
<1>1. \A k \in RowKeys : Wanted(k)' = Wanted(k)
  BY WantedStays
<1> QED BY <1>1 DEF Planned

(* What is to be removed and renamed, and a row on the way. *)
LEMMA PlanSays ==
  ASSUME Sources, Planned, phase # "read"
  PROVE  /\ \A k \in RowKeys : wanted[k] = Wanted(k)
         /\ Here(wanted) = {k \in RowKeys : Wanted(k) # Missing}
         /\ Here(before) = {k \in RowKeys : before[k] # Missing}
         /\ Doomed = {k \in RowKeys : before[k] # Missing /\ wanted[k] = Missing}
                       \ ServerState
         /\ Renamed = {k \in RowKeys : /\ before[k] # Missing /\ wanted[k] # Missing
                                       /\ wanted[k].value # before[k].value}
         /\ \A k \in Renamed : TableOf[k] \in Released
         /\ \A k \in ServerState : k \in RowKeys => wanted[k] = Missing
<1>1. wanted = [k \in RowKeys |-> Wanted(k)]
  BY DEF Planned
<1>2. DOMAIN before = RowKeys
  BY RestoreAssumption DEF Sources
<1>3. /\ Here(wanted) = {k \in RowKeys : Wanted(k) # Missing}
      /\ Here(before) = {k \in RowKeys : before[k] # Missing}
  BY <1>1, <1>2 DEF Here
<1>4. /\ Doomed = {k \in RowKeys : before[k] # Missing /\ wanted[k] = Missing} \ ServerState
      /\ Renamed = {k \in RowKeys : /\ before[k] # Missing /\ wanted[k] # Missing
                                    /\ wanted[k].value # before[k].value}
  BY <1>1, <1>3 DEF Doomed, Renamed
<1>5. \A k \in Renamed : TableOf[k] \in Released
  BY <1>1, <1>4, WantedRowIsSound
<1>6. \A k \in ServerState : k \in RowKeys => wanted[k] = Missing
  BY <1>1, WantedRow
<1> QED
  BY <1>1, <1>3, <1>4, <1>5, <1>6

(* A row that has given up its unique value refers to what it referred to.  *)
LEMMA MovedRow ==
  ASSUME Sources, NEW k \in RowKeys, before[k] # Missing
  PROVE  Moved(k) # Missing /\ Moved(k).value = Moving(k) /\ Moved(k).to = before[k].to
<1>1. before[k] \in RestoreRows
  BY RowOfContents DEF Sources
<1>2. Moved(k) \in RestoreRows /\ Moved(k).value = Moving(k) /\ Moved(k).to = before[k].to
  BY <1>1 DEF Moved, RestoreRows
<1> QED BY <1>2, RestoreAssumption

(* The shape of the database in the middle of the restore: what is written  *)
(* is what is wanted, the rest is as it was or has given way, and no unique *)
(* value is there twice.                                                    *)
LEMMA ValuesStayUnique ==
  ASSUME Sources, Planned, phase # "read", written \subseteq Here(wanted), NEW D,
         DOMAIN D = RowKeys,
         \A k \in RowKeys : \/ D[k] = Missing
                            \/ k \in written /\ D[k] = wanted[k]
                            \/ k \notin written /\ D[k] = Freed(k)
                            \/ written = {} /\ D[k] = before[k]
  PROVE  UniqueValues(D)
<1> SUFFICES ASSUME NEW k \in RowKeys, NEW l \in RowKeys, D[k] # Missing, D[l] # Missing,
                    TableOf[k] = TableOf[l], D[k].value = D[l].value, D[k].value # NoValue
             PROVE  k = l
  BY DEF UniqueValues, Here
<1> USE PlanSays
<1>1. \A p \in RowKeys : before[p] # Missing => before[p].value \in Values \cup {NoValue}
  BY RowOfContents DEF Sources
<1>2. \A p \in RowKeys : wanted[p] # Missing => wanted[p].value \in Values \cup {NoValue}
  BY WantedRowIsSound
<1>3. \A p \in RowKeys : Moving(p) \notin Values \cup {NoValue}
  BY RestoreAssumption
<1>4. ASSUME NEW p \in RowKeys, D[p] # Missing, p \notin written
      PROVE  /\ before[p] # Missing
             /\ D[p].value = before[p].value \/ D[p].value = Moving(p)
  BY <1>4, MovedRow DEF Freed
<1>5. CASE k \in written /\ l \in written
  <2>1. Wanted(k) # Missing /\ Wanted(l) # Missing /\ Wanted(k).value = Wanted(l).value
        /\ Wanted(k).value # NoValue
    BY <1>5
  <2> QED BY <2>1, WantedIsUnique
<1>6. CASE k \notin written /\ l \notin written
  <2>1. Moving(k) = Moving(l) => k = l
    BY DEF Moving
  <2>2. CASE D[k].value = before[k].value /\ D[l].value = before[l].value
    <3>1. k \in Here(before) /\ l \in Here(before)
      BY <1>4, <1>6
    <3> QED BY <2>2, <3>1 DEF Sources, Sound, UniqueValues
  <2> QED BY <1>1, <1>3, <1>4, <1>6, <2>1, <2>2
<1>7. ASSUME NEW p \in RowKeys, NEW q \in RowKeys, p \in written, q \notin written,
             TableOf[p] = TableOf[q], D[p] # Missing, D[q] # Missing,
             D[p].value = D[q].value, D[p].value # NoValue
      PROVE  FALSE
  <2>1. D[p] = wanted[p] /\ wanted[p] # Missing /\ D[q] = Freed(q) /\ before[q] # Missing
    BY <1>4, <1>7
  <2>2. Freed(q) = before[q] /\ before[q].value = wanted[p].value
        /\ before[q].value # NoValue
        /\ ~(q \in Doomed \cup Renamed /\ TableOf[q] \in Released)
        /\ ~(q \in Doomed /\ Leaf(TableOf[q]))
    BY <1>2, <1>3, <1>7, <2>1, MovedRow DEF Freed
  <2>3. q \notin ServerState /\ (q \in Doomed => FALSE)
    BY <2>1, <2>2, RowOfContents DEF Sources
  <2>4. wanted[q] # Missing /\ wanted[q].value = before[q].value
    BY <2>1, <2>2, <2>3
  <2>5. p = q
    BY <1>7, <2>1, <2>2, <2>4, WantedIsUnique
  <2> QED BY <1>7, <2>5
<1> QED
  BY <1>5, <1>6, <1>7

(* The invariant implies that no statement is refused. *)
LEMMA InvariantIsLegal ==
  ASSUME RestoreInv
  PROVE  EveryStatementIsLegal
<1> USE DEF RestoreInv
<1>1. CASE phase = "read"
  <2>1. DOMAIN before = RowKeys /\ before \in [RowKeys -> RestoreRows \cup {Missing}]
    BY RestoreAssumption DEF Sources
  <2>2. \A k \in RowKeys : Now(k) = before[k]
    BY <1>1 DEF Now, Progress
  <2>3. db = before
    BY <2>1, <2>2
  <2> QED BY <2>3 DEF EveryStatementIsLegal, Sources
<1>2. CASE phase # "read"
  <2>1. /\ written \subseteq Here(wanted) /\ \A k \in written : wanted[k].to \subseteq written
        /\ phase \in {"free", "write", "remove"}
        /\ phase = "free" => written = {}
        /\ phase = "remove" => written = Here(wanted)
        /\ at \in 0 .. TableCount
    BY <1>2 DEF Progress
  <2>2. DOMAIN db = RowKeys /\ \A k \in RowKeys : db[k] = Now(k)
    OBVIOUS
  <2>3. ASSUME NEW k \in RowKeys, k \notin written
        PROVE  /\ db[k] \in {Missing, Freed(k)} \/ (db[k] = before[k] /\ written = {})
               /\ phase # "remove" => db[k] \in {before[k], Freed(k)}
               /\ phase = "remove" =>
                    db[k] = IF k \in Remaining /\ TableOf[k] > at THEN Missing ELSE Freed(k)
    <3>1. db[k] = Now(k)
      BY <2>2
    <3>2. CASE phase = "free"
      BY <2>1, <2>3, <3>1, <3>2 DEF Now
    <3>3. CASE phase = "write"
      BY <2>3, <3>1, <3>3 DEF Now
    <3>4. CASE phase = "remove"
      BY <2>3, <3>1, <3>4 DEF Now
    <3> QED BY <2>1, <3>2, <3>3, <3>4
  <2>4. \A k \in written : db[k] = wanted[k] /\ k \in RowKeys
    BY <1>2, <2>1, <2>2, PlanSays DEF Now
  <2>5. UniqueValues(db)
    <3>1. \A k \in RowKeys : \/ db[k] = Missing
                             \/ k \in written /\ db[k] = wanted[k]
                             \/ k \notin written /\ db[k] = Freed(k)
                             \/ written = {} /\ db[k] = before[k]
      BY <2>1, <2>3, <2>4
    <3> QED BY <1>2, <2>1, <2>2, <3>1, ValuesStayUnique
  <2>6. ASSUME NEW k \in RowKeys, db[k] # Missing, NEW l \in db[k].to
        PROVE  l \in RowKeys /\ db[l] # Missing
    <3> USE <1>2, PlanSays
    <3>1. CASE k \in written
      <4>1. db[k] = wanted[k] /\ l \in written
        BY <2>1, <2>2, <2>6, <3>1 DEF Now
      <4>2. l \in RowKeys /\ wanted[l] # Missing /\ db[l] = wanted[l]
        BY <2>1, <2>2, <4>1 DEF Now
      <4> QED BY <4>2
    <3>2. CASE k \notin written
      <4>1. db[k] # Missing /\ (db[k] = Freed(k) \/ db[k] = before[k])
        BY <2>1, <2>6, <2>3, <3>2
      <4>2. before[k] # Missing /\ db[k].to = before[k].to
        BY <4>1, MovedRow DEF Freed
      <4>3. l \in RowKeys /\ before[l] # Missing /\ TableOf[l] \in Refers[TableOf[k]]
        <5>1. l \in Here(before)
          BY <2>6, <4>2 DEF Sources, Sound, ForeignKeys
        <5> QED BY <2>6, <4>2, <5>1, RowOfContents DEF Sources
      <4>4. ~Leaf(TableOf[l]) /\ TableOf[l] <= TableOf[k] /\ k \notin ServerState
        BY <4>3, ReferredIsNoLeaf
      <4>5. Freed(l) # Missing
        BY <4>3, <4>4, MovedRow DEF Freed
      <4>6. CASE l \in written
        BY <2>1, <2>2, <4>3, <4>6 DEF Now
      <4>7. CASE l \notin written /\ phase # "remove"
        BY <2>1, <2>3, <4>3, <4>5, <4>7
      <4>8. CASE l \notin written /\ phase = "remove"
        <5>1. wanted[k] = Missing /\ k \in Doomed
          BY <2>1, <3>2, <4>2, <4>4, <4>8
        <5>2. db[k] = IF k \in Remaining /\ TableOf[k] > at THEN Missing ELSE Freed(k)
          BY <2>3, <2>6, <3>2, <4>8
        <5>3. k \in Remaining /\ ~(TableOf[k] > at)
          BY <2>6, <5>1, <5>2 DEF Freed, Remaining
        <5>4. ~(TableOf[l] > at)
          BY <2>1, <4>3, <4>4, <5>3, RestoreAssumption DEF TableNumbers
        <5> QED BY <2>3, <4>3, <4>5, <4>8, <5>4
      <4> QED BY <4>6, <4>7, <4>8
    <3> QED BY <3>1, <3>2
  <2>7. ForeignKeys(db)
    BY <2>2, <2>6 DEF ForeignKeys, Here
  <2> QED BY <2>5, <2>7 DEF EveryStatementIsLegal, Sound
<1> QED BY <1>1, <1>2

-----------------------------------------------------------------------------
(* The invariant holds at the start.                                        *)
LEMMA RestoreStart == RestoreInit => RestoreInv
<1> SUFFICES ASSUME RestoreInit PROVE RestoreInv
  OBVIOUS
<1>1. Sources /\ Planned /\ Progress
  BY RestoreAssumption DEF RestoreInit, Sources, Planned, Progress, In, Here
<1>2. before \in [RowKeys -> RestoreRows \cup {Missing}]
  BY RestoreAssumption DEF RestoreInit
<1>3. \A k \in RowKeys : Now(k) = before[k]
  BY DEF RestoreInit, Now
<1> QED
  BY <1>1, <1>2, <1>3 DEF RestoreInit, RestoreInv

(* What the plan says of a row stays while the plan does. *)
LEMMA FreedStays ==
  ASSUME UNCHANGED <<given, wanted>>
  PROVE  /\ Doomed' = Doomed /\ Renamed' = Renamed /\ Remaining' = Remaining
         /\ Here(wanted)' = Here(wanted)
         /\ \A k \in RowKeys : Freed(k)' = Freed(k)
<1>1. Doomed' = Doomed /\ Renamed' = Renamed /\ Here(wanted)' = Here(wanted)
  BY DEF Doomed, Renamed, Here, given
<1>2. Remaining' = Remaining
  BY <1>1 DEF Remaining, Leaf
<1>3. \A k \in RowKeys : Moved(k)' = Moved(k)
  BY DEF Moved, given
<1> QED
  BY <1>1, <1>2, <1>3 DEF Freed, Leaf, given

(* Reading the file changes no row.                                         *)
LEMMA PrepareKeepsInv == ASSUME RestoreInv, Prepare PROVE RestoreInv'
<1> USE DEF Prepare, RestoreInv
<1>1. Sources'
  BY SourcesStay
<1>2. \A k \in RowKeys : Wanted(k)' = Wanted(k)
  BY WantedStays
<1>3. Planned'
  BY <1>2 DEF Planned
<1>4. written = {} /\ written' = {} /\ at = TableCount /\ at' = at /\ at \in 0 .. TableCount
  BY DEF Progress
<1>5. Progress'
  BY <1>4 DEF Progress
<1>6. ASSUME NEW k \in RowKeys PROVE Now(k)' = Now(k)
  <2>1. Now(k) = before[k]
    BY <1>4 DEF Now
  <2>2. ~(TableOf[k] > at)
    BY <1>4, RestoreAssumption DEF TableNumbers
  <2> QED BY <1>4, <2>1, <2>2 DEF Now, given
<1>7. db' = [k \in RowKeys |-> Now(k)']
  BY <1>6
<1> QED BY <1>1, <1>3, <1>5, <1>7

(* A table's rows that are not wanted go, or give way.                      *)
LEMMA FreeDoomedKeepsInv ==
  ASSUME RestoreInv, NEW t \in TableNumbers, FreeDoomed(t) PROVE RestoreInv'
<1> USE DEF RestoreInv
<1>1. /\ phase = "free" /\ phase' = "free" /\ t \in 1 .. at /\ at' = t - 1 /\ at \in 0 .. TableCount
      /\ \A u \in t + 1 .. at : ~Have(Doomed, u)
      /\ UNCHANGED <<given, wanted, written>> /\ written = {}
  BY DEF FreeDoomed, Downwards, TableNumbers, Progress
<1>2. Sources' /\ Planned'
  BY <1>1, SourcesStay, PlanStays
<1>3. Progress'
  <2>1. at' \in 0 .. TableCount
    BY <1>1, RestoreAssumption
  <2> QED BY <1>1, <2>1 DEF Progress
<1>4. \A k \in RowKeys : Freed(k)' = Freed(k) /\ Doomed' = Doomed
  BY <1>1, FreedStays
<1>5. ASSUME NEW k \in RowKeys PROVE db'[k] = Now(k)' /\ DOMAIN db' = RowKeys
  <2>1. db[k] = IF k \in Doomed /\ TableOf[k] > at THEN Freed(k) ELSE before[k]
    BY <1>1 DEF Now
  <2>2. Now(k)' = IF k \in Doomed /\ TableOf[k] > t - 1 THEN Freed(k) ELSE before[k]
    BY <1>1, <1>4 DEF Now, given
  <2>3. TableOf[k] \in Nat /\ at \in Nat /\ t \in Nat /\ t <= at
    BY <1>1, RestoreAssumption DEF TableNumbers
  <2>4. DOMAIN db' = RowKeys
    BY DEF FreeDoomed, DeleteRows, MakeWay
  <2>5. CASE k \in Doomed /\ TableOf[k] = t
    <3>1. k \in Doomed \cap In(t) /\ db[k] = before[k] /\ Now(k)' = Freed(k)
      BY <2>1, <2>2, <2>3, <2>5 DEF In
    <3>2. CASE Leaf(t)
      BY <2>5, <3>1, <3>2 DEF FreeDoomed, DeleteRows, Freed
    <3>3. CASE ~Leaf(t)
      <4>1. db'[k] = IF t \in Released THEN [before[k] EXCEPT !.value = Moving(k)] ELSE before[k]
        BY <2>5, <3>1, <3>3 DEF FreeDoomed, MakeWay
      <4>2. Freed(k) = IF t \in Released THEN Moved(k) ELSE before[k]
        BY <2>5, <3>3 DEF Freed
      <4>3. Moved(k) = [before[k] EXCEPT !.value = Moving(k)]
        BY DEF Moved
      <4> QED BY <2>4, <3>1, <4>1, <4>2, <4>3
    <3> QED BY <2>4, <3>2, <3>3
  <2>6. CASE ~(k \in Doomed /\ TableOf[k] = t)
    <3>1. k \notin Doomed \cap In(t)
      BY <2>6 DEF In
    <3>2. db'[k] = db[k]
      BY <3>1 DEF FreeDoomed, DeleteRows, MakeWay
    <3>3. k \in Doomed /\ TableOf[k] > t - 1 => TableOf[k] > at
      <4>1. SUFFICES ASSUME k \in Doomed, TableOf[k] > t - 1, ~(TableOf[k] > at) PROVE FALSE
        OBVIOUS
      <4>2. TableOf[k] \in t + 1 .. at
        BY <2>3, <2>6, <4>1
      <4> QED BY <1>1, <4>1, <4>2 DEF Have, In
    <3> QED BY <2>1, <2>2, <2>3, <2>4, <3>2, <3>3
  <2> QED BY <2>5, <2>6
<1>6. DOMAIN db' = RowKeys
  BY DEF FreeDoomed, DeleteRows, MakeWay
<1>7. db' = [k \in RowKeys |-> db'[k]]
  BY DEF FreeDoomed, DeleteRows, MakeWay
<1> QED BY <1>2, <1>3, <1>5, <1>7

(* Rows that get another value give way.                                    *)
LEMMA FreeRenamedKeepsInv == ASSUME RestoreInv, FreeRenamed PROVE RestoreInv'
<1> USE DEF RestoreInv
<1>1. /\ phase = "free" /\ phase' = "write" /\ at' = 0 /\ at \in 0 .. TableCount
      /\ \A u \in 1 .. at : ~Have(Doomed, u)
      /\ UNCHANGED <<given, wanted, written>> /\ written = {}
  BY DEF FreeRenamed, Passed, Begins, Progress
<1>2. Sources' /\ Planned'
  BY <1>1, SourcesStay, PlanStays
<1>3. Progress'
  BY <1>1, RestoreAssumption DEF Progress, Here
<1>4. \A k \in RowKeys : Freed(k)' = Freed(k)
  BY <1>1, FreedStays
<1>5. ASSUME NEW k \in RowKeys PROVE db'[k] = Now(k)'
  <2>1. db[k] = IF k \in Doomed /\ TableOf[k] > at THEN Freed(k) ELSE before[k]
    BY <1>1 DEF Now
  <2>2. Now(k)' = Freed(k)
    BY <1>1, <1>4 DEF Now
  <2>3. k \in Doomed => TableOf[k] > at
    <3>1. SUFFICES ASSUME k \in Doomed, ~(TableOf[k] > at) PROVE FALSE
      OBVIOUS
    <3>2. TableOf[k] \in 1 .. at
      BY <1>1, <3>1, RestoreAssumption DEF TableNumbers
    <3> QED BY <1>1, <3>1, <3>2 DEF Have, In
  <2>4. db'[k] = IF k \in Renamed /\ TableOf[k] \in Released
                 THEN [db[k] EXCEPT !.value = Moving(k)] ELSE db[k]
    BY DEF FreeRenamed, MakeWay
  <2>5. ~(k \in Doomed /\ k \in Renamed)
    BY <1>1, PlanSays
  <2> QED BY <2>1, <2>2, <2>3, <2>4, <2>5 DEF Freed, Moved
<1>6. db' = [k \in RowKeys |-> db'[k]]
  BY DEF FreeRenamed, MakeWay
<1> QED BY <1>2, <1>3, <1>5, <1>6

(* A row is written.                                                        *)
LEMMA WriteRowKeepsInv ==
  ASSUME RestoreInv, NEW k \in RowKeys, WriteRow(k) PROVE RestoreInv'
<1> USE DEF RestoreInv
<1>1. /\ phase = "write" /\ phase' = "write" /\ at' = at /\ at \in 0 .. TableCount
      /\ written' = written \cup {k} /\ k \in Here(wanted) \ written
      /\ \A l \in Here(wanted) \ written : l \notin wanted[k].to
      /\ UNCHANGED <<given, wanted>> /\ written \subseteq Here(wanted)
      /\ \A l \in written : wanted[l].to \subseteq written
  BY DEF WriteRow, Left, Progress
<1>2. Sources' /\ Planned'
  BY <1>1, SourcesStay, PlanStays
<1>3. wanted[k].to \subseteq written
  <2>1. \A l \in wanted[k].to : l \in Here(wanted)
    BY <1>1, PlanSays, WantedRowIsSound
  <2> QED BY <1>1, <2>1
<1>4. Progress'
  <2>1. Here(wanted)' = Here(wanted)
    BY <1>1, FreedStays
  <2>2. written' \subseteq Here(wanted)' /\ \A l \in written' : wanted'[l].to \subseteq written'
    BY <1>1, <1>3, <2>1
  <2> QED BY <1>1, <2>2 DEF Progress
<1>5. \A l \in RowKeys : Freed(l)' = Freed(l)
  BY <1>1, FreedStays
<1>6. ASSUME NEW l \in RowKeys PROVE db'[l] = Now(l)'
  <2>1. db[l] = IF l \in written THEN wanted[l] ELSE Freed(l)
    BY <1>1 DEF Now
  <2>2. Now(l)' = IF l \in written' THEN wanted[l] ELSE Freed(l)
    BY <1>1, <1>5 DEF Now
  <2>3. db'[l] = IF l = k THEN wanted[k] ELSE db[l]
    BY DEF WriteRow
  <2> QED BY <1>1, <2>1, <2>2, <2>3
<1>7. db' = [l \in RowKeys |-> db'[l]]
  BY DEF WriteRow
<1> QED BY <1>2, <1>4, <1>6, <1>7

(* All are written.                                                         *)
LEMMA AllWrittenKeepsInv == ASSUME RestoreInv, AllWritten PROVE RestoreInv'
<1> USE DEF RestoreInv
<1>1. /\ phase = "write" /\ phase' = "remove" /\ at' = TableCount
      /\ Here(wanted) \subseteq written /\ written \subseteq Here(wanted)
      /\ \A l \in written : wanted[l].to \subseteq written
      /\ UNCHANGED <<given, wanted, written, db>>
  BY DEF AllWritten, Begins, Left, Progress
<1>2. Sources' /\ Planned'
  BY <1>1, SourcesStay, PlanStays
<1>3. Progress'
  <2>1. Here(wanted)' = Here(wanted)
    BY <1>1, FreedStays
  <2>2. written' = Here(wanted)' /\ \A l \in written' : wanted'[l].to \subseteq written'
    BY <1>1, <2>1
  <2> QED BY <1>1, <2>2, RestoreAssumption DEF Progress
<1>4. \A l \in RowKeys : Freed(l)' = Freed(l)
  BY <1>1, FreedStays
<1>5. ASSUME NEW l \in RowKeys PROVE Now(l) = Now(l)'
  <2>1. ~(TableOf[l] > TableCount)
    BY RestoreAssumption DEF TableNumbers
  <2> QED BY <1>1, <1>4, <2>1 DEF Now
<1> QED BY <1>1, <1>2, <1>3, <1>5

(* A table's rows that gave way go.                                         *)
LEMMA RemoveDoomedKeepsInv ==
  ASSUME RestoreInv, NEW t \in TableNumbers, RemoveDoomed(t) PROVE RestoreInv'
<1> USE DEF RestoreInv
<1>1. /\ phase = "remove" /\ phase' = "remove" /\ t \in 1 .. at /\ at' = t - 1
      /\ at \in 0 .. TableCount /\ \A u \in t + 1 .. at : ~Have(Remaining, u)
      /\ UNCHANGED <<given, wanted, written>> /\ written = Here(wanted)
      /\ \A l \in written : wanted[l].to \subseteq written
  BY DEF RemoveDoomed, Downwards, TableNumbers, Progress
<1>2. Sources' /\ Planned'
  BY <1>1, SourcesStay, PlanStays
<1>3. Progress'
  <2>1. Here(wanted)' = Here(wanted)
    BY <1>1, FreedStays
  <2>2. written' = Here(wanted)' /\ \A l \in written' : wanted'[l].to \subseteq written'
    BY <1>1, <2>1
  <2>3. at' \in 0 .. TableCount
    BY <1>1, RestoreAssumption
  <2> QED BY <1>1, <2>2, <2>3 DEF Progress
<1>4. Remaining' = Remaining /\ \A k \in RowKeys : Freed(k)' = Freed(k)
  BY <1>1, FreedStays
<1>5. ASSUME NEW k \in RowKeys PROVE db'[k] = Now(k)'
  <2>1. db[k] = IF k \in written THEN wanted[k]
                ELSE IF k \in Remaining /\ TableOf[k] > at THEN Missing ELSE Freed(k)
    BY <1>1 DEF Now
  <2>2. Now(k)' = IF k \in written THEN wanted[k]
                  ELSE IF k \in Remaining /\ TableOf[k] > t - 1 THEN Missing ELSE Freed(k)
    BY <1>1, <1>4 DEF Now
  <2>3. TableOf[k] \in Nat /\ at \in Nat /\ t \in Nat /\ t <= at
    BY <1>1, RestoreAssumption DEF TableNumbers
  <2>4. db'[k] = IF k \in Remaining \cap In(t) THEN Missing ELSE db[k]
    BY DEF RemoveDoomed, DeleteRows
  <2>5. k \in Remaining => k \notin written
    BY <1>1, PlanSays DEF Remaining
  <2>6. CASE k \in Remaining /\ TableOf[k] = t
    <3>1. k \in Remaining \cap In(t) /\ TableOf[k] > t - 1
      BY <2>3, <2>6 DEF In
    <3> QED BY <2>2, <2>4, <2>5, <3>1
  <2>7. CASE ~(k \in Remaining /\ TableOf[k] = t)
    <3>1. k \notin Remaining \cap In(t)
      BY <2>7 DEF In
    <3>2. k \in Remaining /\ TableOf[k] > t - 1 => TableOf[k] > at
      <4>1. SUFFICES ASSUME k \in Remaining, TableOf[k] > t - 1, ~(TableOf[k] > at) PROVE FALSE
        OBVIOUS
      <4>2. TableOf[k] \in t + 1 .. at
        BY <2>3, <2>7, <4>1
      <4> QED BY <1>1, <4>1, <4>2 DEF Have, In
    <3> QED BY <2>1, <2>2, <2>3, <2>4, <3>1, <3>2
  <2> QED BY <2>6, <2>7
<1>6. db' = [k \in RowKeys |-> db'[k]]
  BY DEF RemoveDoomed, DeleteRows
<1> QED BY <1>2, <1>3, <1>5, <1>6

(* Nothing happens.                                                         *)
LEMMA RestoreStutter == ASSUME RestoreInv, UNCHANGED restoreVars PROVE RestoreInv'
<1> USE DEF RestoreInv, restoreVars
<1>1. UNCHANGED <<given, wanted, phase, at, written, db>>
  BY DEF given
<1>2. Sources'
  BY <1>1, SourcesStay
<1>3. Planned'
  <2>1. \A k \in RowKeys : Wanted(k)' = Wanted(k)
    BY <1>1, WantedStays
  <2> QED BY <1>1, <2>1 DEF Planned
<1>4. Progress'
  BY <1>1, FreedStays DEF Progress
<1>5. \A k \in RowKeys : Now(k)' = Now(k)
  BY <1>1, FreedStays DEF Now, given
<1> QED BY <1>1, <1>2, <1>3, <1>4, <1>5

(* Every step of a restore keeps the invariant.                             *)
THEOREM RestoreStep == RestoreInv /\ [RestoreNext]_restoreVars => RestoreInv'
<1> SUFFICES ASSUME RestoreInv, [RestoreNext]_restoreVars PROVE RestoreInv'
  OBVIOUS
<1>1. CASE Prepare
  BY <1>1, PrepareKeepsInv
<1>2. CASE FreeRenamed
  BY <1>2, FreeRenamedKeepsInv
<1>3. CASE AllWritten
  BY <1>3, AllWrittenKeepsInv
<1>4. CASE \E t \in TableNumbers : FreeDoomed(t)
  BY <1>4, FreeDoomedKeepsInv
<1>5. CASE \E t \in TableNumbers : RemoveDoomed(t)
  BY <1>5, RemoveDoomedKeepsInv
<1>6. CASE \E k \in RowKeys : WriteRow(k)
  BY <1>6, WriteRowKeepsInv
<1>7. CASE UNCHANGED restoreVars
  BY <1>7, RestoreStutter
<1> QED
  BY <1>1, <1>2, <1>3, <1>4, <1>5, <1>6, <1>7 DEF RestoreNext

(* Whatever the tables, the rows and what refers to what, each statement of *)
(* a restore leaves unique values unique and foreign keys kept.             *)
THEOREM EveryStatementAlwaysLegal == RestoreSpec => []EveryStatementIsLegal
<1>1. RestoreSpec => []RestoreInv
  BY RestoreStart, RestoreStep, PTL DEF RestoreSpec
<1> QED BY <1>1, InvariantIsLegal, PTL

-----------------------------------------------------------------------------
(* In the end every row is the one that was wanted, but for the server's.   *)
LEMMA EndsAsWanted ==
  ASSUME RestoreInv, Restored, NEW k \in RowKeys
  PROVE  db[k] = IF k \in ServerState THEN before[k] ELSE Wanted(k)
<1> USE DEF RestoreInv
<1>1. /\ phase = "remove" /\ phase # "read" /\ \A t \in 1 .. at : ~Have(Remaining, t)
      /\ at \in 0 .. TableCount /\ written = Here(wanted)
  BY DEF Restored, Passed, Progress
<1>2. db[k] = IF k \in written THEN wanted[k]
              ELSE IF k \in Remaining /\ TableOf[k] > at THEN Missing ELSE Freed(k)
  BY <1>1 DEF Now
<1>3. k \in Remaining => TableOf[k] > at
  <2>1. SUFFICES ASSUME k \in Remaining, ~(TableOf[k] > at) PROVE FALSE
    OBVIOUS
  <2>2. TableOf[k] \in 1 .. at
    BY <1>1, <2>1, RestoreAssumption DEF TableNumbers
  <2> QED BY <1>1, <2>1, <2>2 DEF Have, In
<1>4. CASE wanted[k] # Missing
  BY <1>1, <1>2, <1>4, PlanSays
<1>5. CASE wanted[k] = Missing /\ k \in Doomed
  BY <1>1, <1>2, <1>3, <1>5, PlanSays DEF Remaining, Freed
<1>6. CASE wanted[k] = Missing /\ k \notin Doomed
  <2>1. k \notin Renamed /\ k \notin written /\ k \notin Remaining
    BY <1>1, <1>6, PlanSays DEF Remaining
  <2>2. db[k] = before[k]
    BY <1>2, <1>6, <2>1 DEF Freed
  <2>3. k \notin ServerState => before[k] = Missing
    BY <1>1, <1>6, PlanSays
  <2> QED BY <1>1, <1>6, <2>2, <2>3, PlanSays
<1> QED BY <1>4, <1>5, <1>6

(* And so the end is the backup, but for what is kept.                      *)
LEMMA EndsAsTheBackup == ASSUME RestoreInv PROVE RestoredIsTheBackup
<1> SUFFICES ASSUME Restored PROVE
      /\ \A k \in ServerState : db[k] = before[k]
      /\ \A k \in RowKeys \ (ServerState \cup In(PasskeyTable) \cup {Account, NewKey}) :
           IF TableOf[k] = AgentTable /\ backup[k] # Missing
           THEN db[k] # Missing /\ [db[k] EXCEPT !.mark = "none"] = [backup[k] EXCEPT !.mark = "none"]
           ELSE db[k] = backup[k]
  BY DEF RestoredIsTheBackup
<1>1. \A k \in ServerState : db[k] = before[k]
  BY EndsAsWanted, RestoreAssumption
<1>2. ASSUME NEW k \in RowKeys \ (ServerState \cup In(PasskeyTable) \cup {Account, NewKey})
      PROVE  IF TableOf[k] = AgentTable /\ backup[k] # Missing
             THEN db[k] # Missing /\ [db[k] EXCEPT !.mark = "none"] = [backup[k] EXCEPT !.mark = "none"]
             ELSE db[k] = backup[k]
  <2>1. k \notin ServerState /\ TableOf[k] # PasskeyTable /\ k # Account /\ k # NewKey
    BY DEF In
  <2>2. db[k] = Wanted(k) /\ Sources
    BY <2>1, EndsAsWanted DEF RestoreInv
  <2>3. CASE TableOf[k] = AgentTable /\ backup[k] # Missing
    <3>1. db[k] = KeptAgent(k)
      BY <2>1, <2>2, <2>3 DEF Wanted
    <3>2. backup[k] \in RestoreRows
      BY <2>2, <2>3, RowOfContents DEF Sources
    <3>3. db[k] # Missing
      BY <2>1, <2>2, <2>3, BackupRowIsWanted
    <3>4. [db[k] EXCEPT !.mark = "none"] = [backup[k] EXCEPT !.mark = "none"]
      BY <3>1, <3>2 DEF KeptAgent, RestoreRows
    <3> QED BY <2>3, <3>3, <3>4
  <2>4. CASE ~(TableOf[k] = AgentTable /\ backup[k] # Missing)
    BY <2>1, <2>2, <2>4 DEF Wanted
  <2> QED BY <2>3, <2>4
<1> QED BY <1>1, <1>2

(* The administrator's role at the end. *)
LEMMA EndsWithTheRole ==
  ASSUME RestoreInv, Restored, AdminRoles # {}
  PROVE  HoldsAdmin(db, Account)
<1> USE DEF RestoreInv
<1>1. /\ DOMAIN backup = RowKeys /\ DOMAIN db = RowKeys
      /\ TableOf[NewKey] = UserRoleTable /\ NewKey \in RowKeys /\ NewKey \notin ServerState
      /\ Account \in In(UserTable) /\ UserRoleTable \notin {UserTable, PasskeyTable, AgentTable}
      /\ AdminName # NoValue
  BY AccountIsSound, RestoreAssumption DEF Sources, In
<1>2. PICK g \in AdminRoles : TRUE
  OBVIOUS
<1>3. CASE HoldsAdmin(backup, Account)
  <2>1. PICK k \in In(UserRoleTable) \cap Here(backup), h \in AdminRoles :
          backup[k].to = {Account, h} /\ backup[k].mark = "global"
    BY <1>3 DEF HoldsAdmin
  <2>2. k \in RowKeys /\ TableOf[k] = UserRoleTable /\ backup[k] # Missing
    BY <2>1 DEF In, Here
  <2>3. k # NewKey /\ TableOf[h] \in Refers[TableOf[k]] /\ h \in RowKeys
    BY <2>1, <2>2, RowOfContents DEF Sources
  <2>4. k \notin ServerState
    BY <2>2, <2>3, ReferredIsNoLeaf
  <2>5. k # Account
    BY <1>1, <2>2 DEF In
  <2>6. Wanted(k) = backup[k]
    BY <1>1, <2>2, <2>3, <2>4, <2>5 DEF Wanted
  <2>7. db[k] = backup[k]
    BY <2>2, <2>4, <2>6, EndsAsWanted
  <2> QED BY <1>1, <2>1, <2>2, <2>7 DEF HoldsAdmin, Here
<1>4. CASE ~HoldsAdmin(backup, Account)
  <2>1. Wanted(NewKey) = NewRole
    BY <1>1, <1>4 DEF Wanted, In
  <2>2. db[NewKey] = NewRole
    BY <1>1, <2>1, EndsAsWanted
  <2>3. NewRole # Missing
    <3>1. NewRole \in RestoreRows
      <4>1. {Account} \cup AdminRoles \subseteq RowKeys
        BY <1>1 DEF AdminRoles, In
      <4> QED BY <4>1 DEF NewRole, RestoreRows, Marks
    <3> QED BY <3>1, RestoreAssumption
  <2>4. AdminRoles = {g}
    <3>1. ASSUME NEW h \in AdminRoles PROVE h = g
      BY <1>1, <1>2 DEF AdminRoles, Sources, Sound, UniqueValues, In, Here
    <3> QED BY <1>2, <3>1
  <2>5. NewRole.to = {Account, g} /\ NewRole.mark = "global"
    BY <2>4 DEF NewRole
  <2>6. NewKey \in In(UserRoleTable) \cap Here(db)
    BY <1>1, <2>2, <2>3 DEF In, Here
  <2> QED BY <1>2, <2>2, <2>5, <2>6 DEF HoldsAdmin
<1> QED BY <1>3, <1>4

(* The account's passkeys at the end. *)
LEMMA EndsWithThePasskeys ==
  ASSUME RestoreInv, Restored
  PROVE  PasskeysOf(db, Account) = PasskeysOf(before, acting)
<1> USE DEF RestoreInv
<1>1. DOMAIN before = RowKeys /\ DOMAIN db = RowKeys /\ PasskeyTable # AgentTable
  BY RestoreAssumption DEF Sources
<1>2. ASSUME NEW q \in In(PasskeyTable)
      PROVE  /\ Own(q) => db[q] # Missing /\ Account \in db[q].to /\ db[q].value = before[q].value
             /\ ~Own(q) => db[q] = Missing \/ Account \notin db[q].to
  <2>1. q \in RowKeys /\ TableOf[q] = PasskeyTable
    BY DEF In
  <2>2. q \notin ServerState /\ q # Account /\ q # NewKey
    BY <2>1, AccountIsSound, RestoreAssumption DEF In
  <2>3. db[q] = KeptPasskey(q)
    BY <1>1, <2>1, <2>2, EndsAsWanted DEF Wanted
  <2>4. CASE Own(q)
    <3>1. db[q] = [before[q] EXCEPT !.to = {Account}]
      BY <2>3, <2>4 DEF KeptPasskey, Foreign
    <3>2. before[q] \in RestoreRows
      BY <2>1, <2>4, RowOfContents DEF Own, Sources
    <3>3. Account \in RowKeys
      BY AccountIsSound DEF In
    <3>4. {Account} \in SUBSET RowKeys
      BY <3>3
    <3>5. db[q] \in RestoreRows /\ db[q].to = {Account} /\ db[q].value = before[q].value
      BY <3>1, <3>2, <3>4 DEF RestoreRows
    <3> QED BY <2>4, <3>5, RestoreAssumption
  <2>5. CASE ~Own(q) /\ Foreign(q, {acting, Account})
    <3>1. db[q] = backup[q]
      BY <2>3, <2>5 DEF KeptPasskey
    <3> QED BY <2>5, <3>1 DEF Foreign
  <2>6. CASE ~Own(q) /\ ~Foreign(q, {acting, Account})
    BY <2>3, <2>6 DEF KeptPasskey
  <2> QED BY <2>4, <2>5, <2>6
<1>3. {q \in In(PasskeyTable) \cap Here(db) : Account \in db[q].to} = {q \in In(PasskeyTable) : Own(q)}
  BY <1>1, <1>2 DEF Here, In
<1>4. {q \in In(PasskeyTable) \cap Here(before) : acting \in before[q].to}
        = {q \in In(PasskeyTable) : Own(q)}
  BY <1>1 DEF Here, In, Own
<1>5. PasskeysOf(db, Account) = {db[p].value : p \in {q \in In(PasskeyTable) : Own(q)}}
  BY <1>3 DEF PasskeysOf
<1>6. PasskeysOf(before, acting) = {before[p].value : p \in {q \in In(PasskeyTable) : Own(q)}}
  BY <1>4 DEF PasskeysOf
<1> QED BY <1>2, <1>5, <1>6

(* And so the administrator still comes in.                                 *)
LEMMA EndsWithTheAdministrator == ASSUME RestoreInv PROVE NotLockedOut
<1> SUFFICES ASSUME Restored PROVE
      \E u \in In(UserTable) \cap Here(db) :
        /\ u = acting \/ db[u].value = before[acting].value
        /\ db[u].mark = "admin"
        /\ AdminRoles # {} => HoldsAdmin(db, u)
        /\ PasskeysOf(db, u) = PasskeysOf(before, acting)
  BY DEF NotLockedOut
<1>1. Sources
  BY DEF RestoreInv
<1>2. Account \in In(UserTable) /\ Account \in RowKeys /\ Account \notin ServerState
  BY <1>1, AccountIsSound DEF In
<1>3. Wanted(Account) = KeptAccount
  BY <1>1, <1>2, KindsAreApart DEF WantedRowKinds, Wanted
<1>4. db[Account] = KeptAccount
  BY <1>2, <1>3, EndsAsWanted
<1>5. Account \in Here(db)
  BY <1>1, <1>2, <1>4, AccountIsSound DEF Here, RestoreInv
<1>6. Account = acting \/ db[Account].value = before[acting].value
  BY <1>1, <1>4, AccountIsSound
<1>7. db[Account].mark = "admin"
  BY <1>1, <1>4, AccountIsSound
<1>8. /\ AdminRoles # {} => HoldsAdmin(db, Account)
      /\ PasskeysOf(db, Account) = PasskeysOf(before, acting)
  BY EndsWithTheRole, EndsWithThePasskeys
<1> QED BY <1>2, <1>5, <1>6, <1>7, <1>8

(* Whatever a backup holds, the administrator who restores it keeps the     *)
(* account, the flag, the role and exactly the passkeys they have.          *)
THEOREM NeverLockedOut == RestoreSpec => []NotLockedOut
<1>1. RestoreSpec => []RestoreInv
  BY RestoreStart, RestoreStep, PTL DEF RestoreSpec
<1> QED BY <1>1, EndsWithTheAdministrator, PTL

(* Whatever the server had, it ends with what the backup holds, but for     *)
(* what a restore keeps.                                                    *)
THEOREM RestoredAlwaysTheBackup == RestoreSpec => []RestoredIsTheBackup
<1>1. RestoreSpec => []RestoreInv
  BY RestoreStart, RestoreStep, PTL DEF RestoreSpec
<1> QED BY <1>1, EndsAsTheBackup, PTL

-----------------------------------------------------------------------------
(* What there is to be is rows, and so is what there is on the way.         *)
LEMMA WantedIsTyped ==
  ASSUME Sources, NEW k \in RowKeys
  PROVE  Wanted(k) \in RestoreRows \cup {Missing}
<1>. SUFFICES ASSUME Wanted(k) # Missing PROVE Wanted(k) \in RestoreRows
  OBVIOUS
<1>1. KeptAccount \in RestoreRows /\ Account \in RowKeys
  BY AccountIsSound DEF In
<1>2. backup[k] # Missing => backup[k] \in RestoreRows
  BY RowOfContents DEF Sources
<1>3. before[k] # Missing => before[k] \in RestoreRows
  BY RowOfContents DEF Sources
<1>4. CASE Own(k) /\ Wanted(k) = [before[k] EXCEPT !.to = {Account}]
  BY <1>1, <1>3, <1>4 DEF Own, RestoreRows
<1>5. CASE backup[k] # Missing /\ Wanted(k) = KeptAgent(k)
  <2>1. (IF before[k] # Missing THEN before[k].mark ELSE "offline") \in Marks
    BY <1>3 DEF RestoreRows, Marks
  <2>. QED BY <1>2, <1>5, <2>1 DEF KeptAgent, RestoreRows
<1>6. CASE Wanted(k) = NewRole
  <2>1. AdminRoles \subseteq RowKeys
    BY DEF AdminRoles, In
  <2>. QED BY <1>1, <1>6, <2>1 DEF NewRole, RestoreRows, Marks
<1>. QED BY <1>1, <1>2, <1>4, <1>5, <1>6, WantedRow

LEMMA FreedIsTyped ==
  ASSUME Sources, NEW k \in RowKeys
  PROVE  Freed(k) \in RestoreRows \cup {Missing}
<1>1. before[k] \in RestoreRows \cup {Missing}
  BY RestoreAssumption DEF Sources
<1>2. CASE k \in Doomed \cup Renamed /\ TableOf[k] \in Released
  <2>1. before[k] # Missing
    BY <1>2 DEF Doomed, Renamed, Here
  <2>2. Moved(k) \in RestoreRows
    BY <1>1, <2>1 DEF Moved, RestoreRows
  <2>. QED BY <1>1, <2>2 DEF Freed
<1>3. CASE ~(k \in Doomed \cup Renamed /\ TableOf[k] \in Released)
  BY <1>1, <1>3 DEF Freed
<1>. QED BY <1>2, <1>3

LEMMA RestoreIsTyped == ASSUME RestoreInv PROVE RestoreTypeOK
<1>. USE DEF RestoreInv
<1>1. before \in Databases /\ backup \in Databases
  BY RestoreAssumption DEF Sources, Databases
<1>2. wanted \in Databases
  <2>1. CASE phase = "read"
    BY <1>1, <2>1 DEF Planned
  <2>2. CASE phase # "read"
    BY <2>2, WantedIsTyped DEF Planned, Databases
  <2>. QED BY <2>1, <2>2
<1>3. ASSUME NEW k \in RowKeys PROVE Now(k) \in RestoreRows \cup {Missing}
  <2>1. /\ wanted[k] \in RestoreRows \cup {Missing}
        /\ before[k] \in RestoreRows \cup {Missing}
        /\ Freed(k) \in RestoreRows \cup {Missing}
    BY <1>1, <1>2, FreedIsTyped DEF Databases
  <2>. QED BY <2>1 DEF Now
<1>4. db \in Databases
  BY <1>3 DEF Databases
<1>5. written \subseteq RowKeys
  <2>1. Here(wanted) \subseteq RowKeys
    BY <1>2 DEF Here, Databases
  <2>. QED BY <2>1 DEF Progress
<1>. QED BY <1>1, <1>2, <1>4, <1>5 DEF RestoreTypeOK, Sources, Progress

(* The rows stay rows at every statement, placeholders included.            *)
THEOREM RestoreTypeCorrect == RestoreSpec => []RestoreTypeOK
<1>1. RestoreSpec => []RestoreInv
  BY RestoreStart, RestoreStep, PTL DEF RestoreSpec
<1>. QED BY <1>1, RestoreIsTyped, PTL
=============================================================================
