------------------------------- MODULE Accounts -------------------------------
(* Accounts, roles and invitations.  A request reads, decides and then      *)
(* commits: two steps here, since nothing it reads is locked and another    *)
(* request can commit in between.                                           *)
EXTENDS Naturals, FiniteSets

CONSTANTS
  Users,           (* by e-mail address, which is unique *)
  Roles,           (* roles other than the system role admin *)
  Projects,
  Everywhere,      (* the scope of a global role *)
  MaxRequests,     (* bound: requests that take two steps *)
  NoUser

Scopes == Projects \cup {Everywhere}

(* A row of users with its rows of user_roles: those of the role admin by   *)
(* their own identity, the others by their role and scope.                  *)
AccountRows ==
  [is_admin : BOOLEAN, admin_rows : SUBSET Nat, is_active : BOOLEAN,
   roles : [Scopes -> SUBSET Roles]]

ASSUME AccountsAssumption ==
  /\ MaxRequests \in Nat \ {0} /\ Everywhere \notin Projects
  /\ NoUser \notin AccountRows

VARIABLES
  users,           (* the rows of users with their rows of user_roles *)
  grants,          (* the roles that exist: may a holder manage users *)
  invites,         (* the invitation of each e-mail address *)
  requesting,      (* the request each person has under way *)
  begun,           (* how many requests have begun: the identity of a row one adds *)
  overlapped,      (* history: accounts two requests changed at once *)
  unguarded        (* history: the guards on the last administrator did not apply *)

accountsVars == <<users, grants, invites, requesting, begun, overlapped, unguarded>>

Exists(u) == users[u] # NoUser
NewUser == [is_admin |-> FALSE, admin_rows |-> {}, is_active |-> TRUE,
            roles |-> [s \in Scopes |-> {}]]
NoInvite == [status |-> "none"]
NoRequest == [kind |-> "none"]

AccountsTypeOK ==
  /\ \A u \in Users : Exists(u) =>
       /\ users[u].is_admin \in BOOLEAN /\ users[u].is_active \in BOOLEAN
       /\ users[u].admin_rows \subseteq 1 .. begun
       /\ users[u].roles \in [Scopes -> SUBSET DOMAIN grants]
  /\ DOMAIN grants \subseteq Roles
  /\ \A u \in Users : invites[u].status \in {"none", "pending", "accepted", "revoked"}

AccountsInit ==
  /\ users = [u \in Users |-> NoUser]
  /\ grants = [r \in {} |-> FALSE]
  /\ invites = [u \in Users |-> NoInvite]
  /\ requesting = [u \in Users |-> NoRequest]
  /\ begun = 0 /\ overlapped = {} /\ unguarded = FALSE

-----------------------------------------------------------------------------
(* Access *)

(* Either half makes an administrator. *)
Administrator(u) == Exists(u) /\ (users[u].is_admin \/ users[u].admin_rows # {})
ActiveAdministrators == {u \in Users : Administrator(u) /\ users[u].is_active}

(* effective_permissions joins all the roles of a user, whatever the scope. *)
(* A request with a scoped token may do nothing of this module: no scope    *)
(* of the catalogue has users.manage.                                       *)
Permitted(u) ==
  /\ Exists(u) /\ users[u].is_active
  /\ Administrator(u) \/ \E s \in Scopes : \E r \in users[u].roles[s] : grants[r]

-----------------------------------------------------------------------------
(* Requests *)

Pending == {a \in Users : requesting[a] # NoRequest}
Target(a) == requesting[a].target

(* A deactivation or a deletion is only refused on one's own account; the   *)
(* loss of administrator access also when nobody else has it.               *)
Unchecked(p) ==
  p.kind = "delete" \/ (p.kind = "update" /\ p.seen.is_active /\ ~p.active)
Removes(p) == Unchecked(p) \/ (p.kind = "update" /\ p.touch /\ ~p.admin)

Begin(a, p) ==
  /\ requesting[a] = NoRequest /\ begun < MaxRequests /\ begun' = begun + 1
  /\ requesting' = [requesting EXCEPT ![a] = p]
  /\ overlapped' = IF \E b \in Pending : Target(b) = p.target
                   THEN overlapped \cup {p.target} ELSE overlapped
  /\ unguarded' = \/ unguarded
                  \/ Unchecked(p) /\ ~Administrator(a)
                  \/ Removes(p) /\ \E b \in Pending : Removes(requesting[b])
  /\ UNCHANGED <<users, grants, invites>>

Seen(u) == [is_active |-> users[u].is_active, is_admin |-> users[u].is_admin,
            admin_rows |-> users[u].admin_rows]

(* Mutant of Update: the other administrators are not counted. *)
UpdateUncounted(a, u) ==
  /\ Permitted(a) /\ Exists(u)
  /\ \E active \in BOOLEAN, admin \in BOOLEAN, touch \in BOOLEAN :
       /\ u = a => active
       /\ ~touch => ~admin
       /\ touch /\ ~admin => a # u
       /\ Begin(a, [kind |-> "update", target |-> u, active |-> active, touch |-> touch,
                    admin |-> admin, seen |-> Seen(u), id |-> begun + 1])

(* update_user, and assign_role and remove_role of the admin role.  A value *)
(* the body leaves out is the one that is there.  The two checks:           *)
(* nobody takes his own access away, and another active administrator       *)
(* remains, as far as he can see.                                           *)
Update(a, u) ==
  /\ Permitted(a) /\ Exists(u)
  /\ \E active \in BOOLEAN, admin \in BOOLEAN, touch \in BOOLEAN :
       /\ u = a => active
       /\ ~touch => ~admin
       /\ touch /\ ~admin => a # u /\ ActiveAdministrators \ {u} # {}
       /\ Begin(a, [kind |-> "update", target |-> u, active |-> active, touch |-> touch,
                    admin |-> admin, seen |-> Seen(u), id |-> begun + 1])

Delete(a, u) ==
  /\ Permitted(a) /\ Exists(u) /\ u # a
  /\ Begin(a, [kind |-> "delete", target |-> u])

NewAccount(u, admin, by) ==
  [kind |-> "create", target |-> u, admin |-> admin, by |-> by, id |-> begun + 1]

(* create_user: of all the roles only admin is given at once. *)
Create(a, u) ==
  /\ Permitted(a) /\ ~Exists(u)
  /\ \E admin \in BOOLEAN :
       Begin(a, NewAccount(u, admin, "form"))

(* signup, and seed_admin_user at the start: the first account is an        *)
(* administrator's.  Whether a later one is let in depends on the worker    *)
(* process, each of which has the setting in its memory.                    *)
Signup(u) ==
  /\ ~Exists(u)
  /\ Begin(u, NewAccount(u, \A v \in Users : ~Exists(v), "form"))

(* accept_invite: a link works while the invitation waits, has not expired  *)
(* and the link was not replaced.                                           *)
AcceptInvite(u) ==
  /\ ~Exists(u) /\ invites[u].status = "pending" /\ ~invites[u].expired
  /\ Begin(u, NewAccount(u, invites[u].admin, "invite"))

(* assign_role and assign_project_roles: at most one role per project, so   *)
(* a row that is there is changed.  assign_role fails on an account that    *)
(* has got two.                                                             *)
AssignRoles(a, u) ==
  /\ Permitted(a) /\ Exists(u)
  /\ \E at \in SUBSET Scopes \ {{}} : \E new \in [at -> DOMAIN grants] :
       /\ Everywhere \in at => at = {Everywhere}
       /\ \A s \in at : IF s = Everywhere THEN new[s] \notin users[u].roles[s]
                        ELSE Cardinality(users[u].roles[s]) <= 1
       /\ Begin(a, [kind |-> "roles", target |-> u, new |-> new,
                    prior |-> [s \in at \ {Everywhere} |-> users[u].roles[s]]])

RemoveRole(a, u) ==
  /\ Permitted(a) /\ Exists(u)
  /\ \E s \in Scopes : \E r \in users[u].roles[s] :
       Begin(a, [kind |-> "unrole", target |-> u, scope |-> s, role |-> r])

-----------------------------------------------------------------------------
(* Commits *)

(* Mutant of SetAdministrator: the role is forgotten. *)
FlagOnly(row, seen, on, id) == [row EXCEPT !.is_admin = on]

(* set_administrator, on an account's rows as they are: the ones it read    *)
(* are deleted, or one is added where it read none; the flag is written     *)
(* where it differs from the one it read.                                   *)
SetAdministrator(row, seen, on, id) ==
  [row EXCEPT
     !.is_admin = IF on = seen.is_admin THEN @ ELSE on,
     !.admin_rows = IF ~on THEN @ \ seen.admin_rows
                    ELSE IF seen.admin_rows = {} THEN @ \cup {id} ELSE @]

Commits(a, kind) ==
  /\ requesting[a].kind = kind
  /\ requesting' = [requesting EXCEPT ![a] = NoRequest]
  /\ UNCHANGED <<begun, overlapped, unguarded>>

Unchanged == UNCHANGED <<users, grants, invites>>

(* In every commit, a row that is gone by now, or there by now, fails the   *)
(* request as a whole.                                                      *)
CommitUpdate(a) ==
  LET p == requesting[a]
      row == users[p.target]
      active == [row EXCEPT !.is_active =
                   IF p.active = p.seen.is_active THEN @ ELSE p.active] IN
  /\ Commits(a, "update")
  /\ IF Exists(p.target)
     THEN /\ users' = [users EXCEPT ![p.target] =
               IF p.touch THEN SetAdministrator(active, p.seen, p.admin, p.id) ELSE active]
          /\ UNCHANGED <<grants, invites>>
     ELSE Unchanged

CommitDelete(a) ==
  /\ Commits(a, "delete")
  /\ users' = [users EXCEPT ![Target(a)] = NoUser]
  /\ UNCHANGED <<grants, invites>>

(* An accepted invitation is marked so over whatever it became meanwhile;   *)
(* if it was deleted meanwhile there is none to mark, and the request fails. *)
CommitCreate(a) ==
  LET p == requesting[a]  u == p.target  invited == p.by = "invite" IN
  /\ Commits(a, "create")
  /\ IF Exists(u) \/ (invited /\ invites[u] = NoInvite) THEN Unchanged
     ELSE /\ users' = [users EXCEPT ![u] =
               IF p.admin THEN SetAdministrator(NewUser, NewUser, TRUE, p.id) ELSE NewUser]
          /\ invites' = IF invited
                        THEN [invites EXCEPT ![u].status = "accepted"] ELSE invites
          /\ UNCHANGED grants

CommitRoles(a) ==
  LET p == requesting[a]
      held(s) == users[p.target].roles[s]
      in(s) == s \in DOMAIN p.prior /\ p.prior[s] # {} IN
  /\ Commits(a, "roles")
  /\ IF /\ Exists(p.target)
        /\ \A s \in DOMAIN p.new :
             p.new[s] \in DOMAIN grants /\ IF in(s) THEN held(s) # {} ELSE p.new[s] \notin held(s)
     THEN /\ users' = [users EXCEPT ![p.target].roles = [s \in Scopes |->
               IF s \notin DOMAIN p.new THEN @[s]
               ELSE (IF in(s) THEN @[s] \ p.prior[s] ELSE @[s]) \cup {p.new[s]}]]
          /\ UNCHANGED <<grants, invites>>
     ELSE Unchanged

CommitUnrole(a) ==
  LET p == requesting[a] IN
  /\ Commits(a, "unrole")
  /\ users' = IF Exists(p.target)
              THEN [users EXCEPT ![p.target].roles[p.scope] = @ \ {p.role}] ELSE users
  /\ UNCHANGED <<grants, invites>>

-----------------------------------------------------------------------------
(* Roles and invitations, one step each *)

rolesRest == <<users, requesting, begun, overlapped, unguarded>>

CreateRole(a, r) ==
  /\ Permitted(a) /\ r \notin DOMAIN grants
  /\ \E g \in BOOLEAN : grants' = [q \in DOMAIN grants \cup {r} |->
                                     IF q = r THEN g ELSE grants[q]]
  /\ UNCHANGED <<rolesRest, invites>>

UpdateRole(a, r) ==
  /\ Permitted(a) /\ r \in DOMAIN grants
  /\ grants' = [grants EXCEPT ![r] = ~@]
  /\ UNCHANGED <<rolesRest, invites>>

(* The mapper clears role_id in the rows that hold the role, which may not  *)
(* be null: a role somebody holds is not deleted.                           *)
DeleteRole(a, r) ==
  /\ Permitted(a) /\ r \in DOMAIN grants
  /\ \A u \in Users : Exists(u) => \A s \in Scopes : r \notin users[u].roles[s]
  /\ grants' = [q \in DOMAIN grants \ {r} |-> grants[q]]
  /\ UNCHANGED <<rolesRest, invites>>

SetInvite(u, i) ==
  invites' = [invites EXCEPT ![u] = i] /\ UNCHANGED <<rolesRest, grants>>

(* An invitation that expired still waits, since the status that says so is *)
(* rolled back with the refusal: there is no second one to the address.     *)
CreateInvite(a, u) ==
  /\ Permitted(a) /\ ~Exists(u) /\ invites[u].status # "pending"
  /\ \E admin \in BOOLEAN :
       SetInvite(u, [status |-> "pending", expired |-> FALSE, admin |-> admin])

ExpireInvite(u) ==
  /\ invites[u].status = "pending" /\ ~invites[u].expired
  /\ SetInvite(u, [invites[u] EXCEPT !.expired = TRUE])

ResendInvite(a, u) ==
  /\ Permitted(a) /\ invites[u].status = "pending"
  /\ SetInvite(u, [invites[u] EXCEPT !.expired = FALSE])

RevokeInvite(a, u) ==
  /\ Permitted(a) /\ invites[u].status = "pending"
  /\ SetInvite(u, [invites[u] EXCEPT !.status = "revoked"])

CleanupInvites(a) ==
  /\ Permitted(a)
  /\ invites' = [u \in Users |-> IF invites[u].status = "pending" THEN invites[u]
                                 ELSE NoInvite]
  /\ UNCHANGED <<rolesRest, grants>>

AccountsNext ==
  \/ \E a \in Users :
       \/ Signup(a) \/ AcceptInvite(a) \/ CleanupInvites(a) \/ ExpireInvite(a)
       \/ CommitUpdate(a) \/ CommitDelete(a) \/ CommitCreate(a) \/ CommitRoles(a)
       \/ CommitUnrole(a)
       \/ \E u \in Users :
            \/ Update(a, u) \/ Delete(a, u) \/ Create(a, u)
            \/ AssignRoles(a, u) \/ RemoveRole(a, u)
            \/ CreateInvite(a, u) \/ ResendInvite(a, u) \/ RevokeInvite(a, u)
       \/ \E r \in Roles : CreateRole(a, r) \/ UpdateRole(a, r) \/ DeleteRole(a, r)

AccountsSpec == AccountsInit /\ [][AccountsNext]_accountsVars

-----------------------------------------------------------------------------
(* The flag and the admin role are never changed apart, on any of the ways  *)
(* that make or unmake an administrator, unless two requests changed the    *)
(* account at once.                                                         *)
AdministratorHasBoth ==
  \A u \in Users : Exists(u) /\ u \notin overlapped =>
    users[u].is_admin <=> users[u].admin_rows # {}

(* There is an active administrator as soon as there is an account at all,  *)
(* unless two removals were under way at once, or somebody who manages users *)
(* without being an administrator deactivated or deleted one.               *)
AnAdministratorRemains ==
  (\E u \in Users : Exists(u)) /\ ~unguarded => ActiveAdministrators # {}
=============================================================================
