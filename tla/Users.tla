------------------------------- MODULE Users --------------------------------
(***************************************************************************)
(* Accounts, managed by the Authority's administrators and by those of     *)
(* each operator.  One administrator works at a time: a request is one     *)
(* step.  Service accounts and names are left out.                         *)
(***************************************************************************)
EXTENDS Naturals, FiniteSets

CONSTANTS
  Accounts,  \* accounts there may be
  Seeded,    \* the administrator the installation starts with
  Entities,  \* operators
  NoEntity

ASSUME AccountsAssumption == IsFiniteSet(Accounts) /\ Seeded \in Accounts /\ NoEntity \notin Entities

VARIABLE user  \* users

OperatorRoles == {"OPERATOR_ADMIN", "OPERATOR_SUBMITTER"}
Roles    == {"ADMIN", "REVIEWER"} \cup OperatorRoles
UserRows == [live : BOOLEAN, role : Roles, active : BOOLEAN, entity : Entities \cup {NoEntity}]
NoUser   == [live |-> FALSE, role |-> "OPERATOR_SUBMITTER", active |-> FALSE, entity |-> NoEntity]

UsersTypeOK == user \in [Accounts -> UserRows]

UsersInit ==
  user = [u \in Accounts |-> IF u = Seeded THEN [live |-> TRUE, role |-> "ADMIN", active |-> TRUE,
                                                 entity |-> NoEntity]
                             ELSE NoUser]

-----------------------------------------------------------------------------
(* jwt.strategy looks the account up on every request.                     *)
May(actor, role) == user[actor].live /\ user[actor].active /\ user[actor].role = role

(* resolveEntityId: operators belong to an entity, others do not.          *)
Resolves(role, entity) == (role \in OperatorRoles) = (entity # NoEntity)

ActiveAdmin(row) == row.live /\ row.active /\ row.role = "ADMIN"

(* Mutant of OtherAdmins: deactivated administrators are counted too.      *)
OtherAdminsAtAll(u) == {v \in Accounts \ {u} : user[v].live /\ user[v].role = "ADMIN"}
OtherAdmins(u)      == {v \in Accounts \ {u} : ActiveAdmin(user[v])}

(* assertAdminAccessRetained *)
AdminAccessRetained(u, role, active) ==
  ActiveAdmin(user[u]) /\ ~(role = "ADMIN" /\ active) => OtherAdmins(u) # {}

-----------------------------------------------------------------------------
(* The Authority's administrators.                                         *)

Create(actor, u, role, entity) ==
  /\ May(actor, "ADMIN") /\ Resolves(role, entity)
  /\ user[u] = NoUser
  /\ user' = [user EXCEPT ![u] = [live |-> TRUE, role |-> role, active |-> TRUE, entity |-> entity]]

(* update and setRole; an account may change its own.                      *)
UpdateUser(actor, u, role, active, entity) ==
  /\ May(actor, "ADMIN") /\ user[u].live
  /\ AdminAccessRetained(u, role, active)
  /\ Resolves(role, entity)
  /\ user' = [user EXCEPT ![u].role = role, ![u].active = active, ![u].entity = entity]

RemoveUser(actor, u) ==
  /\ May(actor, "ADMIN") /\ user[u].live
  /\ u # actor
  /\ user[u].role = "ADMIN" => Cardinality({v \in Accounts : user[v].live /\ user[v].role = "ADMIN"}) > 1
  /\ user' = [user EXCEPT ![u].live = FALSE]

(* signup, when it is enabled: an account without an entity.               *)
SignUp(u) ==
  /\ user[u] = NoUser
  /\ user' = [user EXCEPT ![u].live = TRUE, ![u].active = TRUE]

-----------------------------------------------------------------------------
(* The administrators of an operator, within its own entity.               *)

Colleague(actor, u) == user[u].live /\ user[u].entity = user[actor].entity

OperatorAdmins(e) ==
  {v \in Accounts : user[v].live /\ user[v].active /\ user[v].role = "OPERATOR_ADMIN" /\ user[v].entity = e}

(* ensureNotLastActiveOperatorAdmin *)
NotLastOperatorAdmin(u) ==
  u \in OperatorAdmins(user[u].entity) => Cardinality(OperatorAdmins(user[u].entity)) > 1

CreateForEntity(actor, u, role) ==
  /\ May(actor, "OPERATOR_ADMIN") /\ user[actor].entity # NoEntity
  /\ role \in OperatorRoles
  /\ user[u] = NoUser
  /\ user' = [user EXCEPT ![u] = [live |-> TRUE, role |-> role, active |-> TRUE,
                                  entity |-> user[actor].entity]]

UpdateInEntity(actor, u, role, active) ==
  /\ May(actor, "OPERATOR_ADMIN") /\ user[actor].entity # NoEntity
  /\ Colleague(actor, u) /\ role \in OperatorRoles
  /\ user[u].role = "OPERATOR_ADMIN" /\ (role # "OPERATOR_ADMIN" \/ ~active) => NotLastOperatorAdmin(u)
  /\ user' = [user EXCEPT ![u].role = role, ![u].active = active]

RemoveFromEntity(actor, u) ==
  /\ May(actor, "OPERATOR_ADMIN") /\ user[actor].entity # NoEntity
  /\ u # actor /\ Colleague(actor, u) /\ NotLastOperatorAdmin(u)
  /\ user' = [user EXCEPT ![u].live = FALSE]

-----------------------------------------------------------------------------
AuthorityStep(actor, u) ==
  \/ RemoveUser(actor, u)
  \/ \E r \in Roles, e \in Entities \cup {NoEntity} :
       \/ Create(actor, u, r, e)
       \/ \E b \in BOOLEAN : UpdateUser(actor, u, r, b, e)

OperatorStep(actor, u) ==
  \/ RemoveFromEntity(actor, u)
  \/ \E r \in OperatorRoles : \/ CreateForEntity(actor, u, r)
                              \/ \E b \in BOOLEAN : UpdateInEntity(actor, u, r, b)

UsersNext ==
  \/ \E u \in Accounts : SignUp(u)
  \/ \E actor, u \in Accounts : AuthorityStep(actor, u) \/ OperatorStep(actor, u)

UsersSpec == UsersInit /\ [][UsersNext]_user

-----------------------------------------------------------------------------
(* The Authority is never locked out: of its accounts one is a live and    *)
(* active administrator, though removal counts the deactivated ones too    *)
(* (assertAdminAccessRetained, and remove, whose caller is one himself).   *)
AuthorityHasAdmin == \E u \in Accounts : ActiveAdmin(user[u])
=============================================================================
