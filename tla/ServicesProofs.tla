--------------------------- MODULE ServicesProofs ---------------------------
(***************************************************************************)
(* What holds of the services around the filing of returns for every value *)
(* of their constants: the accounts, the questionnaires, the files of a    *)
(* complaint and the recovery codes.                                       *)
(***************************************************************************)
EXTENDS Users, Questionnaires, Complaints, SecondFactor, FiniteSetTheorems, TLAPS

-----------------------------------------------------------------------------
(* Accounts.                                                               *)

(* An account of the Authority belongs to no operator, so no operator's    *)
(* administrator can reach it.                                             *)
Belonging ==
  \A u \in Accounts : user[u].role \notin OperatorRoles => user[u].entity = NoEntity

UsersInv == UsersTypeOK /\ Belonging /\ AuthorityHasAdmin

LEMMA UsersInitially == UsersInit => UsersInv
<1> SUFFICES ASSUME UsersInit PROVE UsersInv
  OBVIOUS
<1>1. UsersTypeOK
  BY DEF UsersInit, UsersTypeOK, UserRows, Roles, OperatorRoles, NoUser
<1>2. Belonging
  BY DEF UsersInit, Belonging, NoUser, OperatorRoles
<1>3. AuthorityHasAdmin
  BY AccountsAssumption DEF UsersInit, AuthorityHasAdmin, ActiveAdmin
<1> QED BY <1>1, <1>2, <1>3 DEF UsersInv

(* A row written over another that was no active administrator's, or by an *)
(* active administrator over somebody else's, or with one left besides.    *)
LEMMA RowKeeps ==
  ASSUME UsersInv, NEW u \in Accounts, NEW row \in UserRows, user' = [user EXCEPT ![u] = row],
         row.role \notin OperatorRoles => row.entity = NoEntity,
         \/ ~ActiveAdmin(user[u])
         \/ ActiveAdmin(row)
         \/ \E v \in Accounts \ {u} : ActiveAdmin(user[v])
  PROVE  UsersInv'
<1>1. user \in [Accounts -> UserRows]
  BY DEF UsersInv, UsersTypeOK
<1>2. user' \in [Accounts -> UserRows] /\ user'[u] = row /\ \A v \in Accounts \ {u} : user'[v] = user[v]
  BY <1>1
<1>3. Belonging'
  BY <1>2 DEF UsersInv, Belonging
<1>4. AuthorityHasAdmin'
  <2>1. PICK v \in Accounts : ActiveAdmin(user[v])
    BY DEF UsersInv, AuthorityHasAdmin
  <2>2. \E w \in Accounts : ActiveAdmin(user'[w])
    BY <1>2, <2>1
  <2> QED BY <2>2 DEF AuthorityHasAdmin
<1> QED BY <1>2, <1>3, <1>4 DEF UsersInv, UsersTypeOK

LEMMA AuthorityKeeps ==
  ASSUME UsersInv, NEW actor \in Accounts, NEW u \in Accounts, AuthorityStep(actor, u)
  PROVE  UsersInv'
<1>1. user \in [Accounts -> UserRows] /\ user[u] \in UserRows
  BY DEF UsersInv, UsersTypeOK
<1>2. CASE RemoveUser(actor, u)
  <2> DEFINE row == [user[u] EXCEPT !.live = FALSE]
  <2>1. row \in UserRows /\ row.role = user[u].role /\ row.entity = user[u].entity
    BY <1>1 DEF UserRows
  <2>2. user' = [user EXCEPT ![u] = row]
    BY <1>1, <1>2 DEF RemoveUser
  <2>3. actor \in Accounts \ {u} /\ ActiveAdmin(user[actor])
    BY <1>2 DEF RemoveUser, May, ActiveAdmin
  <2>4. row.role \notin OperatorRoles => row.entity = NoEntity
    BY <2>1 DEF UsersInv, Belonging
  <2> HIDE DEF row
  <2> QED BY <2>1, <2>2, <2>3, <2>4, RowKeeps
<1>3. ASSUME NEW r \in Roles, NEW e \in Entities \cup {NoEntity}, Create(actor, u, r, e)
      PROVE  UsersInv'
  <2> DEFINE row == [live |-> TRUE, role |-> r, active |-> TRUE, entity |-> e]
  <2>1. row \in UserRows /\ (row.role \notin OperatorRoles => row.entity = NoEntity)
    BY <1>3 DEF UserRows, Create, Resolves
  <2>2. user' = [user EXCEPT ![u] = row] /\ ~ActiveAdmin(user[u])
    BY <1>3 DEF Create, NoUser, ActiveAdmin
  <2> HIDE DEF row
  <2> QED BY <2>1, <2>2, RowKeeps
<1>4. ASSUME NEW r \in Roles, NEW e \in Entities \cup {NoEntity}, NEW b \in BOOLEAN,
             UpdateUser(actor, u, r, b, e)
      PROVE  UsersInv'
  <2> DEFINE row == [user[u] EXCEPT !.role = r, !.active = b, !.entity = e]
  <2>1. row \in UserRows /\ row.role = r /\ row.active = b /\ row.entity = e /\ row.live = user[u].live
    BY <1>1 DEF UserRows
  <2>2. user' = [user EXCEPT ![u] = row] /\ Resolves(r, e) /\ user[u].live /\ AdminAccessRetained(u, r, b)
    BY <1>1, <1>4 DEF UpdateUser
  <2>3. row.role \notin OperatorRoles => row.entity = NoEntity
    BY <2>1, <2>2 DEF Resolves
  <2>4. \/ ~ActiveAdmin(user[u]) \/ ActiveAdmin(row)
        \/ \E v \in Accounts \ {u} : ActiveAdmin(user[v])
    BY <2>1, <2>2 DEF AdminAccessRetained, OtherAdmins, ActiveAdmin
  <2> HIDE DEF row
  <2> QED BY <2>1, <2>2, <2>3, <2>4, RowKeeps
<1> QED BY <1>2, <1>3, <1>4 DEF AuthorityStep

LEMMA OperatorKeeps ==
  ASSUME UsersInv, NEW actor \in Accounts, NEW u \in Accounts, OperatorStep(actor, u)
  PROVE  UsersInv'
<1>1. user \in [Accounts -> UserRows] /\ user[u] \in UserRows
  BY DEF UsersInv, UsersTypeOK
<1>2. Colleague(actor, u) /\ user[actor].entity # NoEntity => ~ActiveAdmin(user[u]) /\ user[u].role \in OperatorRoles
  BY DEF UsersInv, Belonging, Colleague, ActiveAdmin, OperatorRoles
<1>3. CASE RemoveFromEntity(actor, u)
  <2> DEFINE row == [user[u] EXCEPT !.live = FALSE]
  <2>1. row \in UserRows /\ row.role = user[u].role
    BY <1>1 DEF UserRows
  <2>2. user' = [user EXCEPT ![u] = row] /\ Colleague(actor, u) /\ user[actor].entity # NoEntity
    BY <1>1, <1>3 DEF RemoveFromEntity
  <2> HIDE DEF row
  <2> QED BY <1>2, <2>1, <2>2, RowKeeps
<1>4. ASSUME NEW r \in OperatorRoles, CreateForEntity(actor, u, r) PROVE UsersInv'
  <2> DEFINE row == [live |-> TRUE, role |-> r, active |-> TRUE, entity |-> user[actor].entity]
  <2>1. row \in UserRows /\ row.role \in OperatorRoles
    BY DEF UsersInv, UsersTypeOK, UserRows, Roles
  <2>2. user' = [user EXCEPT ![u] = row] /\ ~ActiveAdmin(user[u])
    BY <1>4 DEF CreateForEntity, NoUser, ActiveAdmin
  <2> HIDE DEF row
  <2> QED BY <2>1, <2>2, RowKeeps
<1>5. ASSUME NEW r \in OperatorRoles, NEW b \in BOOLEAN, UpdateInEntity(actor, u, r, b) PROVE UsersInv'
  <2> DEFINE row == [user[u] EXCEPT !.role = r, !.active = b]
  <2>1. row \in UserRows /\ row.role \in OperatorRoles
    BY <1>1 DEF UserRows, Roles
  <2>2. user' = [user EXCEPT ![u] = row] /\ Colleague(actor, u) /\ user[actor].entity # NoEntity
    BY <1>1, <1>5 DEF UpdateInEntity
  <2> HIDE DEF row
  <2> QED BY <1>2, <2>1, <2>2, RowKeeps
<1> QED BY <1>3, <1>4, <1>5 DEF OperatorStep

(* However accounts are made, changed, moved between operators, switched   *)
(* off and removed, one live and active administrator is left, for any     *)
(* number of accounts and operators: removal may count the wrong accounts, *)
(* but whoever removes is an active administrator and not the one removed. *)
THEOREM NeverLockedOut == UsersSpec => []AuthorityHasAdmin
<1>1. UsersInv /\ [UsersNext]_user => UsersInv'
  <2> SUFFICES ASSUME UsersInv, [UsersNext]_user PROVE UsersInv'
    OBVIOUS
  <2>1. CASE UNCHANGED user
    BY <2>1 DEF UsersInv, UsersTypeOK, Belonging, AuthorityHasAdmin
  <2>2. ASSUME NEW u \in Accounts, SignUp(u) PROVE UsersInv'
    <3> DEFINE row == [user[u] EXCEPT !.live = TRUE, !.active = TRUE]
    <3>1. user[u] \in UserRows /\ user[u] = NoUser
      BY <2>2 DEF SignUp, UsersInv, UsersTypeOK
    <3>2. row \in UserRows /\ row.role \in OperatorRoles /\ ~ActiveAdmin(user[u])
      <4>1. user[u].role = "OPERATOR_SUBMITTER" /\ user[u].live = FALSE
        BY <3>1 DEF NoUser
      <4>2. row \in UserRows /\ row.role = user[u].role
        BY <3>1 DEF UserRows
      <4> QED BY <4>1, <4>2 DEF OperatorRoles, ActiveAdmin
    <3>3. user' = [user EXCEPT ![u] = row]
      BY <2>2 DEF SignUp, UsersInv, UsersTypeOK
    <3> HIDE DEF row
    <3> QED BY <3>2, <3>3, RowKeeps
  <2>3. CASE UsersNext
    BY <2>2, <2>3, AuthorityKeeps, OperatorKeeps DEF UsersNext
  <2> QED BY <2>1, <2>3
<1>2. UsersInv => AuthorityHasAdmin
  BY DEF UsersInv
<1> QED BY <1>1, <1>2, UsersInitially, PTL DEF UsersSpec

-----------------------------------------------------------------------------
(* Questionnaires.                                                         *)

QuestionnairesInv == template \in [Templates -> TemplateRows] /\ OneInForce /\ RulesResolve

(* Writing a version that is not in force, over one that may have been,    *)
(* brings none into force and touches no rule of those that are.           *)
LEMMA VersionKeeps ==
  ASSUME QuestionnairesInv, NEW t \in Templates, NEW row \in TemplateRows,
         template' = [template EXCEPT ![t] = row],
         row.status # "PUBLISHED" \/ row.live = FALSE
  PROVE  QuestionnairesInv'
<1>1. template \in [Templates -> TemplateRows]
  BY DEF QuestionnairesInv
<1>2. template' \in [Templates -> TemplateRows] /\ template'[t] = row
      /\ \A u \in Templates : u # t => template'[u] = template[u]
  BY <1>1
<1>3. \A u \in Templates : Published(u)' => u # t /\ Published(u) /\ template'[u] = template[u]
  BY <1>2 DEF Published
<1>4. OneInForce'
  BY <1>3 DEF QuestionnairesInv, OneInForce
<1>5. RulesResolve'
  <2> SUFFICES ASSUME NEW u \in Templates, Published(u)'
               PROVE  template'[u].rules \subseteq NumericKeys(u)'
    BY DEF RulesResolve
  <2>1. Published(u) /\ template'[u] = template[u]
    BY <1>3
  <2> QED BY <2>1 DEF QuestionnairesInv, RulesResolve, NumericKeys
<1> QED BY <1>2, <1>4, <1>5 DEF QuestionnairesInv

LEMMA PublishKeeps ==
  ASSUME QuestionnairesInv, NEW t \in Templates, Publish(t) PROVE QuestionnairesInv'
<1>1. template \in [Templates -> TemplateRows] /\ Draft(t) /\ RulesUsable(t)
  BY DEF QuestionnairesInv, Publish
<1> DEFINE Superseding(u) == template[u].name = template[t].name /\ template[u].status = "PUBLISHED"
                             /\ template[u].live
           row(u) == IF u = t THEN [template[t] EXCEPT !.status = "PUBLISHED"]
                     ELSE IF Superseding(u) THEN [template[u] EXCEPT !.status = "ARCHIVED"] ELSE template[u]
<1>2. template' = [u \in Templates |-> row(u)]
  BY DEF Publish
<1>3. \A u \in Templates : /\ row(u) \in TemplateRows /\ row(u).name = template[u].name
                           /\ row(u).rules = template[u].rules /\ row(u).fields = template[u].fields
                           /\ row(u).live = template[u].live
                           /\ u # t /\ Superseding(u) => row(u).status = "ARCHIVED"
                           /\ u # t /\ ~Superseding(u) => row(u) = template[u]
  BY <1>1 DEF TemplateRows, TemplateStatuses
<1> HIDE DEF row
<1>4. \A u \in Templates : Published(u)' => u = t \/ (Published(u) /\ template[u].name # template[t].name)
  BY <1>2, <1>3 DEF Published
<1>5. \A u \in Templates : /\ template'[u].name = template[u].name /\ template'[u].rules = template[u].rules
                           /\ NumericKeys(u)' = NumericKeys(u)
  BY <1>2, <1>3 DEF NumericKeys
<1>6. OneInForce'
  BY <1>4, <1>5 DEF QuestionnairesInv, OneInForce
<1>7. RulesResolve'
  BY <1>1, <1>4, <1>5 DEF QuestionnairesInv, RulesResolve, RulesUsable
<1>8. template' \in [Templates -> TemplateRows]
  BY <1>2, <1>3
<1> QED BY <1>6, <1>7, <1>8 DEF QuestionnairesInv

(* What a step on version t writes, if it does not publish it.             *)
Unpublished(t) ==
  \E row \in TemplateRows : /\ row.status # "PUBLISHED" \/ row.live = FALSE
                            /\ template' = [template EXCEPT ![t] = row]

LEMMA LifeWrites ==
  ASSUME QuestionnairesInv, NEW t \in Templates
  PROVE  /\ Archive(t) \/ Restore(t) \/ RemoveTemplate(t) => Unpublished(t)
         /\ \A n \in Names : CreateTemplate(t, n) \/ RenameTemplate(t, n) => Unpublished(t)
         /\ \A u \in Templates : NewVersion(t, u) => Unpublished(u)
<1>1. template \in [Templates -> TemplateRows] /\ template[t] \in TemplateRows
  BY DEF QuestionnairesInv
<1>2. ASSUME NEW x \in {"ARCHIVED", "DRAFT"}, template' = [template EXCEPT ![t].status = x] PROVE Unpublished(t)
  <2>1. /\ [template[t] EXCEPT !.status = x] \in TemplateRows
        /\ [template[t] EXCEPT !.status = x].status = x
    BY <1>1 DEF TemplateRows, TemplateStatuses
  <2>2. template' = [template EXCEPT ![t] = [template[t] EXCEPT !.status = x]]
    BY <1>1, <1>2
  <2> QED BY <2>1, <2>2 DEF Unpublished
<1>3. RemoveTemplate(t) => Unpublished(t)
  <2>1. /\ [template[t] EXCEPT !.live = FALSE] \in TemplateRows
        /\ [template[t] EXCEPT !.live = FALSE].live = FALSE
    BY <1>1 DEF TemplateRows
  <2>2. RemoveTemplate(t) => template' = [template EXCEPT ![t] = [template[t] EXCEPT !.live = FALSE]]
    BY <1>1 DEF RemoveTemplate
  <2> QED BY <2>1, <2>2 DEF Unpublished
<1>4. ASSUME NEW n \in Names, CreateTemplate(t, n) PROVE Unpublished(t)
  <2> DEFINE row == [template[t] EXCEPT !.live = TRUE, !.name = n]
  <2>1. row \in TemplateRows /\ row.status = template[t].status
    BY <1>1 DEF TemplateRows
  <2>2. template[t].status = "DRAFT"
    BY <1>4 DEF CreateTemplate, NoTemplate
  <2>3. template' = [template EXCEPT ![t] = row]
    BY <1>1, <1>4 DEF CreateTemplate
  <2> QED BY <2>1, <2>2, <2>3 DEF Unpublished
<1>5. ASSUME NEW n \in Names, RenameTemplate(t, n) PROVE Unpublished(t)
  <2> DEFINE row == [template[t] EXCEPT !.name = n]
  <2>1. row \in TemplateRows /\ row.status = template[t].status
    BY <1>1 DEF TemplateRows
  <2>2. template[t].status = "DRAFT" /\ template' = [template EXCEPT ![t] = row]
    BY <1>1, <1>5 DEF RenameTemplate, Draft
  <2> QED BY <2>1, <2>2 DEF Unpublished
<1>6. ASSUME NEW u \in Templates, NewVersion(t, u) PROVE Unpublished(u)
  <2> DEFINE row == [template[t] EXCEPT !.status = "DRAFT"]
  <2>1. row \in TemplateRows /\ row.status = "DRAFT"
    BY <1>1 DEF TemplateRows, TemplateStatuses
  <2>2. template' = [template EXCEPT ![u] = row]
    BY <1>6 DEF NewVersion
  <2> QED BY <2>1, <2>2 DEF Unpublished
<1> QED BY <1>2, <1>3, <1>4, <1>5, <1>6 DEF Archive, Restore, RestoredStatus

LEMMA EditWrites ==
  ASSUME QuestionnairesInv, NEW t \in Templates, EditStep(t)
  PROVE  Unpublished(t)
<1>1. template \in [Templates -> TemplateRows] /\ template[t] \in TemplateRows
  BY DEF QuestionnairesInv
<1>2. template[t].status = "DRAFT"
  BY DEF EditStep, AddSection, RemoveSection, AddField, UpdateField, RemoveField, SaveRule, RemoveRule, Draft
<1>3. ASSUME NEW sections \in SUBSET Sections, NEW fields \in [Keys -> FieldRows \cup {Absent}],
             NEW rules \in SUBSET Keys,
             template' = [template EXCEPT ![t] =
               [template[t] EXCEPT !.sections = sections, !.fields = fields, !.rules = rules]]
      PROVE  Unpublished(t)
  <2> DEFINE row == [template[t] EXCEPT !.sections = sections, !.fields = fields, !.rules = rules]
  <2>1. row \in TemplateRows /\ row.status = template[t].status
    BY <1>1 DEF TemplateRows
  <2> QED BY <1>2, <1>3, <2>1 DEF Unpublished
<1>4. /\ template[t].sections \in SUBSET Sections /\ template[t].rules \in SUBSET Keys
      /\ template[t].fields \in [Keys -> FieldRows \cup {Absent}]
  BY <1>1 DEF TemplateRows
<1>5. ASSUME NEW s \in Sections, AddSection(t, s) PROVE Unpublished(t)
  <2>1. template' = [template EXCEPT ![t] = [template[t] EXCEPT !.sections = template[t].sections \cup {s},
          !.fields = template[t].fields, !.rules = template[t].rules]]
    BY <1>1, <1>5 DEF AddSection, TemplateRows
  <2> QED BY <1>3, <1>4, <2>1
<1>6. ASSUME NEW s \in Sections, RemoveSection(t, s) PROVE Unpublished(t)
  <2> DEFINE left == [k \in Keys |-> IF template[t].fields[k] # Absent /\ template[t].fields[k].section = s
                                     THEN Absent ELSE template[t].fields[k]]
  <2>1. left \in [Keys -> FieldRows \cup {Absent}]
    BY <1>4
  <2>2. template' = [template EXCEPT ![t] = [template[t] EXCEPT !.sections = template[t].sections \ {s},
          !.fields = left, !.rules = template[t].rules]]
    BY <1>1, <1>6 DEF RemoveSection, TemplateRows
  <2> HIDE DEF left
  <2> QED BY <1>3, <1>4, <2>1, <2>2
<1>7. ASSUME NEW k \in Keys, NEW field \in FieldRows \cup {Absent},
             template' = [template EXCEPT ![t].fields[k] = field]
      PROVE  Unpublished(t)
  <2> DEFINE fields == [template[t].fields EXCEPT ![k] = field]
  <2>1. fields \in [Keys -> FieldRows \cup {Absent}]
    BY <1>4
  <2>2. template' = [template EXCEPT ![t] = [template[t] EXCEPT !.sections = template[t].sections,
          !.fields = fields, !.rules = template[t].rules]]
    BY <1>1, <1>7 DEF TemplateRows
  <2> HIDE DEF fields
  <2> QED BY <1>3, <1>4, <2>1, <2>2
<1>8. ASSUME NEW rules \in SUBSET Keys, template' = [template EXCEPT ![t].rules = rules]
      PROVE  Unpublished(t)
  <2>1. template' = [template EXCEPT ![t] = [template[t] EXCEPT !.sections = template[t].sections,
          !.fields = template[t].fields, !.rules = rules]]
    BY <1>1, <1>8 DEF TemplateRows
  <2> QED BY <1>3, <1>4, <2>1
<1>9. ASSUME NEW s \in Sections, NEW k \in Keys, NEW b \in BOOLEAN, AddField(t, s, k, b) PROVE Unpublished(t)
  <2>1. [section |-> s, numeric |-> b] \in FieldRows
    BY DEF FieldRows
  <2> QED BY <1>7, <1>9, <2>1 DEF AddField
<1>10. ASSUME NEW k \in Keys, NEW b \in BOOLEAN, UpdateField(t, k, b) PROVE Unpublished(t)
  <2> DEFINE field == [template[t].fields[k] EXCEPT !.numeric = b]
  <2>1. field \in FieldRows
    BY <1>4, <1>10 DEF UpdateField, FieldRows
  <2>2. template' = [template EXCEPT ![t].fields[k] = field]
    BY <1>1, <1>4, <1>10 DEF UpdateField, TemplateRows
  <2> HIDE DEF field
  <2> QED BY <1>7, <2>1, <2>2
<1>11. ASSUME NEW k \in Keys, RemoveField(t, k) PROVE Unpublished(t)
  BY <1>7, <1>11 DEF RemoveField
<1>12. ASSUME NEW k \in Keys, NEW old \in SUBSET Keys, SaveRule(t, old, k) PROVE Unpublished(t)
  <2>1. (template[t].rules \ old) \cup {k} \in SUBSET Keys
    BY <1>4
  <2>2. template' = [template EXCEPT ![t].rules = (template[t].rules \ old) \cup {k}]
    BY <1>1, <1>12 DEF SaveRule, TemplateRows
  <2> QED BY <1>8, <2>1, <2>2
<1>13. ASSUME NEW k \in Keys, RemoveRule(t, k) PROVE Unpublished(t)
  <2>1. template[t].rules \ {k} \in SUBSET Keys
    BY <1>4
  <2>2. template' = [template EXCEPT ![t].rules = template[t].rules \ {k}]
    BY <1>1, <1>13 DEF RemoveRule, TemplateRows
  <2> QED BY <1>8, <2>1, <2>2
<1> QED BY <1>5, <1>6, <1>9, <1>10, <1>11, <1>12, <1>13 DEF EditStep

LEMMA VersionsInOrder == QuestionnairesSpec => []QuestionnairesInv
<1>1. QuestionnairesInit => QuestionnairesInv
  <2> SUFFICES ASSUME QuestionnairesInit PROVE QuestionnairesInv
    OBVIOUS
  <2>1. NoTemplate \in TemplateRows
    BY DEF NoTemplate, TemplateRows, TemplateStatuses, NoFields
  <2>2. \A t \in Templates : ~Published(t)
    BY DEF QuestionnairesInit, Published, NoTemplate
  <2> QED BY <2>1, <2>2 DEF QuestionnairesInit, QuestionnairesInv, OneInForce, RulesResolve
<1>2. QuestionnairesInv /\ [QuestionnairesNext]_questionnaireVars => QuestionnairesInv'
  <2> SUFFICES ASSUME QuestionnairesInv, [QuestionnairesNext]_questionnaireVars PROVE QuestionnairesInv'
    OBVIOUS
  <2>1. CASE UNCHANGED template
    BY <2>1 DEF QuestionnairesInv, OneInForce, RulesResolve, Published, NumericKeys
  <2>2. \A t \in Templates : Unpublished(t) => QuestionnairesInv'
    BY VersionKeeps DEF Unpublished
  <2>3. ASSUME NEW t \in Templates, VersionStep(t) \/ EditStep(t) PROVE QuestionnairesInv'
    BY <2>2, <2>3, LifeWrites, EditWrites, PublishKeeps DEF VersionStep
  <2>4. (\E p \in Periods : PeriodStep(p)) => UNCHANGED template
    BY DEF PeriodStep, OpenPeriod, ClosePeriod, RemovePeriod, StartedReturns, CreatePeriod
  <2> QED BY <2>1, <2>3, <2>4 DEF QuestionnairesNext, questionnaireVars
<1> QED BY <1>1, <1>2, PTL DEF QuestionnairesSpec

(* Of each questionnaire at most one version is in force, for any number   *)
(* of versions, names and periods: only publish brings a version into      *)
(* force, and it archives the others that carry its name.                  *)
THEOREM OneVersionInForce == QuestionnairesSpec => []OneInForce
<1>1. QuestionnairesInv => OneInForce
  BY DEF QuestionnairesInv
<1> QED BY <1>1, VersionsInOrder, PTL

(* Every rule of a version in force reads a number that the version asks   *)
(* for, for any number of sections, fields and rules: publish looks at all *)
(* of them, and what is in force is not edited.                            *)
THEOREM RulesOfWhatIsInForce == QuestionnairesSpec => []RulesResolve
<1>1. QuestionnairesInv => RulesResolve
  BY DEF QuestionnairesInv
<1> QED BY <1>1, VersionsInOrder, PTL

-----------------------------------------------------------------------------
(* The files of a complaint: the limit on them, for any limit and any      *)
(* number of uploads in flight.                                            *)

Flying == {s \in Uploads : upload[s] # Idle}

(* Every upload in flight found room before its own row was there, and the *)
(* last one to look left room for all the others.                          *)
RoomFound == Cardinality(attached) + Cardinality(Flying) <= MaxFiles + Cardinality(Uploads) - 1

ComplaintsInv == ComplaintsTypeOK /\ RoomFound

LEMMA FlyingFinite ==
  /\ IsFiniteSet(Flying)  /\ Cardinality(Flying) \in Nat
  /\ Cardinality(Uploads) \in Nat /\ Cardinality(Uploads) > 0
  /\ Cardinality(Flying) <= Cardinality(Uploads)
<1>1. Flying \subseteq Uploads
  BY DEF Flying
<1>2. IsFiniteSet(Flying) /\ Cardinality(Flying) <= Cardinality(Uploads)
  BY <1>1, FS_Subset, UploadsAssumption
<1> QED BY <1>2, FS_CardinalityType, FS_EmptySet, UploadsAssumption

LEMMA ComplaintsInitially == ComplaintsInit => ComplaintsInv
<1> SUFFICES ASSUME ComplaintsInit PROVE ComplaintsInv
  OBVIOUS
<1>1. Flying = {} /\ Cardinality(Flying) = 0 /\ Cardinality(attached) = 0 /\ IsFiniteSet(attached)
  BY FS_EmptySet DEF ComplaintsInit, Flying
<1>2. RoomFound
  BY <1>1, FlyingFinite, MaxFilesAssumption DEF RoomFound
<1>3. ComplaintsTypeOK
  BY <1>1 DEF ComplaintsInit, ComplaintsTypeOK, ComplaintStatuses, UploadRequests, HandlerRequests
<1> QED BY <1>2, <1>3 DEF ComplaintsInv

(* The upload of s, and only that one, lands or is lost.                   *)
LEMMA LandingFlying ==
  ASSUME ComplaintsInv, NEW s \in Uploads, upload[s] # Idle, upload' = [upload EXCEPT ![s] = Idle]
  PROVE  Cardinality(Flying') = Cardinality(Flying) - 1
<1>1. Flying' = Flying \ {s} /\ s \in Flying
  BY DEF Flying, ComplaintsInv, ComplaintsTypeOK
<1> QED BY <1>1, FlyingFinite, FS_RemoveElement

LEMMA UploadKeeps ==
  ASSUME ComplaintsInv, NEW s \in Uploads,
         \/ SaveFile(s) \/ CreateAttachment(s) \/ AbandonUpload(s) \/ \E f \in Files : Attach(s, f)
  PROVE  ComplaintsInv'
<1>1. IsFiniteSet(attached) /\ Cardinality(attached) \in Nat /\ upload[s] \in UploadRequests
  BY FS_CardinalityType DEF ComplaintsInv, ComplaintsTypeOK
<1>2. CASE SaveFile(s)
  <2>1. upload[s] # Idle /\ upload[s].file \in Files
    BY <1>1, <1>2 DEF SaveFile, At, UploadRequests, Idle
  <2>2. [upload[s] EXCEPT !.pc = "create"] \in UploadRequests /\ [upload[s] EXCEPT !.pc = "create"] # Idle
    BY <1>1, <1>2, <2>1 DEF SaveFile, At, UploadRequests, Idle
  <2>3. ComplaintsTypeOK'
    BY <1>2, <2>1, <2>2 DEF SaveFile, Continue, ComplaintsInv, ComplaintsTypeOK
  <2>4. Flying' = Flying /\ attached' = attached
    BY <1>2, <2>1, <2>2 DEF SaveFile, Continue, Flying, ComplaintsInv, ComplaintsTypeOK
  <2> QED BY <2>3, <2>4 DEF ComplaintsInv, RoomFound
<1>3. CASE CreateAttachment(s)
  <2> DEFINE f == upload[s].file
  <2>1. f \in Files /\ upload[s] # Idle
    BY <1>1, <1>3 DEF CreateAttachment, At, UploadRequests, Idle
  <2>2. IsFiniteSet(attached') /\ Cardinality(attached') <= Cardinality(attached) + 1
        /\ Cardinality(attached') \in Nat
    <3>1. attached' = attached \cup {f}
      BY <1>3 DEF CreateAttachment
    <3>2. /\ IsFiniteSet(attached \cup {f})
          /\ Cardinality(attached \cup {f}) =
               IF f \in attached THEN Cardinality(attached) ELSE Cardinality(attached) + 1
      BY <1>1, FS_AddElement
    <3> HIDE DEF f
    <3> QED BY <1>1, <3>1, <3>2
  <2>3. ComplaintsTypeOK'
    BY <1>3, <2>1, <2>2 DEF CreateAttachment, Finish, ComplaintsInv, ComplaintsTypeOK, UploadRequests
  <2>4. Cardinality(Flying') = Cardinality(Flying) - 1
    BY <1>3, <2>1, LandingFlying DEF CreateAttachment, Finish
  <2> QED BY <1>1, <2>2, <2>3, <2>4, FlyingFinite, MaxFilesAssumption DEF ComplaintsInv, RoomFound
<1>4. CASE AbandonUpload(s)
  <2>1. Cardinality(Flying') = Cardinality(Flying) - 1 /\ attached' = attached
    BY <1>4, LandingFlying DEF AbandonUpload, Drop, Finish
  <2>2. ComplaintsTypeOK'
    BY <1>4 DEF AbandonUpload, Drop, Finish, ComplaintsInv, ComplaintsTypeOK, UploadRequests
  <2> QED BY <1>1, <2>1, <2>2, FlyingFinite, MaxFilesAssumption DEF ComplaintsInv, RoomFound
<1>5. ASSUME NEW f \in Files, Attach(s, f)
      PROVE  ComplaintsInv'
  <2>1. ComplaintsTypeOK'
    BY <1>5 DEF Attach, FirstWrite, Begin, ComplaintsInv, ComplaintsTypeOK, UploadRequests
  <2>2. Cardinality(Flying') <= Cardinality(Uploads) /\ Cardinality(Flying') \in Nat
    <3>1. Flying' \subseteq Uploads
      BY DEF Flying
    <3> QED BY <3>1, FS_Subset, FS_CardinalityType, UploadsAssumption
  <2>3. Cardinality(attached) < MaxFiles /\ attached' = attached
    BY <1>5 DEF Attach, HasRoom
  <2> QED BY <1>1, <2>1, <2>2, <2>3, FlyingFinite, MaxFilesAssumption DEF ComplaintsInv, RoomFound
<1> QED BY <1>2, <1>3, <1>4, <1>5

LEMMA ComplaintsKeep == ComplaintsInv /\ [ComplaintsNext]_complaintVars => ComplaintsInv'
<1> SUFFICES ASSUME ComplaintsInv, [ComplaintsNext]_complaintVars PROVE ComplaintsInv'
  OBVIOUS
<1>1. CASE UNCHANGED complaintVars
  BY <1>1 DEF complaintVars, ComplaintsInv, ComplaintsTypeOK, RoomFound, Flying
<1>2. CASE FileComplaint
  <2>1. ComplaintsTypeOK' /\ UNCHANGED <<attached, upload>>
    BY <1>2 DEF FileComplaint, ComplaintsInv, ComplaintsTypeOK, ComplaintStatuses, OpenStatuses
  <2> QED BY <2>1 DEF ComplaintsInv, RoomFound, Flying
<1>3. ASSUME NEW f \in Files, RemoveAttachment(f)
      PROVE  ComplaintsInv'
  <2>1. IsFiniteSet(attached) /\ Cardinality(attached) \in Nat /\ f \in attached
    BY <1>3, FS_CardinalityType DEF RemoveAttachment, ComplaintsInv, ComplaintsTypeOK
  <2>2. IsFiniteSet(attached') /\ Cardinality(attached') = Cardinality(attached) - 1
    BY <1>3, <2>1, FS_RemoveElement DEF RemoveAttachment
  <2>3. ComplaintsTypeOK' /\ Flying' = Flying
    BY <1>3, <2>2 DEF RemoveAttachment, ComplaintsInv, ComplaintsTypeOK, Flying
  <2> QED BY <2>1, <2>2, <2>3, FlyingFinite, MaxFilesAssumption DEF ComplaintsInv, RoomFound
<1>4. ASSUME NEW h \in Handlers, NEW status \in ComplaintStatuses, UpdateStatus(h, status)
      PROVE  ComplaintsInv'
  <2>1. ComplaintsTypeOK' /\ UNCHANGED <<attached, upload>>
    BY <1>4 DEF UpdateStatus, Begin, ComplaintsInv, ComplaintsTypeOK, HandlerRequests
  <2> QED BY <2>1 DEF ComplaintsInv, RoomFound, Flying
<1>5. ASSUME NEW h \in Handlers, WriteStatus(h)
      PROVE  ComplaintsInv'
  <2>1. handler[h].status \in ComplaintStatuses
    BY <1>5 DEF WriteStatus, At, ComplaintsInv, ComplaintsTypeOK, HandlerRequests, Idle
  <2>2. ComplaintsTypeOK' /\ UNCHANGED <<attached, upload>>
    BY <1>5, <2>1 DEF WriteStatus, Finish, ComplaintsInv, ComplaintsTypeOK, HandlerRequests, TerminalStatuses
  <2> QED BY <2>2 DEF ComplaintsInv, RoomFound, Flying
<1> QED BY <1>1, <1>2, <1>3, <1>4, <1>5, UploadKeeps DEF ComplaintsNext

(* Uploads that look for room at the same time pass the limit by one fewer *)
(* than may be in flight, and never by more (attach counts before it       *)
(* stores and creates).                                                    *)
THEOREM LimitNearlyKept == ComplaintsSpec => []OverrunBounded
<1>1. ComplaintsInv => OverrunBounded
  <2> SUFFICES ASSUME ComplaintsInv PROVE OverrunBounded
    OBVIOUS
  <2>1. Cardinality(attached) \in Nat
    BY FS_CardinalityType DEF ComplaintsInv, ComplaintsTypeOK
  <2> QED BY <2>1, FlyingFinite, MaxFilesAssumption DEF ComplaintsInv, RoomFound, OverrunBounded
<1> QED BY <1>1, ComplaintsInitially, ComplaintsKeep, PTL DEF ComplaintsSpec

(* Statuses, files and requests keep their types, and the attached files   *)
(* stay finitely many.                                                     *)
THEOREM ComplaintTypes == ComplaintsSpec => []ComplaintsTypeOK
<1>1. ComplaintsInv => ComplaintsTypeOK
  BY DEF ComplaintsInv
<1> QED BY <1>1, ComplaintsInitially, ComplaintsKeep, PTL DEF ComplaintsSpec

(* A row about to be created has its file stored already.                  *)
StoredFirst ==
  /\ ComplaintsInv /\ EvidenceStored
  /\ \A s \in Uploads : upload[s].pc = "create" => upload[s].file \in blobs

LEMMA StoredFirstKept == StoredFirst /\ [ComplaintsNext]_complaintVars => StoredFirst'
<1> SUFFICES ASSUME StoredFirst, [ComplaintsNext]_complaintVars PROVE StoredFirst'
  OBVIOUS
<1>1. ComplaintsInv /\ ComplaintsInv' /\ upload \in [Uploads -> UploadRequests]
  BY ComplaintsKeep DEF StoredFirst, ComplaintsInv, ComplaintsTypeOK
<1>2. ASSUME NEW s \in Uploads, SaveFile(s) \/ CreateAttachment(s) \/ AbandonUpload(s)
      PROVE  StoredFirst'
  <2>1. CASE SaveFile(s)
    <3>1. /\ upload' = [upload EXCEPT ![s] = [upload[s] EXCEPT !.pc = "create"]]
          /\ blobs' = blobs \cup {upload[s].file} /\ attached' = attached
      BY <2>1 DEF SaveFile, Continue
    <3>2. upload[s] # Idle
      BY <2>1 DEF SaveFile, At, Idle
    <3>3. upload'[s].file = upload[s].file /\ \A t \in Uploads \ {s} : upload'[t] = upload[t]
      BY <1>1, <3>1, <3>2 DEF UploadRequests
    <3> QED BY <1>1, <3>1, <3>3 DEF StoredFirst, EvidenceStored
  <2>2. CASE CreateAttachment(s)
    BY <1>1, <2>2 DEF CreateAttachment, At, Finish, Idle, StoredFirst, EvidenceStored
  <2>3. CASE AbandonUpload(s)
    BY <1>1, <2>3 DEF AbandonUpload, Drop, Finish, Idle, StoredFirst, EvidenceStored
  <2> QED BY <1>2, <2>1, <2>2, <2>3
<1>3. ASSUME NEW s \in Uploads, NEW f \in Files, Attach(s, f)
      PROVE  StoredFirst'
  BY <1>1, <1>3 DEF Attach, FirstWrite, Begin, StoredFirst, EvidenceStored
<1>4. ASSUME NEW f \in Files, RemoveAttachment(f)
      PROVE  StoredFirst'
  BY <1>1, <1>4 DEF RemoveAttachment, StoredFirst, EvidenceStored
<1>5. CASE UNCHANGED <<blobs, attached, upload>>
  BY <1>1, <1>5 DEF StoredFirst, EvidenceStored
<1> QED BY <1>2, <1>3, <1>4, <1>5
        DEF ComplaintsNext, complaintVars, FileComplaint, WriteStatus, UpdateStatus

(* However many uploads fail half way and whatever is removed meanwhile, a *)
(* file on a complaint is in the storage (attach stores before it creates  *)
(* the row, removeAttachment leaves the file).                             *)
THEOREM EvidenceKept == ComplaintsSpec => []EvidenceStored
<1>1. ComplaintsInit => StoredFirst
  BY ComplaintsInitially DEF ComplaintsInit, StoredFirst, EvidenceStored, Idle
<1>2. StoredFirst => EvidenceStored
  BY DEF StoredFirst
<1> QED BY <1>1, <1>2, StoredFirstKept, PTL DEF ComplaintsSpec

-----------------------------------------------------------------------------
(* Recovery codes: their single use, for any number of codes, challenges   *)
(* and requests in flight.                                                 *)

(* A request that is about to spend a code names one.                      *)
CodesNamed ==
  /\ login = [s \in Logins |-> login[s]]
  /\ \A s \in Logins : login[s].pc \in {"find", "spend"} => login[s].code \in Codes

(* A code that is not spent or replaced has let nobody through.            *)
Ledgered ==
  /\ recovery \in [Codes -> CodeStates]
  /\ spends \in [Codes -> Nat]
  /\ \A c \in Codes : IF recovery[c] \in {"spent", "gone"} THEN spends[c] <= 1 ELSE spends[c] = 0

FactorInv == CodesNamed /\ Ledgered

LEMMA FactorInitially == FactorInit => FactorInv
  BY DEF FactorInit, FactorInv, CodesNamed, Ledgered, CodeStates, Idle

LEMMA RetiredKeeps ==
  ASSUME Ledgered, spends' = spends, recovery' = Retired
  PROVE  Ledgered'
  BY DEF Ledgered, Retired, CodeStates

(* A fresh set is made of codes nobody has used.                           *)
LEMMA FreshKeeps ==
  ASSUME Ledgered, spends' = spends, FreshSet(recovery')
  PROVE  Ledgered'
<1>1. PICK set \in SUBSET {c \in Codes : recovery[c] = "unissued"} :
        recovery' = [c \in Codes |-> IF c \in set THEN "live" ELSE Retired[c]]
  BY DEF FreshSet
<1>2. \A c \in Codes : Retired[c] = IF recovery[c] = "unissued" THEN "unissued" ELSE "gone"
  BY DEF Retired
<1> QED BY <1>1, <1>2 DEF Ledgered, CodeStates

(* A request moves on, and any code it goes on to spend is a code.         *)
LEMMA Moves ==
  ASSUME FactorInv, NEW s \in Logins, NEW r, login' = [login EXCEPT ![s] = r],
         r.pc \in {"find", "spend"} => r.code \in Codes
  PROVE  CodesNamed'
  BY DEF FactorInv, CodesNamed

LEMMA FactorStepKeeps ==
  ASSUME FactorInv, NEW s \in Logins, FactorStep(s)
  PROVE  FactorInv'
<1> USE DEF Begin, Continue, Finish, Drop, At
<1>1. Idle.pc \notin {"find", "spend"}
  BY DEF Idle
<1>2. \A p : Accepted(p).pc \notin {"find", "spend"}
  BY DEF Accepted
<1>3. \A p, n : Refused(p, n).pc \notin {"find", "spend"}
  BY <1>1 DEF Refused
<1>4. ASSUME UNCHANGED <<recovery, spends>>, NEW r, login' = [login EXCEPT ![s] = r],
             r.pc \in {"find", "spend"} => r.code \in Codes
      PROVE  FactorInv'
  BY <1>4, Moves DEF FactorInv, Ledgered
<1>5. CASE Supersede(s)
  <2>1. [login[s] EXCEPT !.pc = "challenge"].pc = "challenge"
        \/ [login[s] EXCEPT !.pc = "challenge"] = login[s]
    OBVIOUS
  <2> QED BY <1>4, <1>5, <2>1 DEF Supersede
<1>6. CASE FindCode(s)
  <2>1. login[s].code \in Codes
    BY <1>6 DEF FindCode, FactorInv, CodesNamed
  <2>2. [login[s] EXCEPT !.pc = "spend"].code = login[s].code
    OBVIOUS
  <2> QED BY <1>3, <1>4, <1>6, <2>1, <2>2 DEF FindCode
<1>7. CASE SpendCode(s)
  <2> DEFINE c == login[s].code
  <2>1. c \in Codes
    BY <1>7 DEF SpendCode, FactorInv, CodesNamed
  <2>2. CASE Unspent(c)
    <3>1. /\ recovery' = [recovery EXCEPT ![c] = "spent"]
          /\ spends' = [spends EXCEPT ![c] = @ + 1]
          /\ login' = [login EXCEPT ![s] = Accepted(login[s].purpose)]
      BY <1>7, <2>2 DEF SpendCode
    <3>2. recovery[c] = "live" /\ spends[c] = 0
      BY <2>1, <2>2 DEF Unspent, FactorInv, Ledgered
    <3>3. Ledgered'
      BY <2>1, <3>1, <3>2 DEF FactorInv, Ledgered, CodeStates
    <3>4. CodesNamed'
      BY <1>2, <3>1, Moves
    <3> QED BY <3>3, <3>4 DEF FactorInv
  <2>3. CASE ~Unspent(c)
    BY <1>3, <1>4, <1>7, <2>3 DEF SpendCode
  <2> QED BY <2>2, <2>3
<1>8. CASE Disable(s)
  BY <1>1, <1>8, RetiredKeeps, Moves DEF Disable, FactorInv
<1>9. CASE Regenerate(s) \/ ConfirmEnrolment(s)
  BY <1>1, <1>9, FreshKeeps, Moves DEF Regenerate, ConfirmEnrolment, FactorInv
<1>10. CASE CountRefusal(s) \/ SignIn(s) \/ BeginEnrolment(s) \/ AbandonLogin(s)
            \/ \E k \in Challenges : CreateChallenge(s, k)
  BY <1>1, <1>4, <1>10 DEF CountRefusal, SignIn, BeginEnrolment, AbandonLogin, CreateChallenge
<1>11. ASSUME NEW m \in Methods, Challenge(s, m)
       PROVE  FactorInv'
  BY <1>4, <1>11 DEF Challenge
<1>12. ASSUME NEW p \in Purposes, GiveOwnCode(s, p)
       PROVE  FactorInv'
  BY <1>2, <1>3, <1>4, <1>12 DEF GiveOwnCode
<1>13. ASSUME NEW p \in Purposes, NEW c \in Codes, GiveRecoveryCode(s, p, c)
       PROVE  FactorInv'
  BY <1>4, <1>13 DEF GiveRecoveryCode
<1>14. ASSUME NEW step \in {"enrol", "confirm"}, StartEnrolment(s, step)
       PROVE  FactorInv'
  BY <1>4, <1>14 DEF StartEnrolment
<1> QED BY <1>5, <1>6, <1>7, <1>8, <1>9, <1>10, <1>11, <1>12, <1>13, <1>14 DEF FactorStep

LEMMA FactorKeeps == FactorInv /\ [FactorNext]_factorVars => FactorInv'
<1> SUFFICES ASSUME FactorInv, [FactorNext]_factorVars PROVE FactorInv'
  OBVIOUS
<1>1. CASE UNCHANGED factorVars
  BY <1>1 DEF factorVars, FactorInv, CodesNamed, Ledgered
<1>2. ASSUME NEW k \in Challenges, Exhaust(k)
      PROVE  FactorInv'
  BY <1>2 DEF Exhaust, FactorInv, CodesNamed, Ledgered
<1>3. CASE ResetFor
  BY <1>3, RetiredKeeps DEF ResetFor, FactorInv, CodesNamed
<1> QED BY <1>1, <1>2, <1>3, FactorStepKeeps DEF FactorNext

(* However many requests have found a recovery code unused, and whatever   *)
(* is enrolled, disabled, reset or regenerated meanwhile, the code is      *)
(* accepted once (consumeRecoveryCode's conditional update).               *)
THEOREM CodeSpentOnce == FactorSpec => []RecoveryCodeOnce
<1>1. FactorInv => RecoveryCodeOnce
  BY DEF FactorInv, Ledgered, RecoveryCodeOnce
<1> QED BY <1>1, FactorInitially, FactorKeeps, PTL DEF FactorSpec
=============================================================================
