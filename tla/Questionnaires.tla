--------------------------- MODULE Questionnaires ---------------------------
(***************************************************************************)
(* Questionnaires (templates) in their versions, and the reporting periods *)
(* that are opened on them.  One administrator works at a time: a request  *)
(* is one step.  Of a rule only the field it reads is told apart, and of a *)
(* field whether its answer is a number.                                   *)
(***************************************************************************)
EXTENDS Naturals

CONSTANTS
  Templates,  \* versions there may be, of all questionnaires
  Names,      \* names of questionnaires
  Sections,   \* keys of sections
  Keys,       \* keys of fields
  Periods,    \* reporting periods there may be
  Absent      \* no field, no name, no template

ASSUME AbsentAssumption == Absent \notin Names \cup Templates

VARIABLES
  template, \* reporting_templates with their sections, fields and rules
  period    \* reporting_periods

questionnaireVars == <<template, period>>

TemplateStatuses == {"DRAFT", "PUBLISHED", "ARCHIVED"}
FieldRows    == [section : Sections, numeric : BOOLEAN]
TemplateRows == [live : BOOLEAN, name : Names \cup {Absent}, status : TemplateStatuses,
                 sections : SUBSET Sections, fields : [Keys -> FieldRows \cup {Absent}],
                 rules : SUBSET Keys]
PeriodRows == [live : BOOLEAN, template : Templates \cup {Absent},
               status : {"SCHEDULED", "OPEN", "CLOSED"}, started : BOOLEAN]
NoFields   == [k \in Keys |-> Absent]
NoTemplate == [live |-> FALSE, name |-> Absent, status |-> "DRAFT", sections |-> {},
               fields |-> NoFields, rules |-> {}]
NoPeriod   == [live |-> FALSE, template |-> Absent, status |-> "SCHEDULED", started |-> FALSE]

QuestionnairesTypeOK ==
  /\ template \in [Templates -> TemplateRows]
  /\ period \in [Periods -> PeriodRows]

QuestionnairesInit ==
  /\ template = [t \in Templates |-> NoTemplate]
  /\ period = [p \in Periods |-> NoPeriod]

-----------------------------------------------------------------------------
PeriodsOn(t) == {p \in Periods : period[p].live /\ period[p].template = t}

(* numericFieldKeys *)
NumericKeys(t) ==
  {k \in Keys : template[t].fields[k] # Absent /\ template[t].fields[k].numeric}

(* getDraft *)
Draft(t) == template[t].live /\ template[t].status = "DRAFT"

-----------------------------------------------------------------------------
(* The life of a version.                                                  *)

CreateTemplate(t, name) ==
  /\ template[t] = NoTemplate
  /\ template' = [template EXCEPT ![t].live = TRUE, ![t].name = name]
  /\ UNCHANGED period

RenameTemplate(t, name) ==
  /\ Draft(t)
  /\ template' = [template EXCEPT ![t].name = name]
  /\ UNCHANGED period

(* Mutant of RulesUsable: rules were checked when they were saved.         *)
RulesTrusted(t) == TRUE
RulesUsable(t)  == template[t].rules \subseteq NumericKeys(t)

Publish(t) ==
  /\ Draft(t)
  /\ template[t].sections # {}
  /\ RulesUsable(t)
  /\ template' = [u \in Templates |->
       IF u = t THEN [template[t] EXCEPT !.status = "PUBLISHED"]
       ELSE IF template[u].name = template[t].name /\ template[u].status = "PUBLISHED" /\ template[u].live
       THEN [template[u] EXCEPT !.status = "ARCHIVED"] ELSE template[u]]
  /\ UNCHANGED period

NewVersion(t, clone) ==
  /\ template[t].live
  /\ template[clone] = NoTemplate
  /\ template' = [template EXCEPT ![clone] = [template[t] EXCEPT !.status = "DRAFT"]]
  /\ UNCHANGED period

Archive(t) ==
  /\ template[t].live /\ template[t].status # "ARCHIVED"
  /\ \A p \in PeriodsOn(t) : period[p].status = "CLOSED"
  /\ template' = [template EXCEPT ![t].status = "ARCHIVED"]
  /\ UNCHANGED period

(* Mutant of RestoredStatus: what was in force is in force again.          *)
RestoredPublished == "PUBLISHED"
RestoredStatus    == "DRAFT"

Restore(t) ==
  /\ template[t].live /\ template[t].status = "ARCHIVED"
  /\ template' = [template EXCEPT ![t].status = RestoredStatus]
  /\ UNCHANGED period

(* Returns keep their period, so a version with returns has one.           *)
RemoveTemplate(t) ==
  /\ template[t].live /\ PeriodsOn(t) = {}
  /\ template' = [template EXCEPT ![t].live = FALSE]
  /\ UNCHANGED period

-----------------------------------------------------------------------------
(* Editing a draft.                                                        *)

AddSection(t, s) ==
  /\ Draft(t) /\ s \notin template[t].sections
  /\ template' = [template EXCEPT ![t].sections = @ \cup {s}]
  /\ UNCHANGED period

(* Its fields go with it, whatever rules read them.                        *)
RemoveSection(t, s) ==
  /\ Draft(t) /\ s \in template[t].sections
  /\ template' = [template EXCEPT ![t].sections = @ \ {s},
       ![t].fields = [k \in Keys |-> IF @[k] # Absent /\ @[k].section = s THEN Absent ELSE @[k]]]
  /\ UNCHANGED period

AddField(t, s, k, numeric) ==
  /\ Draft(t) /\ s \in template[t].sections /\ template[t].fields[k] = Absent
  /\ template' = [template EXCEPT ![t].fields[k] = [section |-> s, numeric |-> numeric]]
  /\ UNCHANGED period

UpdateField(t, k, numeric) ==
  /\ Draft(t) /\ template[t].fields[k] # Absent
  /\ template' = [template EXCEPT ![t].fields[k].numeric = numeric]
  /\ UNCHANGED period

RemoveField(t, k) ==
  /\ Draft(t) /\ template[t].fields[k] # Absent /\ k \notin template[t].rules
  /\ template' = [template EXCEPT ![t].fields[k] = Absent]
  /\ UNCHANGED period

(* addRule, and updateRule of the rules that read old.                     *)
SaveRule(t, old, k) ==
  /\ Draft(t) /\ old \subseteq template[t].rules /\ k \in NumericKeys(t)
  /\ template' = [template EXCEPT ![t].rules = (@ \ old) \cup {k}]
  /\ UNCHANGED period

RemoveRule(t, k) ==
  /\ Draft(t) /\ k \in template[t].rules
  /\ template' = [template EXCEPT ![t].rules = @ \ {k}]
  /\ UNCHANGED period

-----------------------------------------------------------------------------
(* Reporting periods.                                                      *)

CreatePeriod(p, t, status) ==
  /\ period[p] = NoPeriod
  /\ template[t].live /\ template[t].status = "PUBLISHED"
  /\ period' = [period EXCEPT ![p] = [live |-> TRUE, template |-> t, status |-> status, started |-> FALSE]]
  /\ UNCHANGED template

OpenPeriod(p) ==
  /\ period[p].live
  /\ period' = [period EXCEPT ![p].status = "OPEN"]
  /\ UNCHANGED template

ClosePeriod(p) ==
  /\ period[p].live
  /\ period' = [period EXCEPT ![p].status = "CLOSED"]
  /\ UNCHANGED template

RemovePeriod(p) ==
  /\ period[p].live /\ ~period[p].started
  /\ period' = [period EXCEPT ![p].live = FALSE]
  /\ UNCHANGED template

(* An operator starts a return, or deletes the last draft.                 *)
StartedReturns(p, started) ==
  /\ period[p].live /\ (started => period[p].status = "OPEN")
  /\ period' = [period EXCEPT ![p].started = started]
  /\ UNCHANGED template

-----------------------------------------------------------------------------
VersionStep(t) ==
  \/ Publish(t) \/ Archive(t) \/ Restore(t) \/ RemoveTemplate(t)
  \/ \E n \in Names : CreateTemplate(t, n) \/ RenameTemplate(t, n)
  \/ \E u \in Templates : NewVersion(t, u)

EditStep(t) ==
  \/ \E s \in Sections : AddSection(t, s) \/ RemoveSection(t, s)
  \/ \E k \in Keys : \/ RemoveField(t, k) \/ RemoveRule(t, k) \/ SaveRule(t, {}, k)
                     \/ \E j \in Keys : SaveRule(t, {j}, k)
                     \/ \E b \in BOOLEAN : \/ UpdateField(t, k, b)
                                           \/ \E s \in Sections : AddField(t, s, k, b)

PeriodStep(p) ==
  \/ OpenPeriod(p) \/ ClosePeriod(p) \/ RemovePeriod(p)
  \/ \E b \in BOOLEAN : StartedReturns(p, b)
  \/ \E t \in Templates, x \in {"SCHEDULED", "OPEN"} : CreatePeriod(p, t, x)

QuestionnairesNext ==
  \/ \E t \in Templates : VersionStep(t) \/ EditStep(t)
  \/ \E p \in Periods : PeriodStep(p)

QuestionnairesSpec == QuestionnairesInit /\ [][QuestionnairesNext]_questionnaireVars

-----------------------------------------------------------------------------
Published(t) == template[t].live /\ template[t].status = "PUBLISHED"

(* Of each questionnaire at most one version is in force, however versions *)
(* are renamed, archived, brought back and published in turn: "the current *)
(* version" has an answer (restore, publish).                              *)
OneInForce ==
  \A t, u \in Templates : Published(t) /\ Published(u) /\ template[t].name = template[u].name => t = u

(* Every rule of a version in force reads a number that the version asks   *)
(* for, though sections may go, fields may change type and versions may be *)
(* copied without a look at the rules (publish's final integrity gate).    *)
RulesResolve == \A t \in Templates : Published(t) => template[t].rules \subseteq NumericKeys(t)
=============================================================================
