----------------------------- MODULE MCServices -----------------------------
(* The services around the filing of returns, side by side: they share no  *)
(* state, so one run checks each of them on its own behaviours.            *)
EXTENDS Notifications, Documents, Reports, Feeds, Complaints, Questionnaires, SecondFactor, Users,
        ReferenceSequence, Autosave

VARIABLE service  \* the one this behaviour is about

vars == <<notificationVars, documentVars, reportVars, feedVars, complaintVars,
          questionnaireVars, factorVars, user, sequenceVars, autosaveVars, service>>

Services == {"notifications", "documents", "reports", "feeds", "complaints", "questionnaires",
             "second factor", "users", "numbers", "autosave"}

Init ==
  /\ service \in Services
  /\ NotificationsInit /\ DocumentsInit /\ ReportsInit /\ FeedsInit
  /\ ComplaintsInit /\ QuestionnairesInit /\ FactorInit /\ UsersInit
  /\ SequenceInit /\ AutosaveInit /\ (service # "autosave" => form = Empty)

NotificationsOn  == service = "notifications" /\ UNCHANGED <<documentVars, reportVars, feedVars, complaintVars, questionnaireVars, factorVars, user, sequenceVars, autosaveVars, service>>
DocumentsOn      == service = "documents" /\ UNCHANGED <<notificationVars, reportVars, feedVars, complaintVars, questionnaireVars, factorVars, user, sequenceVars, autosaveVars, service>>
ReportsOn        == service = "reports" /\ UNCHANGED <<notificationVars, documentVars, feedVars, complaintVars, questionnaireVars, factorVars, user, sequenceVars, autosaveVars, service>>
FeedsOn          == service = "feeds" /\ UNCHANGED <<notificationVars, documentVars, reportVars, complaintVars, questionnaireVars, factorVars, user, sequenceVars, autosaveVars, service>>
ComplaintsOn     == service = "complaints" /\ UNCHANGED <<notificationVars, documentVars, reportVars, feedVars, questionnaireVars, factorVars, user, sequenceVars, autosaveVars, service>>
QuestionnairesOn == service = "questionnaires" /\ UNCHANGED <<notificationVars, documentVars, reportVars, feedVars, complaintVars, factorVars, user, sequenceVars, autosaveVars, service>>
FactorOn         == service = "second factor" /\ UNCHANGED <<notificationVars, documentVars, reportVars, feedVars, complaintVars, questionnaireVars, user, sequenceVars, autosaveVars, service>>
UsersOn          == service = "users" /\ UNCHANGED <<notificationVars, documentVars, reportVars, feedVars, complaintVars, questionnaireVars, factorVars, sequenceVars, autosaveVars, service>>
NumbersOn        == service = "numbers" /\ UNCHANGED <<notificationVars, documentVars, reportVars, feedVars, complaintVars, questionnaireVars, factorVars, user, autosaveVars, service>>
AutosaveOn       == service = "autosave" /\ UNCHANGED <<notificationVars, documentVars, reportVars, feedVars, complaintVars, questionnaireVars, factorVars, user, sequenceVars, service>>

Next ==
  \/ NotificationsOn /\ NotificationsNext
  \/ DocumentsOn /\ DocumentsNext
  \/ ReportsOn /\ ReportsNext
  \/ FeedsOn /\ FeedsNext
  \/ ComplaintsOn /\ ComplaintsNext
  \/ QuestionnairesOn /\ QuestionnairesNext
  \/ FactorOn /\ FactorNext
  \/ UsersOn /\ UsersNext
  \/ NumbersOn /\ SequenceNext
  \/ AutosaveOn /\ AutosaveNext

(* KeepsTrying, HourlyJob and the timer of the browser, of the behaviours  *)
(* they are about.                                                         *)
Fairness ==
  /\ \A w \in Workers : WF_vars(NotificationsOn /\ WorkerStep(w))
  /\ \A w \in Retries : /\ SF_vars(NotificationsOn /\ RecordEmail(w))
                        /\ \A n \in Notices \ Bouncing : SF_vars(NotificationsOn /\ Accept(w, n))
  /\ WF_vars(ReportsOn /\ NextHour)
  /\ \A s \in ReportJobs :
       /\ SF_vars(ReportsOn /\ StartReports(s)) /\ WF_vars(ReportsOn /\ DispatchStep(s))
       /\ \A r \in Schedules, u \in Readers \ Unreachable :
            SF_vars(ReportsOn /\ MailReport(s, r, u))
  /\ WF_vars(AutosaveOn /\ TimerFires)

Spec == Init /\ [][Next]_vars /\ Fairness

-----------------------------------------------------------------------------
CONSTANTS a1, a2, c1, c2, d1, d2, m1, m2

(* Codes, documents and report schedules are interchangeable: each of two  *)
(* comes into being after the other, in one order.                         *)
InOrder ==
  /\ recovery[c2] # "unissued" => recovery[c1] # "unissued"
  /\ document[d2] # NoDocument => document[d1] # NoDocument
  /\ report[m2] # NoReport => report[m1] # NoReport

OneTimetable   == {[quarterly |-> FALSE, offset |-> 0]}
ThreeLists     == {{}, {a1}, {a2}}
PullTimetables == {[frequency |-> "DAILY", hour |-> 0, day |-> 0]}
LapsingTerms   == {[status |-> "ACTIVE", startsAt |-> 0, endsAt |-> 0]}
=============================================================================
