------------------------------ MODULE Reports -------------------------------
(***************************************************************************)
(* Scheduled reports: the hourly job sends every report whose window has   *)
(* come round and which has not gone out since.  It works through the      *)
(* schedules it read at its start, mailing one recipient after the other,  *)
(* while administrators edit them and send some by hand.                   *)
(***************************************************************************)
EXTENDS Requests, Integers

CONSTANTS
  Schedules,   \* report schedules there may be
  Readers,     \* accounts of the Authority that may receive a report
  Unreachable, \* readers that no mail can be sent to
  Timetables,  \* what an administrator may choose: quarterly or monthly, and the
               \* due moment within the month (dayOfPeriod and hour)
  Lists,       \* distribution lists, which may be empty
  Month,       \* hours in a month
  LastHour,    \* bound on the clock
  ReportJobs,  \* slots of the hourly job
  Senders,     \* slots of the "send now" button
  Never        \* lastRunAt of a report that was never sent; no window

ASSUME ReportAssumption ==
  /\ Month \in Nat \ {0} /\ LastHour \in Nat
  /\ Timetables \subseteq [quarterly : BOOLEAN, offset : 0..Month - 1]
  /\ Lists \subseteq SUBSET Readers /\ Never \notin Int

VARIABLES
  hour,     \* the clock
  report,   \* report_schedules
  dispatch  \* the job and the buttons in flight

reportVars == <<hour, report, dispatch>>

ReportRows == [live : BOOLEAN, isEnabled : BOOLEAN, timetable : Timetables \cup {Never},
               readers : Lists \cup {{}}, lastRunAt : Nat \cup {Never}]
NoReport == [live |-> FALSE, isEnabled |-> FALSE, timetable |-> Never, readers |-> {},
             lastRunAt |-> Never]

(* What is left to do, with the recipients that were read; a button has    *)
(* nothing to go on to.                                                    *)
DispatchStates ==
  {Idle} \cup [pc : {"schedules"}, todo : SUBSET Schedules, lists : [Schedules -> SUBSET Readers]]
  \cup [pc : {"mail"}, todo : SUBSET Schedules, lists : [Schedules -> SUBSET Readers],
        schedule : Schedules, left : SUBSET Readers]

ReportsTypeOK ==
  /\ hour \in Nat
  /\ report \in [Schedules -> ReportRows]
  /\ dispatch \in [ReportJobs \cup Senders -> DispatchStates]

ReportsInit ==
  /\ hour = 0
  /\ report = [r \in Schedules |-> NoReport]
  /\ dispatch = [s \in ReportJobs \cup Senders |-> Idle]

-----------------------------------------------------------------------------
(* windowStart, of a monthly or quarterly timetable: the due moment of the *)
(* month that t falls in, once it has come.                                *)
WindowStart(timetable, t) ==
  LET due == (t \div Month) * Month + timetable.offset IN
  IF (timetable.quarterly /\ (t \div Month) % 3 # 0) \/ due > t THEN Never ELSE due

IsDue(row, t) ==
  LET due == WindowStart(row.timetable, t) IN
  due # Never /\ (row.lastRunAt = Never \/ row.lastRunAt < due)

Schedule(todo, lists) ==
  IF todo = {} THEN Idle
  ELSE [pc |-> "schedules", todo |-> todo,
        lists |-> [r \in Schedules |-> IF r \in todo THEN lists[r] ELSE {}]]
Mailing(todo, lists, schedule, left) ==
  [pc |-> "mail", todo |-> todo, lists |-> lists, schedule |-> schedule, left |-> left]

-----------------------------------------------------------------------------
(* runDue: the schedules and the time are read once, so what is due is     *)
(* settled at the start.  A list of nobody is passed over.                 *)
StartReports(s) ==
  /\ s \in ReportJobs
  /\ LET due == {r \in Schedules : /\ report[r].live /\ report[r].isEnabled
                                    /\ IsDue(report[r], hour) /\ report[r].readers # {}}
     IN
     Begin(dispatch, s, Schedule(due, [r \in Schedules |-> report[r].readers]))
  /\ UNCHANGED <<hour, report>>

TakeSchedule(s, schedule) ==
  LET r == dispatch[s] IN
  /\ At(dispatch, s, "schedules") /\ schedule \in r.todo
  /\ Continue(dispatch, s, Mailing(r.todo \ {schedule}, [r.lists EXCEPT ![schedule] = {}], schedule,
                                r.lists[schedule]))
  /\ UNCHANGED <<hour, report>>

(* send: the report is built, then mailed to one recipient at a time.      *)
MailReport(s, schedule, reader) ==
  /\ At(dispatch, s, "mail") /\ dispatch[s].schedule = schedule
  /\ reader \in dispatch[s].left \ Unreachable
  /\ Continue(dispatch, s, [dispatch[s] EXCEPT !.left = @ \ {reader}])
  /\ UNCHANGED <<hour, report>>

StampReport(s, schedule) ==
  LET r == dispatch[s] IN
  /\ At(dispatch, s, "mail") /\ r.schedule = schedule /\ r.left = {}
  /\ report' = [report EXCEPT ![schedule].lastRunAt = hour]
  /\ Continue(dispatch, s, Schedule(r.todo, r.lists))
  /\ UNCHANGED hour

(* Mutant of GoOn: one report that fails takes the others down with it.    *)
GiveUp(r) == Idle
GoOn(r)   == Schedule(r.todo, r.lists)

(* Building it or a mail fails.  The job writes that down on the row and   *)
(* carries on; the button has nothing more to do.                          *)
SendFails(s) ==
  /\ At(dispatch, s, "mail") /\ dispatch[s].left # {}
  /\ Continue(dispatch, s, GoOn(dispatch[s]))
  /\ UNCHANGED <<hour, report>>

(* sendNow, whatever the timetable says, to somebody.                      *)
SendNow(s, schedule) ==
  /\ s \in Senders
  /\ report[schedule].live /\ report[schedule].readers # {}
  /\ Begin(dispatch, s, Mailing({}, [r \in Schedules |-> {}], schedule, report[schedule].readers))
  /\ UNCHANGED <<hour, report>>

(* The process stops; not in the last hour, which bounds the stops.        *)
StopDispatch ==
  /\ hour < LastHour
  /\ dispatch' = [s \in ReportJobs \cup Senders |-> Idle]
  /\ UNCHANGED <<hour, report>>

-----------------------------------------------------------------------------
(* create, update and remove.                                              *)

CreateReport(r, timetable, readers) ==
  /\ report[r] = NoReport
  /\ report' = [report EXCEPT ![r] = [live |-> TRUE, isEnabled |-> TRUE, timetable |-> timetable,
                                      readers |-> readers, lastRunAt |-> Never]]
  /\ UNCHANGED <<hour, dispatch>>

UpdateReport(r, isEnabled, timetable, readers) ==
  /\ report[r].live
  /\ report' = [report EXCEPT ![r].isEnabled = isEnabled, ![r].timetable = timetable,
                              ![r].readers = readers]
  /\ UNCHANGED <<hour, dispatch>>

RemoveReport(r) ==
  /\ report[r].live
  /\ report' = [report EXCEPT ![r].live = FALSE, ![r].isEnabled = FALSE]
  /\ UNCHANGED <<hour, dispatch>>

NextHour ==
  /\ hour < LastHour
  /\ hour' = hour + 1
  /\ UNCHANGED <<report, dispatch>>

-----------------------------------------------------------------------------
DispatchStep(s) ==
  \/ SendFails(s)
  \/ \E r \in Schedules : \/ TakeSchedule(s, r) \/ StampReport(s, r)
                          \/ \E u \in Readers : MailReport(s, r, u)

AdminStep(r) ==
  \/ RemoveReport(r)
  \/ \E k \in Timetables, us \in Lists :
       CreateReport(r, k, us) \/ \E b \in BOOLEAN : UpdateReport(r, b, k, us)

ReportsNext ==
  \/ NextHour
  \/ StopDispatch
  \/ \E s \in ReportJobs \cup Senders : \/ StartReports(s) \/ DispatchStep(s)
                                        \/ \E r \in Schedules : SendNow(s, r)
  \/ \E r \in Schedules : AdminStep(r)

(* Time passes, the job starts every hour and goes on; a mail that is      *)
(* tried in hour after hour is not refused in every one of them.           *)
HourlyJob ==
  /\ WF_reportVars(NextHour)
  /\ \A s \in ReportJobs :
       /\ SF_reportVars(StartReports(s)) /\ WF_reportVars(DispatchStep(s))
       /\ \A r \in Schedules, u \in Readers \ Unreachable : SF_reportVars(MailReport(s, r, u))

ReportsSpec == ReportsInit /\ [][ReportsNext]_reportVars /\ HourlyJob

-----------------------------------------------------------------------------
Due(r) ==
  /\ report[r].live /\ report[r].isEnabled
  /\ IsDue(report[r], hour)
  /\ report[r].readers # {} /\ report[r].readers \cap Unreachable = {}

(* A report that has come round goes out, though others on the list can    *)
(* never be sent, the process stops at times and schedules are edited      *)
(* meanwhile: none stays due for ever (runDue's catch).                    *)
DueGoesOut == \A r \in Schedules : []<>~Due(r)
=============================================================================
