---------------------------- MODULE Enforcement ----------------------------
(***************************************************************************)
(* Cases for returns that were not filed: the sweep that opens them, the   *)
(* penalty run that prices and closes them, the staff who resolve or waive *)
(* them and edit the schedule they are priced under.                       *)
(*                                                                         *)
(* A run works from what it read when it started: the periods still to     *)
(* sweep and who had not filed, or the open cases with their filings and   *)
(* terms.  Other requests, the operators and the clock go on between any   *)
(* two of its writes.  Each run or request occupies a slot; its record in  *)
(* req holds what it has read.                                             *)
(***************************************************************************)
EXTENDS PenaltySchedule, FiniteSets

CONSTANTS
  Operators, Periods,
  ClassOf,     \* the type of each operator
  GraceEnd,    \* the day each period's grace window ends
  RemedyDays,  \* REMEDY_PERIOD_DAYS (30 in the code)
  LastDay,     \* bound on the clock
  Lines,       \* lines the schedule may hold
  LineRows,    \* what an administrator may enter as a line
  Revenues,    \* audited annual revenues
  Sweepers,    \* slots that may run the sweep: the nightly job, the button
  Accruers,    \* slots that may run the penalty run
  Staff        \* slots for requests of the staff

Days  == 0..LastDay
Cases == Operators \X Periods
Slots == Sweepers \cup Accruers \cup Staff

ASSUME RemedyAssumption == RemedyDays \in Nat \ {0} /\ LastDay \in Nat
ASSUME GraceAssumption  == GraceEnd \in [Periods -> Nat]
ASSUME LinesAssumption  == None \notin Lines
ASSUME RevenueAssumption == Revenues \subseteq Nat
ASSUME RowsAssumption ==
  \A row \in LineRows : /\ row.live = TRUE /\ row.terms \in Terms /\ CanCharge(row.terms)
                        /\ DOMAIN row = {"live", "class", "from", "to", "terms"}

VARIABLES
  day,      \* the clock
  closed,   \* periods whose status is CLOSED
  obliged,  \* the active operators of a type the questionnaire applies to
  filed,    \* the day a live return was first submitted for a case, or None
  revenue,  \* the revenue on the latest approved annual return, or None
  schedule, \* penalty_rules
  case,     \* enforcement_cases, keyed by their unique index
  req       \* the runs and requests in flight

vars == <<day, closed, obliged, filed, revenue, schedule, case, req>>
world == <<closed, obliged, filed, revenue>>

Statuses == {"NONE", "OPEN", "RESOLVED", "WAIVED"}

Rows == [status   : Statuses,
         line     : Optional(Lines),   \* penaltyRuleId
         amount   : Optional(Nat),     \* penaltyAmount
         due      : Optional(Nat),     \* remedyDueAt
         assessed : Optional(Nat),     \* penaltyAssessedAt: the amount is payable
         ended    : Optional(Nat),     \* defaultEndedAt
         basis    : Optional(Terms)]   \* history: the terms the amount was worked out under

NoCase == [status |-> "NONE", line |-> None, amount |-> None, due |-> None,
           assessed |-> None, ended |-> None, basis |-> None]
NoLine == [live |-> FALSE, class |-> None, from |-> 0, to |-> None, terms |-> None]

Exists(c) == case[c].status # "NONE"
TermsOf(c) == IF case[c].line = None THEN None ELSE schedule[case[c].line].terms

Idle == [pc |-> "idle"]
Requests ==
  {Idle}
  \cup [pc : {"periods"}, todo : SUBSET Periods]
  \cup [pc : {"missing"}, todo : SUBSET Periods, period : Periods, missing : SUBSET Operators]
  \cup [pc : {"open"}, todo : SUBSET Periods, period : Periods, missing : SUBSET Operators,
        operator : Operators, line : Optional(Lines), terms : Optional(Terms), amount : Optional(Nat)]
  \cup [pc : {"cases"}, todo : SUBSET Cases, now : Nat, arrived : [Cases -> Optional(Nat)],
        terms : [Cases -> Optional(Terms)], was : [Cases -> Optional(Nat)]]
  \cup [pc : {"close"}, case : Cases, status : {"RESOLVED", "WAIVED"}]

(* Every row and every run holds what its table and its handler may hold.  *)
TypeOK ==
  /\ day \in Nat
  /\ closed \in SUBSET Periods
  /\ obliged \in SUBSET Operators
  /\ filed \in [Cases -> Optional(Nat)]
  /\ revenue \in [Operators -> Optional(Nat)]
  /\ schedule \in [Lines -> LineRows \cup {NoLine} \cup {[row EXCEPT !.live = FALSE] : row \in LineRows}]
  /\ case \in [Cases -> Rows]
  /\ req \in [Slots -> Requests]

Init ==
  /\ day = 0
  /\ closed = {} /\ obliged = Operators
  /\ filed = [c \in Cases |-> None]
  /\ revenue = [o \in Operators |-> None]
  /\ schedule = [l \in Lines |-> NoLine]
  /\ case = [c \in Cases |-> NoCase]
  /\ req = [s \in Slots |-> Idle]

-----------------------------------------------------------------------------
(* A run or a request starts, moves on to its next step, or ends.          *)

Begin(s, r)    == req[s] = Idle /\ req' = [req EXCEPT ![s] = r]
At(s, pc)      == req[s].pc = pc
Continue(s, r) == req' = [req EXCEPT ![s] = r]
Finish(s)      == Continue(s, Idle)

(* The process stops or a statement fails: what was written stays.         *)
Abandon(s) ==
  /\ req[s] # Idle
  /\ Finish(s)
  /\ UNCHANGED <<day, world, schedule, case>>

-----------------------------------------------------------------------------
(* The sweep.                                                              *)

Sweepable(p)         == p \in closed \/ day > GraceEnd[p]
Sweeping(todo)       == IF todo = {} THEN Idle ELSE [pc |-> "periods", todo |-> todo]
SweepingFor(p, todo, missing) ==
  IF missing = {} THEN Sweeping(todo)
  ELSE [pc |-> "missing", todo |-> todo, period |-> p, missing |-> missing]

StartSweep(s) ==
  /\ s \in Sweepers
  /\ Begin(s, Sweeping(Periods))
  /\ UNCHANGED <<day, world, schedule, case>>

(* sweepPeriod's reads: the phase, who owes a return, who has filed one.   *)
SweepPeriod(s, p) ==
  /\ At(s, "periods") /\ p \in req[s].todo
  /\ LET rest == req[s].todo \ {p} IN
     Continue(s, IF Sweepable(p)
                   THEN SweepingFor(p, rest, {o \in obliged : filed[<<o, p>>] = None})
                   ELSE Sweeping(rest))
  /\ UNCHANGED <<day, world, schedule, case>>

Without(r, o) == SweepingFor(r.period, r.todo, r.missing \ {o})

(* priceCase's rule, and a mutant: what nobody has priced is not recorded. *)
RulingIfAny(o, p) == RuleFor(schedule, ClassOf[o], GraceEnd[p]) \ {None}
Ruling(o, p)      == RuleFor(schedule, ClassOf[o], GraceEnd[p])

(* A case in any state is left alone.  The default began when the grace    *)
(* window closed, however late the sweep runs.                             *)
PriceCase(s, o) ==
  LET r == req[s] IN
  /\ At(s, "missing") /\ o \in r.missing
  /\ \/ /\ Exists(<<o, r.period>>)
        /\ Continue(s, Without(r, o))
     \/ /\ ~Exists(<<o, r.period>>)
        /\ \E l \in Ruling(o, r.period) :
             LET terms  == IF l = None THEN None ELSE schedule[l].terms
                 amount == IF l = None THEN None
                           ELSE Price(terms, DaysBetween(GraceEnd[r.period], day), revenue[o])
             IN  Continue(s, [pc |-> "open", todo |-> r.todo, period |-> r.period,
                              missing |-> r.missing, operator |-> o, line |-> l,
                              terms |-> terms, amount |-> amount])
  /\ UNCHANGED <<day, world, schedule, case>>

(* The insert.  A case that another sweep has opened meanwhile is the      *)
(* outcome this one wanted.  The remedy notice starts now.                 *)
OpenCase(s) ==
  LET r == req[s]
      c == <<r.operator, r.period>>
  IN
  /\ At(s, "open")
  /\ case' = IF Exists(c) THEN case
             ELSE [case EXCEPT ![c] =
               [status |-> "OPEN", line |-> r.line, amount |-> r.amount,
                due |-> day + RemedyDays, assessed |-> None, ended |-> None,
                basis |-> IF r.amount = None THEN None ELSE r.terms]]
  /\ Continue(s, Without(r, r.operator))
  /\ UNCHANGED <<day, world, schedule>>

(* sweepDue: a failure in one period is caught, and the next one swept.    *)
PeriodFails(s) ==
  /\ req[s].pc \in {"missing", "open"}
  /\ Continue(s, Sweeping(req[s].todo))
  /\ UNCHANGED <<day, world, schedule, case>>

-----------------------------------------------------------------------------
(* The penalty run.                                                        *)

(* Mutant of Accruable: cases nobody has priced are passed over.           *)
AccruableIfPriced(c) == case[c].status = "OPEN" /\ case[c].line # None
Accruable(c)         == case[c].status = "OPEN"

(* Its reads: the open cases with their terms, the first filing for each,  *)
(* the time.                                                               *)
StartAccrual(s) ==
  LET open == {c \in Cases : Accruable(c)}
      ForOpen(F(_)) == [c \in Cases |-> IF c \in open THEN F(c) ELSE None]
  IN
  /\ s \in Accruers
  /\ open # {}
  /\ Begin(s, [pc |-> "cases", todo |-> open, now |-> day,
               arrived |-> ForOpen(LAMBDA c : filed[c]),
               terms   |-> ForOpen(TermsOf),
               was     |-> ForOpen(LAMBDA c : case[c].amount)])
  /\ UNCHANGED <<day, world, schedule, case>>

(* Mutant of Until: the meter runs on to the time of the run.              *)
UntilNow(r, c) == r.now
Until(r, c)    == IF r.arrived[c] # None /\ r.arrived[c] < r.now THEN r.arrived[c] ELSE r.now

Figure(r, c) ==
  IF r.terms[c] = None THEN None
  ELSE Price(r.terms[c], DaysBetween(GraceEnd[c[2]], Until(r, c)), revenue[c[1]])

(* Mutant: the remedy period lapses a day early.                           *)
LapsedEarly(r, c)  == case[c].due = None \/ case[c].due <= r.now + 1
RemedyLapsed(r, c) == case[c].due = None \/ case[c].due <= r.now

Done(s, c) ==
  Continue(s, IF req[s].todo = {c} THEN Idle ELSE [req[s] EXCEPT !.todo = @ \ {c}])

(* The return has arrived: the case is closed, with what had accrued by    *)
(* then.  A share of revenue is not charged if the notice was answered.    *)
CloseFiled(s, c) ==
  LET r       == req[s]
      payable == Figure(r, c) # None /\ ~(~RemedyLapsed(r, c) /\ IsShare(r.terms[c]))
      closing == [case[c] EXCEPT !.status = "RESOLVED", !.ended = r.arrived[c]]
  IN
  /\ At(s, "cases") /\ c \in r.todo
  /\ r.arrived[c] # None
  /\ case' = [case EXCEPT ![c] =
       IF payable THEN [closing EXCEPT !.amount = Figure(r, c), !.assessed = r.now,
                                       !.basis = r.terms[c]]
       ELSE closing]
  /\ Done(s, c)
  /\ UNCHANGED <<day, world, schedule>>

(* Mutant of Moved: a case is priced once.                                 *)
MovedFirst(r, c) == r.was[c] = None /\ Figure(r, c) # None
Moved(r, c) ==
  /\ Figure(r, c) # None
  /\ Figure(r, c) # IF r.was[c] = None THEN 0 ELSE r.was[c]

(* Mutant of StampOf: a run leaves the stamp of the one before it out.     *)
StampOnce(r, c) == IF RemedyLapsed(r, c) /\ case[c].assessed = None THEN r.now ELSE None
StampOf(r, c)   == IF RemedyLapsed(r, c) THEN r.now ELSE None

(* Still missing: the running figure is kept up to date, and is payable    *)
(* once the notice has run out.                                            *)
Reprice(s, c) ==
  LET r == req[s] IN
  /\ At(s, "cases") /\ c \in r.todo
  /\ r.arrived[c] = None
  /\ Moved(r, c)
  /\ case' = [case EXCEPT ![c].amount = Figure(r, c), ![c].assessed = StampOf(r, c),
                          ![c].basis = r.terms[c]]
  /\ Done(s, c)
  /\ UNCHANGED <<day, world, schedule>>

LeaveCase(s, c) ==
  /\ At(s, "cases") /\ c \in req[s].todo
  /\ req[s].arrived[c] = None /\ ~Moved(req[s], c)
  /\ Done(s, c)
  /\ UNCHANGED <<day, world, schedule, case>>

-----------------------------------------------------------------------------
(* The staff.                                                              *)

(* resolve and waive: the status is looked at, then written by id.         *)
Close(s, c, status) ==
  /\ s \in Staff
  /\ case[c].status = "OPEN"
  /\ Begin(s, [pc |-> "close", case |-> c, status |-> status])
  /\ UNCHANGED <<day, world, schedule, case>>

WriteClosure(s) ==
  /\ At(s, "close")
  /\ case' = [case EXCEPT ![req[s].case].status = req[s].status]
  /\ Finish(s)
  /\ UNCHANGED <<day, world, schedule>>

(* ReportingPeriodsService.close: the period is closed, then swept, and a  *)
(* failure of the sweep is only logged.                                    *)
ClosePeriod(s, p) ==
  /\ s \in Staff
  /\ Begin(s, Sweeping({p}))
  /\ closed' = closed \cup {p}
  /\ UNCHANGED <<day, obliged, filed, revenue, schedule, case>>

ReopenPeriod(p) ==
  /\ p \in closed
  /\ closed' = closed \ {p}
  /\ UNCHANGED <<day, obliged, filed, revenue, schedule, case, req>>

(* create and update: a line's amounts may be edited in place.             *)
EnterLine(l, row) ==
  /\ schedule[l] = NoLine \/ schedule[l].live
  /\ schedule' = [schedule EXCEPT ![l] = row]
  /\ UNCHANGED <<day, world, case, req>>

RemoveLine(l) ==
  /\ schedule[l].live
  /\ schedule' = [schedule EXCEPT ![l].live = FALSE]
  /\ UNCHANGED <<day, world, case, req>>

-----------------------------------------------------------------------------
(* The rest of the system, as far as enforcement reads it.                 *)

(* A submit that found the period open may write after it is closed.       *)
FileReturn(c) ==
  /\ filed[c] = None
  /\ filed' = [filed EXCEPT ![c] = day]
  /\ UNCHANGED <<day, closed, obliged, revenue, schedule, case, req>>

(* An annual return is approved, or a later version of it.                 *)
Audit(o, amount) ==
  /\ revenue' = [revenue EXCEPT ![o] = amount]
  /\ UNCHANGED <<day, closed, obliged, filed, schedule, case, req>>

SetObliged(o, isObliged) ==
  /\ obliged' = IF isObliged THEN obliged \cup {o} ELSE obliged \ {o}
  /\ UNCHANGED <<day, closed, filed, revenue, schedule, case, req>>

Tick ==
  /\ day < LastDay
  /\ day' = day + 1
  /\ UNCHANGED <<world, schedule, case, req>>

-----------------------------------------------------------------------------
SweepStep(s) ==
  \/ StartSweep(s) \/ OpenCase(s) \/ PeriodFails(s)
  \/ \E p \in Periods : SweepPeriod(s, p)
  \/ \E o \in Operators : PriceCase(s, o)

AccrualStep(s) ==
  \/ StartAccrual(s)
  \/ \E c \in Cases : CloseFiled(s, c) \/ Reprice(s, c) \/ LeaveCase(s, c)

StaffStep(s) ==
  \/ WriteClosure(s)
  \/ \E c \in Cases, status \in {"RESOLVED", "WAIVED"} : Close(s, c, status)
  \/ \E p \in Periods : ClosePeriod(s, p)

AuthorityStep ==
  \/ \E l \in Lines : RemoveLine(l) \/ (\E row \in LineRows : EnterLine(l, row))
  \/ \E p \in Periods : ReopenPeriod(p)

WorldStep ==
  \/ Tick
  \/ \E c \in Cases : FileReturn(c)
  \/ \E o \in Operators : (\E amount \in Revenues : Audit(o, amount))
                          \/ (\E b \in BOOLEAN : SetObliged(o, b))

Next ==
  \/ \E s \in Slots : SweepStep(s) \/ AccrualStep(s) \/ StaffStep(s) \/ Abandon(s)
  \/ AuthorityStep \/ WorldStep

(* The scheduler starts both runs every night and a run goes on; and what  *)
(* is tried every night does not fail every night.                         *)
NightlyRuns ==
  /\ \A s \in Sweepers : /\ WF_vars(SweepStep(s))
                         /\ \A p \in Periods : SF_vars(SweepPeriod(s, p))
                         /\ \A o \in Operators : SF_vars(PriceCase(s, o))
                         /\ SF_vars(OpenCase(s))
  /\ \A s \in Accruers : /\ WF_vars(AccrualStep(s))
                         /\ \A c \in Cases : SF_vars(CloseFiled(s, c)) /\ SF_vars(Reprice(s, c))

Spec     == Init /\ [][Next]_vars
FairSpec == Spec /\ NightlyRuns

-----------------------------------------------------------------------------
(* Nothing is payable while the operator still has its thirty days, unless *)
(* the return came in meanwhile and the case was closed with it (accrue's  *)
(* remedyLapsed, against the due date sweepPeriod set).                    *)
NothingDueInRemedy ==
  \A c \in Cases : case[c].assessed # None /\ case[c].ended = None => case[c].assessed >= case[c].due

(* What the terms charge for the days a return was missing.                *)
ChargeFor(c) ==
  LET row == case[c] IN
  Price(row.basis, DaysBetween(GraceEnd[c[2]], filed[c]), None)

(* The meter stops on the day the return arrives, however late the penalty *)
(* run is, and whatever a run had read before: what is payable on a line   *)
(* that runs on time never exceeds what its terms ask for up to that day   *)
(* (assessPenalty, and a sweep's figure is only payable once recomputed).  *)
NoChargeAfterFiling ==
  \A c \in Cases :
    case[c].assessed # None /\ filed[c] # None /\ ~IsShare(case[c].basis)
      => case[c].amount <= ChargeFor(c)

(* A run in flight that read the time before the notice had run out.       *)
ReadInRemedy(s, c) == At(s, "cases") /\ c \in req[s].todo /\ ~RemedyLapsed(req[s], c)
SafelyPayable(c)   == case[c].assessed # None /\ \A s \in Accruers : ~ReadInRemedy(s, c)

(* A penalty that has become payable stays payable, whoever waits for the  *)
(* money, once the penalty runs that read before its notice had run out    *)
(* have ended: the nightly run, the button and every later run rewrite the *)
(* stamp, and closings and new readings go on beside them (accrue).        *)
StaysPayable == [][\A c \in Cases : SafelyPayable(c) => SafelyPayable(c)']_vars

Owed(c) == c[1] \in obliged /\ filed[c] = None /\ Sweepable(c[2])

(* Every default is caught: an operator that still owes a return after the *)
(* grace window, or after the close of the period, gets a case, though     *)
(* sweeps fail (sweepDue's per-period catch, sweepPeriod's re-runs).       *)
EveryDefaultCaught == \A c \in Cases : Owed(c) ~> Exists(c) \/ ~Owed(c)

(* A case whose return has arrived is closed without anybody's doing, even *)
(* one opened by a sweep that had read before the return was filed.        *)
FiledIsClosed ==
  \A c \in Cases : case[c].status = "OPEN" /\ filed[c] # None ~> case[c].status # "OPEN"

Awaited(c) ==
  /\ case[c].status = "OPEN" /\ filed[c] = None
  /\ case[c].basis # None /\ case[c].due <= day

(* A priced penalty becomes payable once the notice has run out with the   *)
(* return still missing.                                                   *)
PenaltyFallsDue == \A c \in Cases : Awaited(c) ~> case[c].assessed # None \/ ~Awaited(c)
=============================================================================
