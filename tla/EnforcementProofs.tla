-------------------------- MODULE EnforcementProofs --------------------------
(***************************************************************************)
(* What holds of Enforcement for any operators, periods, schedules and     *)
(* remedy notice, and any number of sweeps, penalty runs and staff.        *)
(***************************************************************************)
EXTENDS Enforcement, TLAPS

-----------------------------------------------------------------------------
(* Figures.                                                                *)

LEMMA ProductType == ASSUME NEW a \in Nat, NEW b \in Nat PROVE a * b \in Nat
  OBVIOUS

LEMMA ProductMonotone ==
  ASSUME NEW a \in Nat, NEW b \in Nat, NEW c \in Nat, b <= c
  PROVE  a * b <= a * c
<1> DEFINE d == c - b
<1>1. d \in Nat /\ c = b + d
  OBVIOUS
<1>2. a * d \in Nat
  BY <1>1, ProductType
<1> HIDE DEF d
<1>3. a * (b + d) = a * b + a * d
  BY <1>1
<1> QED BY <1>1, <1>2, <1>3

LEMMA BoundType ==
  ASSUME NEW t \in Terms, NEW raw \in Nat
  PROVE  Bound(t, raw) \in Nat
  BY NoneAssumption DEF Bound, Capped, Floored, Terms, Optional

LEMMA BoundMonotone ==
  ASSUME NEW t \in Terms, NEW low \in Nat, NEW high \in Nat, low <= high
  PROVE  Bound(t, low) <= Bound(t, high)
  BY NoneAssumption DEF Bound, Capped, Floored, Terms, Optional

LEMMA DaysType ==
  ASSUME NEW from \in Nat, NEW to \in Nat
  PROVE  DaysBetween(from, to) \in Nat
  BY DEF DaysBetween

LEMMA PriceType ==
  ASSUME NEW t \in Terms, NEW days \in Nat, NEW r \in Optional(Nat)
  PROVE  Price(t, days, r) \in Optional(Nat)
<1>1. CASE Pending(t, r)
  BY <1>1 DEF Price, Optional
<1>2. CASE ~Pending(t, r) /\ IsShare(t)
  <2>1. r \in Nat /\ t.percent \in Nat
    BY <1>2 DEF Pending, IsShare, Terms, Optional
  <2>2. r * t.percent \in Nat
    BY <2>1, ProductType
  <2>3. (r * t.percent + 50) \div 100 \in Nat
    BY <2>2
  <2> QED BY <1>2, <2>3, BoundType DEF Price, Optional
<1>3. CASE ~Pending(t, r) /\ ~IsShare(t)
  <2>1. t.fixed \in Nat /\ t.daily \in Nat
    BY DEF Terms
  <2>2. t.fixed + t.daily * days \in Nat
    BY <2>1, ProductType
  <2> QED BY <1>3, <2>2, BoundType DEF Price, Optional
<1> QED BY <1>1, <1>2, <1>3

(* A line that runs on time asks for no less when the return is later, and *)
(* does not look at the revenue.                                           *)
LEMMA PriceMonotone ==
  ASSUME NEW t \in Terms, ~IsShare(t), NEW low \in Nat, NEW high \in Nat, low <= high,
         NEW r, NEW q
  PROVE  /\ Price(t, low, r) \in Nat /\ Price(t, high, q) \in Nat
         /\ Price(t, low, r) <= Price(t, high, q)
<1>1. t.fixed \in Nat /\ t.daily \in Nat
  BY DEF Terms
<1>2. t.daily * low \in Nat /\ t.daily * high \in Nat /\ t.daily * low <= t.daily * high
  BY <1>1, ProductType, ProductMonotone
<1> DEFINE a == t.fixed + t.daily * low
           b == t.fixed + t.daily * high
<1>3. a \in Nat /\ b \in Nat /\ a <= b
  BY <1>1, <1>2
<1>4. Price(t, low, r) = Bound(t, a) /\ Price(t, high, q) = Bound(t, b)
  BY DEF Price, Pending
<1> HIDE DEF a, b
<1> QED BY <1>3, <1>4, BoundType, BoundMonotone

(* No line charges more than its cap, nor, when the cap leaves room for    *)
(* it, less than its floor, whatever the days and the revenue; and what    *)
(* cannot be worked out is no figure, never a charge of zero or the floor  *)
(* (penalty-assessment.ts, bound and assessPenalty).                       *)
THEOREM PriceWithinBounds ==
  ASSUME NEW t \in Terms, CanCharge(t), NEW days \in Nat, NEW r \in Optional(Nat)
  PROVE  LET p == Price(t, days, r) IN
         /\ p = None <=> Pending(t, r)
         /\ p # None /\ t.cap # None   => p <= t.cap
         /\ p # None /\ t.floor # None => p >= t.floor
<1>1. CASE Pending(t, r)
  BY <1>1 DEF Price
<1>2. CASE ~Pending(t, r)
  <2>1. PICK raw \in Nat : Price(t, days, r) = Bound(t, raw)
    <3>1. CASE IsShare(t)
      <4>1. r \in Nat /\ t.percent \in Nat
        BY <1>2, <3>1 DEF Pending, IsShare, Terms, Optional
      <4>2. (r * t.percent + 50) \div 100 \in Nat
        BY <4>1, ProductType
      <4> QED BY <1>2, <3>1, <4>2 DEF Price
    <3>2. CASE ~IsShare(t)
      <4>1. t.fixed + t.daily * days \in Nat
        BY ProductType DEF Terms
      <4> QED BY <1>2, <3>2, <4>1 DEF Price
    <3> QED BY <3>1, <3>2
  <2> QED BY <1>2, <2>1, NoneAssumption, BoundType
          DEF Bound, Capped, Floored, CanCharge, Terms, Optional
<1> QED BY <1>1, <1>2

-----------------------------------------------------------------------------
(* Types.                                                                  *)

LEMMA RequestFields ==
  ASSUME TypeOK, NEW s \in Slots
  PROVE  /\ req[s] \in Requests
         /\ req[s].pc = "periods" => req[s].todo \in SUBSET Periods
         /\ req[s].pc = "missing" => /\ req[s].todo \in SUBSET Periods /\ req[s].period \in Periods
                                     /\ req[s].missing \in SUBSET Operators
         /\ req[s].pc = "open" =>
              /\ req[s].todo \in SUBSET Periods /\ req[s].period \in Periods
              /\ req[s].missing \in SUBSET Operators /\ req[s].operator \in Operators
              /\ req[s].line \in Optional(Lines) /\ req[s].terms \in Optional(Terms)
              /\ req[s].amount \in Optional(Nat)
         /\ req[s].pc = "cases" =>
              /\ req[s] \in [pc : {"cases"}, todo : SUBSET Cases, now : Nat,
                            arrived : [Cases -> Optional(Nat)],
                            terms : [Cases -> Optional(Terms)], was : [Cases -> Optional(Nat)]]
              /\ req[s].todo \in SUBSET Cases /\ req[s].now \in Nat
              /\ req[s].arrived \in [Cases -> Optional(Nat)]
              /\ req[s].terms \in [Cases -> Optional(Terms)]
              /\ req[s].was \in [Cases -> Optional(Nat)]
         /\ req[s].pc = "close" => req[s].case \in Cases /\ req[s].status \in {"RESOLVED", "WAIVED"}
  BY DEF TypeOK, Requests, Idle

LEMMA ContinueType ==
  ASSUME TypeOK, NEW s \in Slots, NEW r \in Requests, Continue(s, r)
  PROVE  req' \in [Slots -> Requests]
  BY DEF TypeOK, Continue

LEMMA SweepingType ==
  ASSUME NEW p \in Periods, NEW todo \in SUBSET Periods, NEW missing \in SUBSET Operators
  PROVE  Idle \in Requests /\ Sweeping(todo) \in Requests /\ SweepingFor(p, todo, missing) \in Requests
  BY DEF Sweeping, SweepingFor, Requests, Idle

LEMMA EditCaseType ==
  ASSUME TypeOK, NEW c \in Cases, NEW row \in Rows, case' = [case EXCEPT ![c] = row]
  PROVE  case' \in [Cases -> Rows]
  BY DEF TypeOK

(* A line of the schedule, live or removed, has terms; no line has none.   *)
LEMMA ScheduleTerms ==
  ASSUME TypeOK, NEW l \in Lines
  PROVE  schedule[l].terms \in Optional(Terms)
<1>1. CASE schedule[l] \in LineRows
  BY <1>1, RowsAssumption DEF Optional
<1>2. CASE schedule[l] = NoLine
  BY <1>2 DEF NoLine, Optional
<1>3. ASSUME NEW row \in LineRows, schedule[l] = [row EXCEPT !.live = FALSE]
      PROVE  schedule[l].terms \in Optional(Terms)
  <2>1. "terms" \in DOMAIN row /\ row.terms \in Terms
    BY RowsAssumption
  <2>2. [row EXCEPT !.live = FALSE].terms = row.terms
    BY <2>1
  <2> QED BY <1>3, <2>1, <2>2 DEF Optional
<1> QED BY <1>1, <1>2, <1>3 DEF TypeOK

LEMMA RulingType ==
  ASSUME TypeOK, NEW o \in Operators, NEW p \in Periods, NEW l \in Ruling(o, p)
  PROVE  /\ l \in Optional(Lines)
         /\ l # None => schedule[l].terms \in Terms
<1>1. l # None => l \in Lines /\ schedule[l].live
  BY DEF TypeOK, Ruling, RuleFor, Newest, Candidates
<1>2. ASSUME NEW row \in LineRows, l # None, schedule[l] = [row EXCEPT !.live = FALSE]
      PROVE  FALSE
  <2>1. "live" \in DOMAIN row
    BY RowsAssumption
  <2> QED BY <1>1, <1>2, <2>1
<1>3. l # None => schedule[l] \in LineRows
  BY <1>1, <1>2 DEF TypeOK, NoLine
<1> QED BY <1>1, <1>3, RowsAssumption DEF Optional

LEMMA FigureType ==
  ASSUME TypeOK, NEW s \in Slots, At(s, "cases"), NEW c \in Cases
  PROVE  /\ Until(req[s], c) \in Nat
         /\ Figure(req[s], c) \in Optional(Nat)
         /\ Figure(req[s], c) # None => req[s].terms[c] \in Terms
<1>1. GraceEnd[c[2]] \in Nat /\ c[1] \in Operators
  BY GraceAssumption DEF Cases
<1>2. Until(req[s], c) \in Nat
  BY RequestFields DEF At, Until, Optional
<1>3. req[s].terms[c] \in Optional(Terms) /\ revenue[c[1]] \in Optional(Nat)
  BY <1>1, RequestFields DEF At, TypeOK
<1> QED BY <1>1, <1>2, <1>3, DaysType, PriceType DEF Figure, Optional

LEMMA SweepType ==
  ASSUME TypeOK, NEW s \in Slots, SweepStep(s)
  PROVE  TypeOK'
<1>1. CASE StartSweep(s)
  <2>1. Sweeping(Periods) \in Requests
    BY DEF Sweeping, Requests, Idle
  <2> QED BY <1>1, <2>1, ContinueType DEF StartSweep, Begin, Continue, TypeOK, world
<1>2. CASE OpenCase(s)
  <2> DEFINE r   == req[s]
             c   == <<r.operator, r.period>>
             row == [status |-> "OPEN", line |-> r.line, amount |-> r.amount,
                     due |-> day + RemedyDays, assessed |-> None, ended |-> None,
                     basis |-> IF r.amount = None THEN None ELSE r.terms]
  <2>1. c \in Cases /\ r.period \in Periods /\ r.todo \in SUBSET Periods
        /\ r.missing \ {r.operator} \in SUBSET Operators
    BY <1>2, RequestFields DEF OpenCase, At, Cases
  <2>2. row \in Rows
    BY <1>2, RequestFields, RemedyAssumption DEF OpenCase, At, TypeOK, Rows, Statuses, Optional
  <2>3. case' \in [Cases -> Rows]
    BY <1>2, <2>1, <2>2, EditCaseType DEF OpenCase, TypeOK
  <2>4. req' \in [Slots -> Requests]
    BY <1>2, <2>1, SweepingType, ContinueType DEF OpenCase, Without
  <2> QED BY <1>2, <2>3, <2>4 DEF OpenCase, TypeOK, world
<1>3. CASE PeriodFails(s)
  <2>1. Sweeping(req[s].todo) \in Requests
    BY <1>3, RequestFields DEF PeriodFails, Sweeping, Requests, Idle
  <2> QED BY <1>3, <2>1, ContinueType DEF PeriodFails, TypeOK, world
<1>4. ASSUME NEW p \in Periods, SweepPeriod(s, p)
      PROVE  TypeOK'
  <2>1. req[s].todo \ {p} \in SUBSET Periods
    BY <1>4, RequestFields DEF SweepPeriod, At
  <2>2. {o \in obliged : filed[<<o, p>>] = None} \in SUBSET Operators
    BY DEF TypeOK
  <2>3. req' \in [Slots -> Requests]
    BY <1>4, <2>1, <2>2, SweepingType, ContinueType DEF SweepPeriod
  <2> QED BY <1>4, <2>3 DEF SweepPeriod, TypeOK, world
<1>5. ASSUME NEW o \in Operators, PriceCase(s, o)
      PROVE  TypeOK'
  <2> DEFINE r == req[s]
  <2>1. r.todo \in SUBSET Periods /\ r.period \in Periods /\ r.missing \in SUBSET Operators
        /\ r.missing \ {o} \in SUBSET Operators
    BY <1>5, RequestFields DEF PriceCase, At
  <2>2. CASE Continue(s, Without(r, o))
    BY <1>5, <2>1, <2>2, SweepingType, ContinueType DEF PriceCase, Without, TypeOK, world
  <2>3. ASSUME NEW l \in Ruling(o, r.period)
        PROVE  LET terms  == IF l = None THEN None ELSE schedule[l].terms
                   amount == IF l = None THEN None
                             ELSE Price(terms, DaysBetween(GraceEnd[r.period], day), revenue[o])
               IN  Continue(s, [pc |-> "open", todo |-> r.todo, period |-> r.period,
                                missing |-> r.missing, operator |-> o, line |-> l,
                                terms |-> terms, amount |-> amount])
                   => req' \in [Slots -> Requests]
    <3> DEFINE terms  == IF l = None THEN None ELSE schedule[l].terms
               amount == IF l = None THEN None
                         ELSE Price(terms, DaysBetween(GraceEnd[r.period], day), revenue[o])
    <3>1. l \in Optional(Lines)
      BY <2>1, RulingType
    <3>2. terms \in Optional(Terms)
      BY <3>1, ScheduleTerms DEF Optional
    <3>3. amount \in Optional(Nat)
      <4>1. DaysBetween(GraceEnd[r.period], day) \in Nat /\ revenue[o] \in Optional(Nat)
        BY <2>1, DaysType, GraceAssumption DEF TypeOK
      <4>2. l # None => terms \in Terms
        BY <2>1, RulingType
      <4> HIDE DEF terms
      <4> QED BY <4>1, <4>2, PriceType DEF Optional
    <3> HIDE DEF terms, amount
    <3>4. [pc |-> "open", todo |-> r.todo, period |-> r.period, missing |-> r.missing,
           operator |-> o, line |-> l, terms |-> terms, amount |-> amount] \in Requests
      BY <2>1, <3>1, <3>2, <3>3 DEF Requests
    <3> QED BY <3>4, ContinueType DEF terms, amount
  <2> QED BY <1>5, <2>2, <2>3 DEF PriceCase, TypeOK, world
<1> QED BY <1>1, <1>2, <1>3, <1>4, <1>5 DEF SweepStep

LEMMA AccrualType ==
  ASSUME TypeOK, NEW s \in Slots, AccrualStep(s)
  PROVE  TypeOK'
<1>1. CASE StartAccrual(s)
  <2> DEFINE open  == {c \in Cases : Accruable(c)}
             begun == [pc |-> "cases", todo |-> open, now |-> day,
                       arrived |-> [c \in Cases |-> IF c \in open THEN filed[c] ELSE None],
                       terms   |-> [c \in Cases |-> IF c \in open THEN TermsOf(c) ELSE None],
                       was     |-> [c \in Cases |-> IF c \in open THEN case[c].amount ELSE None]]
  <2>1. \A c \in Cases : TermsOf(c) \in Optional(Terms)
    BY ScheduleTerms DEF TypeOK, TermsOf, Rows, Optional
  <2>2. \A c \in Cases : case[c].amount \in Optional(Nat) /\ filed[c] \in Optional(Nat)
    BY DEF TypeOK, Rows
  <2>3. begun \in Requests
    BY <2>1, <2>2 DEF TypeOK, Requests, Optional
  <2>4. Continue(s, begun)
    BY <1>1 DEF StartAccrual, Begin, Continue
  <2> QED BY <1>1, <2>3, <2>4, ContinueType DEF StartAccrual, TypeOK, world
<1> SUFFICES ASSUME NEW c \in Cases, CloseFiled(s, c) \/ Reprice(s, c) \/ LeaveCase(s, c)
             PROVE  TypeOK'
  BY <1>1 DEF AccrualStep
<1> USE DEF CloseFiled, Reprice, LeaveCase
<1>2. At(s, "cases") /\ Done(s, c)
  OBVIOUS
<1>3. req' \in [Slots -> Requests]
  <2>1. [req[s] EXCEPT !.todo = @ \ {c}] \in Requests
    BY <1>2, RequestFields DEF At, Requests
  <2> QED BY <1>2, <2>1, ContinueType DEF Done, Requests
<1>4. case' \in [Cases -> Rows]
  <2>1. case[c] \in Rows /\ req[s].arrived[c] \in Optional(Nat) /\ req[s].now \in Nat
    BY <1>2, RequestFields DEF At, TypeOK
  <2>2. CASE CloseFiled(s, c)
    <3> DEFINE closing == [case[c] EXCEPT !.status = "RESOLVED", !.ended = req[s].arrived[c]]
               charged == [closing EXCEPT !.amount = Figure(req[s], c), !.assessed = req[s].now,
                                          !.basis = req[s].terms[c]]
    <3>1. closing \in Rows
      BY <2>1 DEF Rows, Statuses
    <3>2. Figure(req[s], c) # None => charged \in Rows
      BY <1>2, <2>1, <3>1, FigureType DEF Rows, Optional
    <3>3. \/ case' = [case EXCEPT ![c] = charged] /\ Figure(req[s], c) # None
          \/ case' = [case EXCEPT ![c] = closing]
      BY <2>2
    <3> QED BY <3>1, <3>2, <3>3, EditCaseType
  <2>3. CASE Reprice(s, c)
    <3>1. Figure(req[s], c) \in Optional(Nat) /\ req[s].terms[c] \in Terms
      BY <1>2, <2>3, FigureType DEF Moved
    <3>2. StampOf(req[s], c) \in Optional(Nat)
      BY <2>1 DEF StampOf, Optional
    <3> DEFINE row == [case[c] EXCEPT !.amount = Figure(req[s], c), !.assessed = StampOf(req[s], c),
                                      !.basis = req[s].terms[c]]
    <3>3. row \in Rows
      BY <2>1, <3>1, <3>2 DEF Rows, Optional
    <3>4. case' = [case EXCEPT ![c] = row]
      BY <2>3 DEF TypeOK
    <3> QED BY <3>3, <3>4, EditCaseType
  <2>4. CASE LeaveCase(s, c)
    BY <2>4 DEF TypeOK
  <2> QED BY <2>2, <2>3, <2>4
<1> QED BY <1>3, <1>4 DEF TypeOK, world

LEMMA StaffType ==
  ASSUME TypeOK, NEW s \in Slots, StaffStep(s) \/ Abandon(s)
  PROVE  TypeOK'
<1>1. CASE WriteClosure(s)
  <2>1. req[s].case \in Cases /\ req[s].status \in Statuses
    BY <1>1, RequestFields DEF WriteClosure, At, Statuses
  <2>2. [case[req[s].case] EXCEPT !.status = req[s].status] \in Rows
    BY <2>1 DEF TypeOK, Rows
  <2>3. case' \in [Cases -> Rows]
    BY <1>1, <2>1, <2>2, EditCaseType DEF WriteClosure, TypeOK
  <2>4. Idle \in Requests
    BY DEF Requests
  <2> QED BY <1>1, <2>3, <2>4, ContinueType DEF WriteClosure, Finish, TypeOK, world
<1>2. ASSUME NEW c \in Cases, NEW status \in {"RESOLVED", "WAIVED"}, Close(s, c, status)
      PROVE  TypeOK'
  <2>1. [pc |-> "close", case |-> c, status |-> status] \in Requests
    BY DEF Requests
  <2> QED BY <1>2, <2>1, ContinueType DEF Close, Begin, Continue, TypeOK, world
<1>3. ASSUME NEW p \in Periods, ClosePeriod(s, p)
      PROVE  TypeOK'
  <2>1. Sweeping({p}) \in Requests
    BY DEF Sweeping, Requests
  <2> QED BY <1>3, <2>1, ContinueType DEF ClosePeriod, Begin, Continue, TypeOK
<1>4. CASE Abandon(s)
  <2>1. Idle \in Requests
    BY DEF Requests
  <2> QED BY <1>4, <2>1, ContinueType DEF Abandon, Finish, TypeOK, world
<1> QED BY <1>1, <1>2, <1>3, <1>4 DEF StaffStep

LEMMA OthersType ==
  ASSUME TypeOK, AuthorityStep \/ WorldStep
  PROVE  TypeOK'
<1>1. ASSUME NEW l \in Lines, RemoveLine(l)
      PROVE  TypeOK'
  <2>1. schedule[l].live /\ schedule' = [schedule EXCEPT ![l] = [schedule[l] EXCEPT !.live = FALSE]]
    BY <1>1 DEF RemoveLine, TypeOK
  <2>2. ASSUME NEW row \in LineRows, schedule[l] = [row EXCEPT !.live = FALSE]
        PROVE  FALSE
    BY <2>1, <2>2, RowsAssumption
  <2>3. schedule[l] \in LineRows
    BY <2>1, <2>2 DEF TypeOK, NoLine
  <2> DEFINE gone == [schedule[l] EXCEPT !.live = FALSE]
  <2>4. gone \in {[row EXCEPT !.live = FALSE] : row \in LineRows}
    BY <2>3
  <2> DEFINE kept == LineRows \cup {NoLine} \cup {[row EXCEPT !.live = FALSE] : row \in LineRows}
  <2>5. schedule \in [Lines -> kept] /\ gone \in kept /\ schedule' = [schedule EXCEPT ![l] = gone]
    BY <2>1, <2>4 DEF TypeOK
  <2> HIDE DEF gone, kept
  <2>6. schedule' \in [Lines -> kept]
    BY <2>5
  <2> QED BY <1>1, <2>6 DEF RemoveLine, TypeOK, world, kept
<1>2. ASSUME NEW l \in Lines, NEW row \in LineRows, EnterLine(l, row)
      PROVE  TypeOK'
  BY <1>2 DEF EnterLine, TypeOK, world
<1>3. ASSUME NEW p \in Periods, ReopenPeriod(p)
      PROVE  TypeOK'
  BY <1>3 DEF ReopenPeriod, TypeOK
<1>4. CASE Tick
  BY <1>4 DEF Tick, TypeOK, world
<1>5. ASSUME NEW c \in Cases, FileReturn(c)
      PROVE  TypeOK'
  BY <1>5 DEF FileReturn, TypeOK, Optional
<1>6. ASSUME NEW o \in Operators, NEW amount \in Revenues, Audit(o, amount)
      PROVE  TypeOK'
  BY <1>6, RevenueAssumption DEF Audit, TypeOK, Optional
<1>7. ASSUME NEW o \in Operators, NEW b \in BOOLEAN, SetObliged(o, b)
      PROVE  TypeOK'
  BY <1>7 DEF SetObliged, TypeOK
<1> QED BY <1>1, <1>2, <1>3, <1>4, <1>5, <1>6, <1>7 DEF AuthorityStep, WorldStep

LEMMA TypeInitially == Init => TypeOK
<1>1. NoCase \in Rows
  BY DEF NoCase, Rows, Statuses, Optional
<1>2. Idle \in Requests
  BY DEF Requests
<1> QED BY <1>1, <1>2 DEF Init, TypeOK, Optional

LEMMA TypeKept == TypeOK /\ [Next]_vars => TypeOK'
<1> SUFFICES ASSUME TypeOK, [Next]_vars PROVE TypeOK'
  OBVIOUS
<1>1. CASE UNCHANGED vars
  BY <1>1 DEF vars, TypeOK
<1> QED BY <1>1, SweepType, AccrualType, StaffType, OthersType DEF Next

(* Every row of a case and every run in flight has its type, whatever the  *)
(* schedule holds and however many runs and requests there are.            *)
THEOREM TypeCorrect == Spec => []TypeOK
  BY TypeInitially, TypeKept, PTL DEF Spec

-----------------------------------------------------------------------------
(* The inductive invariant.                                                *)

(* A case that exists was opened with a notice.                            *)
Opened == \A c \in Cases : Exists(c) => case[c].due \in Nat

(* What a run has read of a case is no later than the run, and a filing it *)
(* did not see came after it.                                              *)
RunHolds(s, r) ==
  /\ r.pc = "close" => Exists(r.case)
  /\ r.pc = "cases" =>
       /\ s \in Accruers /\ r.now <= day
       /\ \A c \in r.todo : /\ Exists(c)
                            /\ r.arrived[c] = None => filed[c] = None \/ filed[c] >= r.now
                            /\ r.arrived[c] # None => filed[c] = r.arrived[c]
RunsHold == \A s \in Slots : RunHolds(s, req[s])

Dated ==
  \A c \in Cases : /\ filed[c] # None => filed[c] <= day
                   /\ case[c].assessed # None => case[c].assessed <= day

(* What is payable is no more than the terms ask for by the filing, or by  *)
(* now while there is none.                                                *)
MeterAt(c) == DaysBetween(GraceEnd[c[2]], IF filed[c] = None THEN day ELSE filed[c])
Charged ==
  \A c \in Cases :
    case[c].assessed # None =>
      /\ case[c].amount \in Nat /\ case[c].basis \in Terms
      /\ ~IsShare(case[c].basis) => case[c].amount <= Price(case[c].basis, MeterAt(c), None)

IInv == TypeOK /\ Opened /\ RunsHold /\ Dated /\ NothingDueInRemedy /\ Charged

LEMMA Initially == Init => IInv
<1> SUFFICES ASSUME Init PROVE IInv
  OBVIOUS
<1>1. \A c \in Cases : case[c] = NoCase /\ filed[c] = None
  BY DEF Init
<1>2. \A s \in Slots : req[s] = Idle
  BY DEF Init
<1>3. Opened /\ Dated /\ NothingDueInRemedy /\ Charged
  BY <1>1 DEF Opened, Dated, NothingDueInRemedy, Charged, Exists, NoCase
<1>4. RunsHold
  BY <1>2 DEF RunsHold, RunHolds, Idle
<1> QED BY <1>3, <1>4, TypeInitially DEF IInv

LEMMA MeterType ==
  ASSUME TypeOK, NEW c \in Cases
  PROVE  MeterAt(c) \in Nat
  BY GraceAssumption DEF TypeOK, MeterAt, DaysBetween, Optional, Cases

(* A step that writes no case and files nothing, and whose request holds   *)
(* nothing of a case.                                                      *)
LEMMA OtherRequest ==
  ASSUME IInv, TypeOK', NEW s \in Slots, NEW r, r.pc \notin {"close", "cases"}, Continue(s, r),
         UNCHANGED <<day, filed, case>>
  PROVE  IInv'
<1>1. \A q \in Slots : RunHolds(q, req[q])'
  <2> TAKE q \in Slots
  <2>1. CASE q = s
    <3>1. req'[q] = r
      BY <2>1 DEF Continue, IInv, TypeOK
    <3> QED BY <3>1 DEF RunHolds
  <2>2. CASE q # s
    <3>1. req'[q] = req[q]
      BY <2>2 DEF Continue, IInv, TypeOK
    <3> QED BY <3>1 DEF RunHolds, IInv, RunsHold, Exists
  <2> QED BY <2>1, <2>2
<1>2. Opened' /\ Dated' /\ NothingDueInRemedy' /\ Charged'
  BY DEF IInv, Opened, Dated, NothingDueInRemedy, Charged, Exists, MeterAt
<1> QED BY <1>1, <1>2 DEF IInv, RunsHold

LEMMA RunGoesOn ==
  ASSUME IInv, NEW s \in Slots, At(s, "cases"), NEW c \in Cases, Done(s, c),
         UNCHANGED <<day, filed>>, \A d \in Cases : Exists(d) => Exists(d)'
  PROVE  RunsHold'
<1>1. ASSUME NEW q \in Slots
      PROVE  RunHolds(q, req[q])'
  <2>1. q # s => req'[q] = req[q]
    BY DEF Done, Continue, IInv, TypeOK
  <2>2. q = s => req'[q] = Idle \/ req'[q] = [req[s] EXCEPT !.todo = @ \ {c}]
    BY DEF Done, Continue, IInv, TypeOK
  <2>3. \A d \in req[q].todo : req[q].pc = "cases" => d \in Cases
    BY RequestFields DEF IInv
  <2>4. req[q].pc = "close" => req[q].case \in Cases
    BY RequestFields DEF IInv
  <2>5. CASE q # s
    BY <2>1, <2>3, <2>4, <2>5 DEF IInv, RunsHold, RunHolds
  <2>6. CASE q = s /\ req'[q] = Idle
    BY <2>6 DEF RunHolds, Idle
  <2>7. CASE q = s /\ req'[q] = [req[s] EXCEPT !.todo = @ \ {c}]
    <3>1. /\ req'[q].pc = "cases" /\ req'[q].todo = req[q].todo \ {c} /\ req'[q].now = req[q].now
          /\ req'[q].arrived = req[q].arrived
      BY <2>7, RequestFields DEF IInv, At
    <3> QED BY <2>3, <2>7, <3>1 DEF IInv, RunsHold, RunHolds, At
  <2> QED BY <2>2, <2>5, <2>6, <2>7
<1> QED BY <1>1 DEF RunsHold

LEMMA SweepKeeps ==
  ASSUME IInv, NEW s \in Slots, SweepStep(s)
  PROVE  IInv'
<1>1. TypeOK'
  BY SweepType DEF IInv
<1> USE DEF world
<1>2. \A todo : Sweeping(todo).pc \notin {"close", "cases"}
  BY DEF Sweeping, Idle
<1>3. \A p, todo, missing : SweepingFor(p, todo, missing).pc \notin {"close", "cases"}
  BY <1>2 DEF SweepingFor
<1>4. CASE StartSweep(s)
  BY <1>1, <1>2, <1>4, OtherRequest DEF StartSweep, Begin, Continue
<1>5. CASE OpenCase(s)
  <2> DEFINE r == req[s]
             c == <<r.operator, r.period>>
  <2>1. c \in Cases
    BY <1>5, RequestFields DEF OpenCase, At, Cases, IInv
  <2>2. CASE Exists(c)
    BY <1>1, <1>3, <1>5, <2>2, OtherRequest DEF OpenCase, Without
  <2>3. CASE ~Exists(c)
    <3>1. /\ \A d \in Cases \ {c} : case'[d] = case[d]
          /\ case'[c].status = "OPEN" /\ case'[c].due = day + RemedyDays
          /\ case'[c].assessed = None
      BY <1>5, <2>1, <2>3 DEF OpenCase, IInv, TypeOK
    <3>2. UNCHANGED <<day, filed>>
      BY <1>5 DEF OpenCase
    <3> HIDE DEF c
    <3>3. Opened' /\ Dated' /\ NothingDueInRemedy' /\ Charged'
      BY <2>1, <3>1, <3>2, RemedyAssumption
         DEF IInv, TypeOK, Opened, Dated, NothingDueInRemedy, Charged, Exists, MeterAt
    <3>4. ASSUME NEW q \in Slots
          PROVE  RunHolds(q, req[q])'
      <4>1. CASE q = s
        BY <1>3, <1>5, <4>1 DEF OpenCase, Without, Continue, RunHolds, IInv, TypeOK
      <4>2. CASE q # s
        <5>1. req'[q] = req[q]
          BY <1>5, <4>2 DEF OpenCase, Continue, IInv, TypeOK
        <5>2. /\ req[q].pc = "cases" => req[q].todo \subseteq Cases
              /\ req[q].pc = "close" => req[q].case \in Cases
          BY RequestFields DEF IInv
        <5> QED BY <3>1, <3>2, <5>1, <5>2 DEF RunHolds, RunsHold, IInv, Exists
      <4> QED BY <4>1, <4>2
    <3> QED BY <1>1, <3>3, <3>4 DEF IInv, RunsHold
  <2> QED BY <2>2, <2>3
<1>6. CASE PeriodFails(s)
  BY <1>1, <1>2, <1>6, OtherRequest DEF PeriodFails
<1>7. ASSUME NEW p \in Periods, SweepPeriod(s, p)
      PROVE  IInv'
  <2>1. PICK r : Continue(s, r) /\ r.pc \notin {"close", "cases"}
    BY <1>2, <1>3, <1>7 DEF SweepPeriod
  <2> QED BY <1>1, <1>7, <2>1, OtherRequest DEF SweepPeriod
<1>8. ASSUME NEW o \in Operators, PriceCase(s, o)
      PROVE  IInv'
  <2> DEFINE r == req[s]
  <2>1. CASE Continue(s, Without(r, o))
    BY <1>1, <1>3, <1>8, <2>1, OtherRequest DEF PriceCase, Without
  <2>2. ASSUME NEW l, NEW terms, NEW amount,
               Continue(s, [pc |-> "open", todo |-> r.todo, period |-> r.period,
                            missing |-> r.missing, operator |-> o, line |-> l,
                            terms |-> terms, amount |-> amount])
        PROVE  IInv'
    BY <1>1, <1>8, <2>2, OtherRequest DEF PriceCase
  <2> QED BY <1>8, <2>1, <2>2 DEF PriceCase
<1> QED BY <1>4, <1>5, <1>6, <1>7, <1>8 DEF SweepStep

LEMMA StaffKeeps ==
  ASSUME IInv, NEW s \in Slots, StaffStep(s) \/ Abandon(s)
  PROVE  IInv'
<1>1. TypeOK'
  BY StaffType DEF IInv
<1> USE DEF world
<1>2. CASE WriteClosure(s)
  <2> DEFINE c == req[s].case
  <2>1. c \in Cases /\ req[s].status \in {"RESOLVED", "WAIVED"} /\ Exists(c)
    BY <1>2, RequestFields DEF WriteClosure, At, IInv, RunsHold, RunHolds
  <2>2. \A d \in Cases : /\ Exists(d)' <=> Exists(d)
                         /\ case'[d].due = case[d].due /\ case'[d].assessed = case[d].assessed
                         /\ case'[d].ended = case[d].ended /\ case'[d].amount = case[d].amount
                         /\ case'[d].basis = case[d].basis
    BY <1>2, <2>1 DEF WriteClosure, IInv, TypeOK, Rows, Exists
  <2>3. UNCHANGED <<day, filed>>
    BY <1>2 DEF WriteClosure
  <2>4. Opened' /\ Dated' /\ NothingDueInRemedy' /\ Charged'
    BY <2>2, <2>3 DEF IInv, Opened, Dated, NothingDueInRemedy, Charged, MeterAt
  <2>5. ASSUME NEW q \in Slots
        PROVE  RunHolds(q, req[q])'
    <3>1. req'[q] = IF q = s THEN Idle ELSE req[q]
      BY <1>2 DEF WriteClosure, Finish, Continue, IInv, TypeOK
    <3>2. /\ req[q].pc = "cases" => req[q].todo \subseteq Cases
          /\ req[q].pc = "close" => req[q].case \in Cases
      BY RequestFields DEF IInv
    <3>3. CASE q = s
      BY <3>1, <3>3 DEF RunHolds, Idle
    <3>4. CASE q # s
      BY <2>2, <2>3, <3>1, <3>2, <3>4 DEF RunHolds, RunsHold, IInv
    <3> QED BY <3>3, <3>4
  <2> QED BY <1>1, <2>4, <2>5 DEF IInv, RunsHold
<1>3. ASSUME NEW c \in Cases, NEW status \in {"RESOLVED", "WAIVED"}, Close(s, c, status)
      PROVE  IInv'
  <2>1. Opened' /\ Dated' /\ NothingDueInRemedy' /\ Charged'
    BY <1>3 DEF Close, IInv, Opened, Dated, NothingDueInRemedy, Charged, Exists, MeterAt
  <2>2. ASSUME NEW q \in Slots
        PROVE  RunHolds(q, req[q])'
    <3>1. req'[q] = IF q = s THEN [pc |-> "close", case |-> c, status |-> status] ELSE req[q]
      BY <1>3 DEF Close, Begin, IInv, TypeOK
    <3> QED BY <1>3, <3>1 DEF Close, RunHolds, RunsHold, IInv, Exists
  <2> QED BY <1>1, <2>1, <2>2 DEF IInv, RunsHold
<1>4. ASSUME NEW p \in Periods, ClosePeriod(s, p)
      PROVE  IInv'
  <2>1. Sweeping({p}).pc \notin {"close", "cases"}
    BY DEF Sweeping, Idle
  <2> QED BY <1>1, <1>4, <2>1, OtherRequest DEF ClosePeriod, Begin, Continue
<1>5. CASE Abandon(s)
  BY <1>1, <1>5, OtherRequest DEF Abandon, Finish, Idle
<1> QED BY <1>2, <1>3, <1>4, <1>5 DEF StaffStep

LEMMA AccrualKeeps ==
  ASSUME IInv, NEW s \in Slots, AccrualStep(s)
  PROVE  IInv'
<1>1. TypeOK'
  BY AccrualType DEF IInv
<1> USE DEF world
<1>2. CASE StartAccrual(s)
  <2> DEFINE open  == {c \in Cases : Accruable(c)}
             begun == [pc |-> "cases", todo |-> open, now |-> day,
                       arrived |-> [c \in Cases |-> IF c \in open THEN filed[c] ELSE None],
                       terms   |-> [c \in Cases |-> IF c \in open THEN TermsOf(c) ELSE None],
                       was     |-> [c \in Cases |-> IF c \in open THEN case[c].amount ELSE None]]
  <2>1. Begin(s, begun) /\ UNCHANGED <<day, filed, case>> /\ s \in Accruers
    BY <1>2 DEF StartAccrual
  <2>2. Opened' /\ Dated' /\ NothingDueInRemedy' /\ Charged'
    BY <2>1 DEF IInv, Opened, Dated, NothingDueInRemedy, Charged, Exists, MeterAt
  <2>3. ASSUME NEW q \in Slots
        PROVE  RunHolds(q, req[q])'
    <3>1. CASE q = s
      <4>1. /\ req'[q].pc = "cases" /\ req'[q].now = day
            /\ req'[q].todo = open
            /\ \A c \in open : req'[q].arrived[c] = filed[c]
        BY <2>1, <3>1 DEF Begin, IInv, TypeOK
      <4>2. \A c \in open : Exists(c)
        BY DEF Accruable, Exists
      <4>3. day \in Nat /\ \A c \in Cases : filed[c] \in Optional(Nat)
        BY DEF IInv, TypeOK
      <4> HIDE DEF open
      <4> QED BY <2>1, <3>1, <4>1, <4>2, <4>3 DEF RunHolds, Exists, Optional
    <3>2. CASE q # s
      BY <2>1, <3>2 DEF Begin, IInv, TypeOK, RunsHold, RunHolds, Exists
    <3> QED BY <3>1, <3>2
  <2> QED BY <1>1, <2>2, <2>3 DEF IInv, RunsHold
<1> SUFFICES ASSUME NEW c \in Cases, CloseFiled(s, c) \/ Reprice(s, c) \/ LeaveCase(s, c)
             PROVE  IInv'
  BY <1>2 DEF AccrualStep
<1> DEFINE r == req[s]
           figure == Figure(r, c)
<1>3. /\ At(s, "cases") /\ c \in r.todo /\ Done(s, c) /\ UNCHANGED <<day, filed>>
      /\ case[c] \in Rows /\ r.now \in Nat /\ r.now <= day /\ day \in Nat
      /\ Exists(c) /\ case[c].due \in Nat
  BY RequestFields DEF CloseFiled, Reprice, LeaveCase, At, IInv, TypeOK, RunsHold, RunHolds, Opened
<1>4. /\ r.arrived[c] = None => filed[c] = None \/ filed[c] >= r.now
      /\ r.arrived[c] # None => filed[c] = r.arrived[c]
  BY <1>3 DEF IInv, RunsHold, RunHolds, At
<1>5. Until(r, c) \in Nat /\ figure \in Optional(Nat) /\ (figure # None => r.terms[c] \in Terms)
  BY <1>3, FigureType DEF IInv
(* What a run works out is no more than the meter shows at that time.      *)
<1>6. figure # None /\ ~IsShare(r.terms[c])
        => figure \in Nat /\ figure <= Price(r.terms[c], MeterAt(c), None)
  <2> SUFFICES ASSUME figure # None, ~IsShare(r.terms[c])
               PROVE  figure \in Nat /\ figure <= Price(r.terms[c], MeterAt(c), None)
    OBVIOUS
  <2>1. GraceEnd[c[2]] \in Nat
    BY GraceAssumption DEF Cases
  <2>2. filed[c] \in Optional(Nat) /\ (filed[c] # None => filed[c] \in Nat)
    BY DEF IInv, TypeOK, Optional
  <2>3. Until(r, c) <= IF filed[c] = None THEN day ELSE filed[c]
    BY <1>3, <1>4, <2>2 DEF Until
  <2>4. DaysBetween(GraceEnd[c[2]], Until(r, c)) <= MeterAt(c)
    BY <1>3, <1>5, <2>1, <2>2, <2>3 DEF MeterAt, DaysBetween
  <2>5. DaysBetween(GraceEnd[c[2]], Until(r, c)) \in Nat /\ MeterAt(c) \in Nat
    BY <1>5, <2>1, DaysType, MeterType DEF IInv
  <2>6. figure = Price(r.terms[c], DaysBetween(GraceEnd[c[2]], Until(r, c)), revenue[c[1]])
    BY DEF Figure
  <2> HIDE DEF figure, r
  <2> QED BY <1>5, <2>4, <2>5, <2>6, PriceMonotone
(* So a row that takes the run's figure, terms and stamp is in order.      *)
<1>7. ASSUME \A d \in Cases \ {c} : case'[d] = case[d],
             Exists(c)', case'[c].due = case[c].due,
             \/ /\ UNCHANGED <<case[c].amount, case[c].basis, case[c].assessed>>
                /\ case'[c].ended = None => case[c].ended = None
             \/ /\ figure # None /\ case'[c].amount = figure /\ case'[c].basis = r.terms[c]
                /\ case'[c].assessed \in {None, r.now}
                /\ case'[c].assessed = r.now /\ case'[c].ended = None => case[c].due <= r.now
      PROVE  IInv'
  <2>1. Opened'
    BY <1>3, <1>7 DEF IInv, Opened, Exists
  <2>2. Dated'
    BY <1>3, <1>7 DEF IInv, Dated
  <2>3. NothingDueInRemedy'
    BY <1>3, <1>7 DEF IInv, NothingDueInRemedy
  <2>4. Charged'
    <3>1. \A d \in Cases : MeterAt(d)' = MeterAt(d)
      BY <1>3 DEF MeterAt
    <3>2. figure # None => figure \in Nat
      BY <1>5 DEF Optional
    <3> HIDE DEF figure, r
    <3> QED BY <1>5, <1>6, <1>7, <3>1, <3>2 DEF IInv, Charged
  <2>5. RunsHold'
    BY <1>3, <1>7, RunGoesOn DEF Exists
  <2> QED BY <1>1, <2>1, <2>2, <2>3, <2>4, <2>5 DEF IInv
<1>8. CASE CloseFiled(s, c)
  <2>1. case'[c] \in Rows /\ \A d \in Cases \ {c} : case'[d] = case[d]
    BY <1>1, <1>8 DEF CloseFiled, TypeOK, IInv
  <2>2. case'[c].status = "RESOLVED" /\ case'[c].due = case[c].due /\ case'[c].ended = r.arrived[c]
    BY <1>3, <1>8 DEF CloseFiled, IInv, TypeOK, Rows
  <2>3. \/ UNCHANGED <<case[c].amount, case[c].basis, case[c].assessed>>
        \/ /\ figure # None /\ case'[c].amount = figure /\ case'[c].basis = r.terms[c]
           /\ case'[c].assessed = r.now
    BY <1>3, <1>8 DEF CloseFiled, IInv, TypeOK, Rows
  <2>4. r.arrived[c] # None
    BY <1>8 DEF CloseFiled
  <2> HIDE DEF figure, r
  <2> QED BY <1>7, <2>1, <2>2, <2>3, <2>4 DEF Exists
<1>9. CASE Reprice(s, c)
  <2>1. \A d \in Cases \ {c} : case'[d] = case[d]
    BY <1>9 DEF Reprice, TypeOK, IInv
  <2>2. /\ case'[c].status = case[c].status /\ case'[c].due = case[c].due
        /\ case'[c].ended = case[c].ended /\ case'[c].amount = figure
        /\ case'[c].basis = r.terms[c] /\ case'[c].assessed = StampOf(r, c)
    BY <1>3, <1>9 DEF Reprice, IInv, TypeOK, Rows
  <2>3. figure # None
    BY <1>9 DEF Reprice, Moved
  <2>4. StampOf(r, c) \in {None, r.now} /\ (StampOf(r, c) = r.now => case[c].due <= r.now)
    BY <1>3, NoneAssumption DEF StampOf, RemedyLapsed
  <2> HIDE DEF figure, r
  <2> QED BY <1>3, <1>7, <2>1, <2>2, <2>3, <2>4 DEF Exists
<1>10. CASE LeaveCase(s, c)
  <2>1. case' = case
    BY <1>10 DEF LeaveCase
  <2> HIDE DEF figure, r
  <2> QED BY <1>3, <1>7, <2>1 DEF Exists
<1> QED BY <1>8, <1>9, <1>10

LEMMA OthersKeep ==
  ASSUME IInv, AuthorityStep \/ WorldStep
  PROVE  IInv'
<1>1. TypeOK'
  BY OthersType DEF IInv
<1>2. UNCHANGED <<case, req>>
  BY DEF AuthorityStep, WorldStep, RemoveLine, EnterLine, ReopenPeriod, Tick, FileReturn, Audit, SetObliged
<1>3. \A s \in Slots : /\ req[s].pc = "cases" => req[s].todo \subseteq Cases /\ req[s].now \in Nat
                       /\ req[s].pc = "close" => req[s].case \in Cases
  BY RequestFields DEF IInv
<1>4. ASSUME UNCHANGED <<day, filed>>
      PROVE  IInv'
  <2>1. Opened' /\ Dated' /\ NothingDueInRemedy' /\ Charged'
    BY <1>2, <1>4 DEF IInv, Opened, Dated, NothingDueInRemedy, Charged, Exists, MeterAt
  <2>2. RunsHold'
    BY <1>2, <1>4 DEF IInv, RunsHold, RunHolds, Exists
  <2> QED BY <1>1, <2>1, <2>2 DEF IInv
<1>5. CASE Tick
  <2>1. day \in Nat /\ day' = day + 1 /\ filed' = filed
    BY <1>5 DEF Tick, world, IInv, TypeOK
  <2>2. \A c \in Cases : /\ filed[c] \in Optional(Nat) /\ case[c].assessed \in Optional(Nat)
    BY DEF IInv, TypeOK, Rows
  <2>3. Opened' /\ NothingDueInRemedy'
    BY <1>2 DEF IInv, Opened, NothingDueInRemedy, Exists
  <2>4. Dated'
    BY <1>2, <2>1, <2>2 DEF IInv, Dated, Optional
  <2>5. RunsHold'
    BY <1>2, <1>3, <2>1 DEF IInv, RunsHold, RunHolds, Exists
  <2>6. Charged'
    <3> SUFFICES ASSUME NEW c \in Cases, case[c].assessed # None
                 PROVE  /\ case[c].amount \in Nat /\ case[c].basis \in Terms
                        /\ ~IsShare(case[c].basis)
                             => case[c].amount <= Price(case[c].basis, MeterAt(c)', None)
      BY <1>2 DEF Charged
    <3>1. GraceEnd[c[2]] \in Nat
      BY GraceAssumption DEF Cases
    <3>2. MeterAt(c) \in Nat /\ MeterAt(c)' \in Nat /\ MeterAt(c) <= MeterAt(c)'
      BY <1>1, <2>1, <3>1, MeterType DEF MeterAt, DaysBetween, IInv
    <3> DEFINE b == case[c].basis
               low == MeterAt(c)
               high == MeterAt(c)'
    <3>3. /\ case[c].amount \in Nat /\ b \in Terms
          /\ ~IsShare(b) => case[c].amount <= Price(b, low, None)
      BY DEF IInv, Charged
    <3> HIDE DEF low, high, b
    <3>4. ~IsShare(b) => /\ Price(b, low, None) \in Nat /\ Price(b, high, None) \in Nat
                         /\ Price(b, low, None) <= Price(b, high, None)
      BY <3>2, <3>3, PriceMonotone DEF low, high
    <3> QED BY <3>3, <3>4 DEF b, low, high
  <2> QED BY <1>1, <2>3, <2>4, <2>5, <2>6 DEF IInv
<1>6. ASSUME NEW c \in Cases, FileReturn(c)
      PROVE  IInv'
  <2>1. /\ filed[c] = None /\ filed'[c] = day /\ day' = day /\ day \in Nat
        /\ \A d \in Cases \ {c} : filed'[d] = filed[d]
    BY <1>6 DEF FileReturn, IInv, TypeOK
  <2>2. Opened' /\ NothingDueInRemedy'
    BY <1>2 DEF IInv, Opened, NothingDueInRemedy, Exists
  <2>3. Dated'
    BY <1>2, <2>1 DEF IInv, Dated
  <2>4. RunsHold'
    BY <1>2, <1>3, <2>1 DEF IInv, RunsHold, RunHolds, Exists
  <2>5. \A d \in Cases : MeterAt(d)' = MeterAt(d)
    BY <2>1, NoneAssumption DEF MeterAt
  <2>6. Charged'
    BY <1>2, <2>5 DEF IInv, Charged
  <2> QED BY <1>1, <2>2, <2>3, <2>4, <2>6 DEF IInv
<1>7. CASE AuthorityStep \/ (\E o \in Operators : \/ \E amount \in Revenues : Audit(o, amount)
                                                  \/ \E b \in BOOLEAN : SetObliged(o, b))
  BY <1>4, <1>7 DEF AuthorityStep, RemoveLine, EnterLine, ReopenPeriod, Audit, SetObliged, world
<1> QED BY <1>5, <1>6, <1>7 DEF WorldStep

LEMMA Inductive == IInv /\ [Next]_vars => IInv'
<1> SUFFICES ASSUME IInv, [Next]_vars PROVE IInv'
  OBVIOUS
<1>1. CASE UNCHANGED vars
  <2>1. TypeOK' /\ Opened' /\ Dated' /\ NothingDueInRemedy' /\ Charged'
    BY <1>1, TypeKept DEF vars, IInv, Opened, Dated, NothingDueInRemedy, Charged, Exists, MeterAt
  <2>2. RunsHold'
    BY <1>1 DEF vars, IInv, RunsHold, RunHolds, Exists
  <2> QED BY <2>1, <2>2 DEF IInv
<1> QED BY <1>1, SweepKeeps, AccrualKeeps, StaffKeeps, OthersKeep DEF Next

LEMMA InvariantHolds == Spec => []IInv
  BY Initially, Inductive, PTL DEF Spec

(* However many penalty runs overlap, and whatever they had read, nothing  *)
(* becomes payable within the notice unless the return came in (accrue).   *)
THEOREM RemedyRespected == Spec => []NothingDueInRemedy
<1>1. IInv => NothingDueInRemedy
  BY DEF IInv
<1> QED BY <1>1, InvariantHolds, PTL

(* However late a run is, and whatever it had read, what is payable on a   *)
(* line that runs on time is no more than its terms ask for up to the      *)
(* filing (accrue's and assessPenalty's until).                            *)
THEOREM MeterStopsAtFiling == Spec => []NoChargeAfterFiling
<1>1. IInv => NoChargeAfterFiling
  BY DEF IInv, Charged, NoChargeAfterFiling, MeterAt, ChargeFor
<1> QED BY <1>1, InvariantHolds, PTL

-----------------------------------------------------------------------------
(* A payable penalty stays payable, beside any number of penalty runs.     *)

(* An open case has not been ended by a filing, and a penalty needs a case.*)
OpenRunning ==
  \A c \in Cases : /\ case[c].status = "OPEN" => case[c].ended = None
                   /\ ~Exists(c) => case[c].assessed = None

RunInv == IInv /\ OpenRunning

(* The statements that write a case.                                       *)
LEMMA CaseWrites ==
  ASSUME [Next]_vars
  PROVE  \/ case' = case
         \/ \E s \in Slots : \/ OpenCase(s) \/ WriteClosure(s)
                             \/ \E d \in Cases : CloseFiled(s, d) \/ Reprice(s, d)
  BY DEF Next, vars, SweepStep, AccrualStep, StaffStep, AuthorityStep, WorldStep, StartSweep,
         SweepPeriod, PriceCase, PeriodFails, StartAccrual, LeaveCase, Close, ClosePeriod,
         Abandon, RemoveLine, EnterLine, ReopenPeriod, Tick, FileReturn, Audit, SetObliged

LEMMA OpenRunningKept == RunInv /\ [Next]_vars => RunInv'
<1> SUFFICES ASSUME RunInv, [Next]_vars PROVE OpenRunning'
  BY Inductive DEF RunInv
<1>1. IInv /\ TypeOK /\ OpenRunning
  BY DEF RunInv, IInv
<1>2. CASE case' = case
  BY <1>1, <1>2 DEF OpenRunning, Exists
<1>3. ASSUME NEW s \in Slots, OpenCase(s)
      PROVE  OpenRunning'
  <2>1. \A d \in Cases : \/ case'[d] = case[d]
                         \/ case'[d].ended = None /\ case'[d].assessed = None
    BY <1>1, <1>3, RequestFields DEF OpenCase, TypeOK
  <2> QED BY <1>1, <2>1 DEF OpenRunning, Exists
<1>4. ASSUME NEW s \in Slots, WriteClosure(s)
      PROVE  OpenRunning'
  <2>1. req[s].case \in Cases /\ req[s].status \in {"RESOLVED", "WAIVED"}
    BY <1>1, <1>4, RequestFields DEF WriteClosure, At
  <2>2. \A c \in Cases : \/ case'[c] = case[c]
                         \/ case'[c].status \in {"RESOLVED", "WAIVED"}
    BY <1>1, <1>4, <2>1 DEF WriteClosure, TypeOK, Rows
  <2> QED BY <1>1, <2>2 DEF OpenRunning, Exists
<1>5. ASSUME NEW s \in Slots, NEW c \in Cases, CloseFiled(s, c) \/ Reprice(s, c)
      PROVE  OpenRunning'
  <2>1. case[c] \in Rows /\ \A d \in Cases \ {c} : case'[d] = case[d]
    BY <1>1, <1>5 DEF CloseFiled, Reprice, TypeOK
  <2>2. Exists(c) /\ (case[c].status = "OPEN" => case[c].ended = None)
    BY <1>1, <1>5 DEF CloseFiled, Reprice, At, IInv, RunsHold, RunHolds, OpenRunning
  <2>3. CASE CloseFiled(s, c)
    <3>1. case'[c].status = "RESOLVED"
      BY <1>1, <2>1, <2>3 DEF CloseFiled, TypeOK, Rows
    <3> QED BY <1>1, <2>1, <3>1 DEF OpenRunning, Exists
  <2>4. CASE Reprice(s, c)
    <3>1. case'[c].status = case[c].status /\ case'[c].ended = case[c].ended
      BY <1>1, <2>1, <2>4 DEF Reprice, TypeOK, Rows
    <3> QED BY <1>1, <2>1, <2>2, <3>1 DEF OpenRunning, Exists
  <2> QED BY <1>5, <2>3, <2>4
<1> QED BY <1>2, <1>3, <1>4, <1>5, CaseWrites

LEMMA RunInitially == Init => RunInv
<1>1. Init => OpenRunning
  BY DEF Init, OpenRunning, NoCase, Exists
<1> QED BY <1>1, Initially DEF RunInv

(* A penalty run that is under way after a step was under way before it,   *)
(* with the same time read and no more cases left, or starts with it.      *)
LEMMA RunsGoOn ==
  ASSUME IInv, [Next]_vars, NEW s \in Slots, req'[s].pc = "cases"
  PROVE  \/ req[s].pc = "cases" /\ req'[s].now = req[s].now /\ req'[s].todo \subseteq req[s].todo
         \/ StartAccrual(s)
<1> DEFINE Goal == \/ /\ req[s].pc = "cases" /\ req'[s].now = req[s].now
                      /\ req'[s].todo \subseteq req[s].todo
                   \/ StartAccrual(s)
<1>1. TypeOK
  BY DEF IInv
<1>2. CASE req'[s] = req[s]
  BY <1>2
<1>3. ASSUME NEW q \in Slots, NEW r, Continue(q, r), r.pc # "cases"
      PROVE  Goal
  BY <1>1, <1>2, <1>3 DEF Continue, TypeOK
<1>4. \A todo, p, missing : Sweeping(todo).pc # "cases" /\ SweepingFor(p, todo, missing).pc # "cases"
  BY DEF Sweeping, SweepingFor, Idle
<1>5. ASSUME NEW q \in Slots, SweepStep(q)
      PROVE  Goal
  <2>1. CASE StartSweep(q) \/ PeriodFails(q)
    BY <1>3, <1>4, <2>1 DEF StartSweep, PeriodFails, Begin, Continue
  <2>2. CASE OpenCase(q)
    BY <1>3, <1>4, <2>2 DEF OpenCase, Without
  <2>3. CASE \E p \in Periods : SweepPeriod(q, p)
    BY <1>3, <1>4, <2>3 DEF SweepPeriod
  <2>4. ASSUME NEW o \in Operators, PriceCase(q, o)
        PROVE  Goal
    <3>1. CASE Continue(q, Without(req[q], o))
      BY <1>3, <1>4, <3>1 DEF Without
    <3>2. ASSUME NEW l, NEW terms, NEW amount,
                 Continue(q, [pc |-> "open", todo |-> req[q].todo, period |-> req[q].period,
                              missing |-> req[q].missing, operator |-> o, line |-> l,
                              terms |-> terms, amount |-> amount])
          PROVE  Goal
      BY <1>3, <3>2
    <3> QED BY <2>4, <3>1, <3>2 DEF PriceCase
  <2> QED BY <1>5, <2>1, <2>2, <2>3, <2>4 DEF SweepStep
<1>6. ASSUME NEW q \in Slots, AccrualStep(q)
      PROVE  Goal
  <2>1. CASE StartAccrual(q)
    BY <1>1, <1>2, <2>1 DEF StartAccrual, Begin, TypeOK
  <2>2. ASSUME NEW c \in Cases, Done(q, c), At(q, "cases")
        PROVE  Goal
    <3>1. CASE q # s
      BY <1>1, <1>2, <2>2, <3>1 DEF Done, Continue, TypeOK
    <3>2. CASE q = s
      <4>1. req'[s] = Idle \/ (req'[s].todo = req[s].todo \ {c} /\ req'[s].now = req[s].now)
        BY <1>1, <2>2, <3>2, RequestFields DEF Done, Continue, At, TypeOK
      <4> QED BY <2>2, <3>2, <4>1 DEF At, Idle
    <3> QED BY <3>1, <3>2
  <2> QED BY <1>6, <2>1, <2>2 DEF AccrualStep, CloseFiled, Reprice, LeaveCase
<1>7. ASSUME NEW q \in Slots, StaffStep(q) \/ Abandon(q)
      PROVE  Goal
  <2>1. CASE WriteClosure(q) \/ Abandon(q)
    BY <1>3, <2>1 DEF WriteClosure, Abandon, Finish, Idle
  <2>2. ASSUME NEW c \in Cases, NEW status \in {"RESOLVED", "WAIVED"}, Close(q, c, status)
        PROVE  Goal
    BY <1>3, <2>2 DEF Close, Begin, Continue
  <2>3. CASE \E p \in Periods : ClosePeriod(q, p)
    BY <1>3, <1>4, <2>3 DEF ClosePeriod, Begin, Continue
  <2> QED BY <1>7, <2>1, <2>2, <2>3 DEF StaffStep
<1>8. CASE UNCHANGED vars \/ AuthorityStep \/ WorldStep
  BY <1>2, <1>8 DEF vars, AuthorityStep, WorldStep, RemoveLine, EnterLine, ReopenPeriod, Tick,
              FileReturn, Audit, SetObliged
<1> QED BY <1>5, <1>6, <1>7, <1>8 DEF Next

(* A step after which a safely payable penalty is safely payable still.    *)
LEMMA PayableKept ==
  ASSUME RunInv, [Next]_vars, NEW c \in Cases, SafelyPayable(c)
  PROVE  SafelyPayable(c)'
<1>1. /\ TypeOK /\ IInv /\ OpenRunning /\ Exists(c) /\ case[c].assessed \in Nat
      /\ case[c].assessed # None /\ \A s \in Accruers : ~ReadInRemedy(s, c)
      /\ case[c].due \in Nat
  BY DEF RunInv, IInv, OpenRunning, TypeOK, Rows, Optional, SafelyPayable, Opened
<1>2. case'[c].assessed # None /\ case'[c].due = case[c].due
  <2>1. CASE case' = case
    BY <1>1, <2>1
  <2>2. ASSUME NEW s \in Slots, OpenCase(s)
        PROVE  case'[c] = case[c]
    BY <1>1, <2>2, RequestFields DEF OpenCase, TypeOK, Exists
  <2>3. ASSUME NEW s \in Slots, WriteClosure(s)
        PROVE  case'[c].assessed = case[c].assessed /\ case'[c].due = case[c].due
    BY <1>1, <2>3, RequestFields DEF WriteClosure, At, TypeOK, Rows
  <2>4. ASSUME NEW s \in Slots, NEW d \in Cases, CloseFiled(s, d)
        PROVE  case'[c].assessed # None /\ case'[c].due = case[c].due
    <3>1. req[s].now \in Nat
      BY <1>1, <2>4, RequestFields DEF CloseFiled, At
    <3> QED BY <1>1, <2>4, <3>1, NoneAssumption DEF CloseFiled, TypeOK, Rows
  <2>5. ASSUME NEW s \in Slots, NEW d \in Cases, Reprice(s, d)
        PROVE  case'[c].assessed # None /\ case'[c].due = case[c].due
    <3>1. CASE c # d
      BY <1>1, <2>5, <3>1 DEF Reprice, TypeOK
    <3>2. CASE c = d
      <4>1. /\ req[s].now \in Nat /\ c \in req[s].todo
            /\ At(s, "cases") /\ s \in Accruers
        BY <1>1, <2>5, <3>2, RequestFields DEF Reprice, At, IInv, RunsHold, RunHolds
      <4>2. StampOf(req[s], c) = req[s].now
        BY <1>1, <4>1 DEF StampOf, ReadInRemedy
      <4> QED BY <1>1, <2>5, <3>2, <4>1, <4>2, NoneAssumption DEF Reprice, TypeOK, Rows
    <3> QED BY <3>1, <3>2
  <2> QED BY <1>1, <2>1, <2>2, <2>3, <2>4, <2>5, CaseWrites
<1>3. ASSUME NEW s \in Accruers
      PROVE  ~ReadInRemedy(s, c)'
  <2> SUFFICES ASSUME req'[s].pc = "cases", c \in req'[s].todo
               PROVE  case'[c].due <= req'[s].now
    BY DEF ReadInRemedy, RemedyLapsed, At
  <2>1. s \in Slots
    BY DEF Slots
  <2>2. CASE /\ req[s].pc = "cases" /\ req'[s].now = req[s].now
             /\ req'[s].todo \subseteq req[s].todo
    <3>1. case[c].due <= req[s].now
      BY <1>1, <2>2, NoneAssumption DEF ReadInRemedy, RemedyLapsed, At
    <3> QED BY <1>2, <2>2, <3>1
  <2>3. CASE StartAccrual(s)
    <3>1. case[c].status = "OPEN" /\ req'[s].now = day
      BY <1>1, <2>1, <2>3 DEF StartAccrual, Begin, Accruable, TypeOK
    <3>2. case[c].due <= case[c].assessed /\ case[c].assessed <= day
      BY <1>1, <3>1 DEF OpenRunning, IInv, NothingDueInRemedy, Dated
    <3>3. day \in Nat
      BY <1>1 DEF TypeOK
    <3> QED BY <1>1, <1>2, <3>1, <3>2, <3>3
  <2> QED BY <1>1, <2>1, <2>2, <2>3, RunsGoOn
<1> QED BY <1>2, <1>3 DEF SafelyPayable

(* However many penalty runs there are, and whatever else goes on, a       *)
(* penalty that is payable stays payable once the runs that had read       *)
(* before its notice ran out have ended (accrue writes the stamp afresh at *)
(* every change of the figure).                                            *)
THEOREM PayableForGood == Spec => StaysPayable
<1> DEFINE Kept == \A c \in Cases : SafelyPayable(c) => SafelyPayable(c)'
<1>1. RunInv /\ [Next]_vars => [Kept]_vars
  BY PayableKept
<1> HIDE DEF Kept
<1>2. Spec => [][Kept]_vars
  BY <1>1, RunInitially, OpenRunningKept, PTL DEF Spec
<1> QED BY <1>2 DEF StaysPayable, Kept
=============================================================================
