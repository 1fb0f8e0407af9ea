-------------------------- MODULE PenaltySchedule --------------------------
(***************************************************************************)
(* The arithmetic of a penalty: a line of the schedule, what it charges    *)
(* for a default of so many days, and which line prices a contravention.   *)
(* Amounts are whole cents, time is counted in whole days.                 *)
(***************************************************************************)
EXTENDS Integers

CONSTANT None \* a figure that is not there: no cap, no percentage, no revenue

ASSUME NoneAssumption == None \notin Int

Optional(S) == S \cup {None}

Terms == [fixed   : Nat,             \* charged once
          daily   : Nat,             \* for each further day
          floor   : Optional(Nat),   \* minAmount
          cap     : Optional(Nat),   \* maxAmount
          percent : Optional(Nat)]   \* percentOfRevenue

IsShare(t) == t.percent # None

(* assertAmounts: a line is one instrument or the other, and can charge.   *)
CanCharge(t) ==
  /\ t.percent \notin {None, 0} => t.fixed = 0 /\ t.daily = 0
  /\ t.percent \in {None, 0} => t.fixed > 0 \/ t.daily > 0
  /\ t.cap # None => t.cap >= t.fixed
  /\ t.cap # None /\ t.floor # None => t.floor <= t.cap

DaysBetween(from, to) == IF to <= from THEN 0 ELSE to - from

(* bound: the floor lifts the figure first, so that a cap is a cap.        *)
Floored(t, raw) == IF t.floor # None /\ raw < t.floor THEN t.floor ELSE raw
Capped(t, raw)  == IF t.cap # None /\ raw > t.cap THEN t.cap ELSE raw
Bound(t, raw)   == Capped(t, Floored(t, raw))

(* assessPenalty.  A share of a revenue that is not known yet is pending:  *)
(* no figure, which is not a figure of zero.                               *)
Pending(t, revenue) == IsShare(t) /\ revenue = None
Price(t, days, revenue) ==
  IF Pending(t, revenue) THEN None
  ELSE IF IsShare(t) THEN Bound(t, (revenue * t.percent + 50) \div 100)
  ELSE Bound(t, t.fixed + t.daily * days)

-----------------------------------------------------------------------------
(* ruleFor, over a schedule that maps lines to rows.                       *)

Candidates(schedule, class, on) ==
  {l \in DOMAIN schedule :
     /\ schedule[l].live
     /\ schedule[l].class \in {class, None}
     /\ schedule[l].from <= on
     /\ schedule[l].to = None \/ schedule[l].to >= on}

Newest(schedule, ls) == {l \in ls : \A m \in ls : schedule[m].from <= schedule[l].from}

(* A line naming the class beats a general one; the database breaks ties.  *)
RuleFor(schedule, class, on) ==
  LET ls       == Candidates(schedule, class, on)
      specific == {l \in ls : schedule[l].class = class}
  IN  IF ls = {} THEN {None}
      ELSE Newest(schedule, IF specific # {} THEN specific ELSE ls)
=============================================================================
