--------------------------- MODULE MCEnforcement ---------------------------
EXTENDS Enforcement

CONSTANTS o1, p1, l1

AllOf(class) == [o \in Operators |-> class]
GraceOnFirst == [p \in Periods |-> 0]

PerDay == [fixed |-> 1, daily |-> 1, floor |-> None, cap |-> None, percent |-> None]
Share  == [fixed |-> 0, daily |-> 0, floor |-> 2, cap |-> None, percent |-> 50]
Line(terms) == [live |-> TRUE, class |-> None, from |-> 0, to |-> None, terms |-> terms]

PerDayOrShare == {Line(PerDay), Line(Share)}
OnlyPerDay == {Line(PerDay)}
Fixed  == [fixed |-> 2, daily |-> 0, floor |-> None, cap |-> None, percent |-> None]
OnlyFixed  == {Line(Fixed)}
ClassA == AllOf("A")
=============================================================================
