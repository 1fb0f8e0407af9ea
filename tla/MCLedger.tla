------------------------------ MODULE MCLedger ------------------------------
(* Payments beside enforcement, on a share of revenue.                     *)
EXTENDS Ledger, MCEnforcement, TLC

OnlyShare  == {Line(Share)}
DueOnFirst == [p \in Periods |-> 0]
Percents   == {[live |-> TRUE, from |-> 0, to |-> None, percent |-> 50]}

Symmetry == Permutations(Desks) \cup Permutations(Accruers) \cup Permutations(Officers)

(* A scene bounds the penalty runs and the desks busy at once, the         *)
(* payments on record, and says whether levies are owed in it.             *)
CONSTANT Scenes
Scene(runs, desks, entries, levies) ==
  [runs |-> runs, desks |-> desks, entries |-> entries, levies |-> levies]

TwoRuns  == Scene(2, 1, 1, FALSE)   \* the nightly run and the button
Books    == Scene(0, 1, 2, TRUE)    \* on the last day, between two runs
TwoDesks == Scene(0, 2, 3, FALSE)   \* and with nothing filed, waived or edited
LedgerScenes == {TwoRuns, Books, TwoDesks}
AtTheDesks   == {TwoRuns, Scene(1, 2, 2, FALSE)}

Busy(slots, requests) == Cardinality({s \in slots : requests[s] # Idle})

(* What enforcement does before there is anything to price, and a period   *)
(* that opens again, are left to its own run.                              *)
Within(scene) ==
  /\ Busy(Accruers, req) <= scene.runs
  /\ scene.entries > 1 => day = LastDay
  /\ scene.entries > 2 => /\ Busy(Slots, req) = 0
                          /\ \A c \in Cases : filed[c] = None
                          /\ \A l \in Lines : schedule[l].live
  /\ Busy(Desks, desk) <= scene.desks
  /\ Len(payments) <= scene.entries
  /\ ~scene.levies => \A c \in Cases, r \in RateIds : approved[c] = None /\ rates[r] = NoRate
  /\ obliged = Operators
  /\ \A c \in Cases : Exists(c) => c[2] \in closed
  /\ (\A l \in Lines : ~schedule[l].live) => payments = <<>>
  /\ (\A l \in Lines : schedule[l] = NoLine) => \A c \in Cases : ~Exists(c) /\ approved[c] = None

Bounded == \E scene \in Scenes : Within(scene)
=============================================================================
