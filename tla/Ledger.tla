------------------------------- MODULE Ledger -------------------------------
(***************************************************************************)
(* Payments against levies and penalties, kept beside the enforcement that *)
(* makes a penalty payable, waives it, or prices it again.  A desk serves  *)
(* one officer's request at a time; what is owed is computed whenever it   *)
(* is asked for, so that a charge may vanish from under a payment.         *)
(***************************************************************************)
EXTENDS Enforcement, Sequences, Functions

CONSTANTS
  DueDate,     \* each period's due date, which picks the levy rate
  RateIds,     \* rates the levy may have
  RateRows,    \* what an administrator may enter as a rate
  Turnovers,   \* assessable revenues of approved returns
  Amounts,     \* sums that arrive at the bank
  References,  \* bank references
  Officers,    \* accounts that record and reverse payments
  Desks,       \* requests about payments that may be in flight at once
  MaxPayments  \* bound on the payments on record

ASSUME OfficersAssumption == None \notin Officers
ASSUME FiniteAssumption   == IsFiniteSet(Operators) /\ IsFiniteSet(Periods) /\ IsFiniteSet(Desks)
ASSUME AmountsAssumption  == Amounts \subseteq Nat \ {0} /\ Turnovers \subseteq Int
ASSUME RatesAssumption    ==
  RateRows \subseteq [live : {TRUE}, from : Int, to : Optional(Int), percent : 0..100]

VARIABLES
  rates,     \* levy_rates
  approved,  \* assessable revenue of the approved current return, or None
  payments,  \* payments, in the order they were recorded
  desk       \* requests in flight

ledgerVars == <<rates, approved, payments, desk>>

NoRate == [live |-> FALSE, from |-> 0, to |-> None, percent |-> 0]
Keys   == {"LEVY", "PENALTY"} \X Cases      \* levyKey, penaltyKey

PaymentRows == [key : Keys, amount : Amounts, reference : References,
                by : Officers, reversedBy : Optional(Officers)]

DeskRequests ==
  {Idle}
  \cup [pc : {"insert"}, key : Keys, amount : Amounts, reference : References, by : Officers]
  \cup [pc : {"reverse"}, payment : Nat, by : Officers]

(* Payments and requests are ones the tables and handlers can hold; above  *)
(* all, a request to reverse names a payment on record.                    *)
LedgerTypeOK ==
  /\ rates \in [RateIds -> RateRows \cup {NoRate} \cup {[row EXCEPT !.live = FALSE] : row \in RateRows}]
  /\ approved \in [Cases -> Optional(Turnovers)]
  /\ payments \in Seq(PaymentRows)
  /\ desk \in [Desks -> DeskRequests]
  /\ \A d \in Desks : desk[d].pc = "reverse" => desk[d].payment \in DOMAIN payments

LedgerInit ==
  /\ Init
  /\ rates = [r \in RateIds |-> NoRate]
  /\ approved = [c \in Cases |-> None]
  /\ payments = <<>>
  /\ desk = [d \in Desks |-> Idle]

-----------------------------------------------------------------------------
(* What is owed.                                                           *)

(* rateForDate: the newest rate in force on the day; ties are the database's. *)
RatesFor(on) ==
  LET inForce == {r \in RateIds : /\ rates[r].live /\ rates[r].from <= on
                                  /\ rates[r].to = None \/ rates[r].to >= on}
  IN  {r \in inForce : \A q \in inForce : rates[q].from <= rates[r].from}

(* assessPeriod for one operator: no approved return, or no rate, no levy; *)
(* a levy of nothing or less is no charge.                                 *)
LevyDue(c) ==
  IF approved[c] = None \/ RatesFor(DueDate[c[2]]) = {} THEN None
  ELSE (approved[c] * rates[CHOOSE r \in RatesFor(DueDate[c[2]]) : TRUE].percent + 50) \div 100

PenaltyDue(c) == IF case[c].amount = None THEN 0 ELSE case[c].amount

Charges ==
  {[key |-> <<"LEVY", c>>, due |-> LevyDue(c)] : c \in {d \in Cases : LevyDue(d) # None /\ LevyDue(d) > 0}}
  \cup {[key |-> <<"PENALTY", c>>, due |-> PenaltyDue(c)] :
          c \in {d \in Cases : case[d].assessed # None /\ case[d].status # "WAIVED"}}

Standing == {i \in DOMAIN payments : payments[i].reversedBy = None}

(* Mutant of Orphans: money against a charge that is gone is not shown.    *)
NoOrphans(charges) == {}
Orphans(charges) ==
  {[key |-> payments[i].key, due |-> 0] :
     i \in {j \in Standing : \A ch \in charges : ch.key # payments[j].key}}

AmountOf == [i \in DOMAIN payments |-> payments[i].amount]
Paid(key) == SumFunctionOnSet(AmountOf, {i \in Standing : payments[i].key = key})

(* settle and totals: each charge on the balances page, with what was paid *)
(* of it, what is outstanding, and what was paid too much.                 *)
AllCharges == Charges \cup Orphans(Charges)
Over(a, b) == IF a > b THEN a - b ELSE 0
DueOn         == [ch \in AllCharges |-> ch.due]
PaidOn        == [ch \in AllCharges |-> Paid(ch.key)]
OutstandingOn == [ch \in AllCharges |-> Over(ch.due, Paid(ch.key))]
OverpaidOn    == [ch \in AllCharges |-> Over(Paid(ch.key), ch.due)]
Total(column) ==
  SumFunctionOnSet(column, {ch \in AllCharges : ch.due > 0 \/ Paid(ch.key) > 0})

-----------------------------------------------------------------------------
(* Recording and reversing.                                                *)

(* Mutant of PenaltyIsPayable: an amount is enough.                        *)
PenaltyHasAmount(c) == case[c].status # "WAIVED" /\ case[c].amount # None
PenaltyIsPayable(c) ==
  Exists(c) /\ case[c].status # "WAIVED" /\ case[c].assessed # None /\ case[c].amount # None

Payable(key) ==
  IF key[1] = "LEVY" THEN LevyDue(key[2]) # None ELSE PenaltyIsPayable(key[2])

(* Mutant of Duplicates: penalties are left out of the comparison.         *)
DuplicateLevies(key, amount, reference) ==
  {i \in Standing : /\ payments[i].key = key /\ key[1] = "LEVY"
                    /\ payments[i].amount = amount /\ payments[i].reference = reference}
Duplicates(key, amount, reference) ==
  {i \in Standing : /\ payments[i].key = key
                    /\ payments[i].amount = amount /\ payments[i].reference = reference}

(* record up to the insert.                                                *)
RecordPayment(d, u, key, amount, reference) ==
  /\ desk[d] = Idle
  /\ Payable(key)
  /\ Duplicates(key, amount, reference) = {}
  /\ desk' = [desk EXCEPT ![d] =
       [pc |-> "insert", key |-> key, amount |-> amount, reference |-> reference, by |-> u]]
  /\ UNCHANGED <<rates, approved, payments>>

Insert(d) ==
  LET r == desk[d] IN
  /\ r.pc = "insert" /\ Len(payments) < MaxPayments
  /\ payments' = Append(payments, [key |-> r.key, amount |-> r.amount, reference |-> r.reference,
                                   by |-> r.by, reversedBy |-> None])
  /\ desk' = [desk EXCEPT ![d] = Idle]
  /\ UNCHANGED <<rates, approved>>

(* reverse: never by whoever recorded the payment, and once.               *)
Reverse(d, u, i) ==
  /\ desk[d] = Idle
  /\ i \in Standing /\ payments[i].by # u
  /\ desk' = [desk EXCEPT ![d] = [pc |-> "reverse", payment |-> i, by |-> u]]
  /\ UNCHANGED <<rates, approved, payments>>

WriteReversal(d) ==
  /\ desk[d].pc = "reverse"
  /\ payments' = [payments EXCEPT ![desk[d].payment].reversedBy = desk[d].by]
  /\ desk' = [desk EXCEPT ![d] = Idle]
  /\ UNCHANGED <<rates, approved>>

AbandonDesk(d) ==
  /\ desk[d] # Idle
  /\ desk' = [desk EXCEPT ![d] = Idle]
  /\ UNCHANGED <<rates, approved, payments>>

EnterRate(r, row) ==
  /\ rates[r] = NoRate \/ rates[r].live
  /\ rates' = [rates EXCEPT ![r] = row]
  /\ UNCHANGED <<approved, payments, desk>>

RemoveRate(r) ==
  /\ rates[r].live
  /\ rates' = [rates EXCEPT ![r].live = FALSE]
  /\ UNCHANGED <<approved, payments, desk>>

(* The Approver signs a return off: it is locked, and so is its revenue.   *)
ApproveReturn(c, turnover) ==
  /\ approved[c] = None
  /\ approved' = [approved EXCEPT ![c] = turnover]
  /\ UNCHANGED <<rates, payments, desk>>

-----------------------------------------------------------------------------
DeskStep(d) ==
  \/ Insert(d) \/ WriteReversal(d) \/ AbandonDesk(d)
  \/ \E u \in Officers : \/ \E key \in Keys, amount \in Amounts, reference \in References :
                              RecordPayment(d, u, key, amount, reference)
                         \/ \E i \in DOMAIN payments : Reverse(d, u, i)

LedgerStep ==
  \/ \E d \in Desks : DeskStep(d)
  \/ \E r \in RateIds : RemoveRate(r) \/ (\E row \in RateRows : EnterRate(r, row))
  \/ \E c \in Cases, turnover \in Turnovers : ApproveReturn(c, turnover)

LedgerNext ==
  \/ Next /\ UNCHANGED ledgerVars
  \/ LedgerStep /\ UNCHANGED vars

LedgerSpec == LedgerInit /\ [][LedgerNext]_<<vars, ledgerVars>>

-----------------------------------------------------------------------------
(* No money is taken for a penalty while the operator still has its thirty *)
(* days, unless the return came in and the case was closed with it, though *)
(* penalty runs stamp and restamp the case between an officer's check and  *)
(* the insert (assertPenaltyIsPayable, and accrue's remedyLapsed).         *)
NoMoneyInRemedy ==
  \A i \in DOMAIN payments :
    LET c == payments[i].key[2] IN
    payments[i].key[1] = "PENALTY"
      => case[c].amount # None /\ (case[c].ended = None => case[c].due <= day)

(* One transfer, one payment: no two payments that stand are the same sum  *)
(* under the same reference against the same charge (record's look for a   *)
(* duplicate).                                                             *)
NoDoubleEntry ==
  \A i, j \in Standing :
    /\ payments[i].key = payments[j].key
    /\ payments[i].amount = payments[j].amount
    /\ payments[i].reference = payments[j].reference
    => i = j

Transfer(r) == <<r.key, r.amount, r.reference>>
EntriesOf(transfer) == {i \in Standing : Transfer(payments[i]) = transfer}

(* However officers race, a transfer stands no more often than requests    *)
(* can be in flight: who looks after it stands finds it, whatever was      *)
(* reversed and recorded again before.                                     *)
EntriesBounded ==
  \A i \in Standing : Cardinality(EntriesOf(Transfer(payments[i]))) <= Cardinality(Desks)

(* The balances account for every sum that stands, though its charge was   *)
(* waived, priced again, or can no longer be worked out; and what is owed  *)
(* and not outstanding is what was paid and not too much (balances, which  *)
(* adds a charge of zero for money against a charge that is gone).         *)
NothingVanishes ==
  /\ Total(PaidOn) = SumFunctionOnSet(AmountOf, Standing)
  /\ Total(DueOn) - Total(OutstandingOn) = Total(PaidOn) - Total(OverpaidOn)
=============================================================================
