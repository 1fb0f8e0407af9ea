---------------------------- MODULE LedgerProofs ----------------------------
(***************************************************************************)
(* What holds of Ledger for any operators, schedules, rates, payments,     *)
(* officers, desks and penalty runs: no money is on record for a penalty   *)
(* within its notice, a transfer stands no more often than there are desks *)
(* to race, and the balances account for every sum that stands.  The last  *)
(* needs what a sum over a finite set is, which is proved here from its    *)
(* definition.                                                             *)
(***************************************************************************)
EXTENDS Ledger, EnforcementProofs, FiniteSetTheorems, WellFoundedInduction

(* Payments and requests are ones their tables and handlers can hold.      *)
PaymentsTyped ==
  /\ payments \in Seq(PaymentRows)
  /\ desk \in [Desks -> DeskRequests]
  /\ \A d \in Desks : desk[d].pc = "reverse" => desk[d].payment \in DOMAIN payments

LEMMA DeskFields ==
  ASSUME PaymentsTyped, NEW d \in Desks
  PROVE  /\ desk[d].pc = "insert"
              => /\ desk[d].key \in Keys /\ desk[d].amount \in Amounts
                 /\ desk[d].reference \in References /\ desk[d].by \in Officers
         /\ desk[d].pc = "reverse"
              => desk[d].payment \in DOMAIN payments /\ desk[d].by \in Officers
  BY DEF PaymentsTyped, DeskRequests, Idle

LEMMA InsertedRow ==
  ASSUME PaymentsTyped, NEW d \in Desks, Insert(d)
  PROVE  \E row \in PaymentRows :
           /\ payments' = Append(payments, row)
           /\ row.key = desk[d].key /\ row.amount = desk[d].amount
           /\ row.reference = desk[d].reference /\ row.reversedBy = None
<1> DEFINE r == desk[d]
           row == [key |-> r.key, amount |-> r.amount, reference |-> r.reference,
                   by |-> r.by, reversedBy |-> None]
<1>1. row \in PaymentRows
  BY DeskFields DEF Insert, PaymentRows, Optional
<1>2. payments' = Append(payments, row)
  BY DEF Insert
<1> QED BY <1>1, <1>2

LEMMA ReversedRow ==
  ASSUME PaymentsTyped, NEW d \in Desks, WriteReversal(d)
  PROVE  /\ payments' \in Seq(PaymentRows) /\ DOMAIN payments' = DOMAIN payments
         /\ \A i \in DOMAIN payments :
              /\ payments'[i].key = payments[i].key /\ payments'[i].amount = payments[i].amount
              /\ payments'[i].reference = payments[i].reference
              /\ payments'[i].reversedBy = None => payments[i].reversedBy = None
<1> DEFINE n == desk[d].payment
           row == [payments[n] EXCEPT !.reversedBy = desk[d].by]
<1>1. n \in DOMAIN payments /\ desk[d].by \in Officers /\ payments \in Seq(PaymentRows)
  BY DeskFields DEF WriteReversal, PaymentsTyped
<1>2. payments[n] \in PaymentRows
  BY <1>1
<1>3. row \in PaymentRows
  BY <1>1, <1>2 DEF PaymentRows, Optional
<1>4. /\ row.key = payments[n].key /\ row.amount = payments[n].amount
      /\ row.reference = payments[n].reference /\ row.reversedBy # None
  BY <1>1, <1>2, OfficersAssumption DEF PaymentRows
<1>5. payments' = [payments EXCEPT ![n] = row]
  BY DEF WriteReversal
<1> HIDE DEF row, n
<1> QED BY <1>1, <1>3, <1>4, <1>5

(* What each step of a desk does to its requests.                          *)
LEMMA DeskStepTypes ==
  ASSUME PaymentsTyped, NEW d \in Desks, DeskStep(d)
  PROVE  PaymentsTyped'
<1>1. payments \in Seq(PaymentRows) /\ desk \in [Desks -> DeskRequests] /\ Idle \in DeskRequests
  BY DEF PaymentsTyped, DeskRequests
<1>2. ASSUME Insert(d)
      PROVE  PaymentsTyped'
  <2>1. PICK row \in PaymentRows : payments' = Append(payments, row)
    BY <1>2, InsertedRow
  <2>2. payments' \in Seq(PaymentRows) /\ DOMAIN payments \subseteq DOMAIN payments'
    BY <1>1, <2>1
  <2>3. desk' = [desk EXCEPT ![d] = Idle]
    BY <1>2 DEF Insert
  <2> QED BY <1>1, <2>2, <2>3 DEF PaymentsTyped, Idle
<1>3. ASSUME WriteReversal(d)
      PROVE  PaymentsTyped'
  <2>1. desk' = [desk EXCEPT ![d] = Idle]
    BY <1>3 DEF WriteReversal
  <2>2. payments' \in Seq(PaymentRows) /\ DOMAIN payments' = DOMAIN payments
    BY <1>3, ReversedRow
  <2> QED BY <1>1, <2>1, <2>2 DEF PaymentsTyped, Idle
<1>4. ASSUME AbandonDesk(d)
      PROVE  PaymentsTyped'
  BY <1>1, <1>4 DEF AbandonDesk, PaymentsTyped, Idle
<1>5. ASSUME NEW u \in Officers, NEW key \in Keys, NEW amount \in Amounts,
             NEW reference \in References, RecordPayment(d, u, key, amount, reference)
      PROVE  PaymentsTyped'
  <2> DEFINE r == [pc |-> "insert", key |-> key, amount |-> amount, reference |-> reference, by |-> u]
  <2>1. r \in DeskRequests /\ r.pc = "insert"
    BY DEF DeskRequests
  <2>2. desk' = [desk EXCEPT ![d] = r] /\ payments' = payments
    BY <1>5 DEF RecordPayment
  <2> HIDE DEF r
  <2> QED BY <1>1, <2>1, <2>2 DEF PaymentsTyped
<1>6. ASSUME NEW u \in Officers, NEW i \in DOMAIN payments, Reverse(d, u, i)
      PROVE  PaymentsTyped'
  <2> DEFINE r == [pc |-> "reverse", payment |-> i, by |-> u]
  <2>1. i \in Nat
    BY <1>1
  <2>2. r \in DeskRequests /\ r.payment = i
    BY <2>1 DEF DeskRequests
  <2>3. desk' = [desk EXCEPT ![d] = r] /\ payments' = payments
    BY <1>6 DEF Reverse
  <2> HIDE DEF r
  <2> QED BY <1>1, <2>2, <2>3 DEF PaymentsTyped
<1> QED BY <1>2, <1>3, <1>4, <1>5, <1>6 DEF DeskStep

(* Rates, approvals and enforcement leave payments and desks alone, and    *)
(* the desks leave enforcement alone.                                      *)
LEMMA StepOfDesk ==
  ASSUME [LedgerNext]_<<vars, ledgerVars>>
  PROVE  \/ UNCHANGED <<payments, desk>>
         \/ (\E d \in Desks : DeskStep(d)) /\ UNCHANGED vars
  BY DEF LedgerNext, LedgerStep, ledgerVars, RemoveRate, EnterRate, ApproveReturn

LEMMA PaymentsKept ==
  ASSUME PaymentsTyped, [LedgerNext]_<<vars, ledgerVars>>
  PROVE  PaymentsTyped'
<1>1. CASE UNCHANGED <<payments, desk>>
  BY <1>1 DEF PaymentsTyped
<1> QED BY <1>1, DeskStepTypes, StepOfDesk

LEMMA PaymentsInitially == LedgerInit => PaymentsTyped
  BY DEF LedgerInit, PaymentsTyped, DeskRequests, Idle

-----------------------------------------------------------------------------
(* Money against penalties, beside any number of penalty runs and desks.   *)

(* A penalty on which money may be on record: its notice has run out, or   *)
(* its case was closed by the filing.                                      *)
FallenDue(c) ==
  Exists(c) /\ case[c].amount # None /\ (case[c].ended = None => case[c].due <= day)

Collectable(key) == key[1] = "PENALTY" => FallenDue(key[2])

(* What is on record, and what a desk is about to record, is collectable.  *)
MoneyInv ==
  /\ PaymentsTyped
  /\ IInv
  /\ \A i \in DOMAIN payments : Collectable(payments[i].key)
  /\ \A d \in Desks : desk[d].pc = "insert" => Collectable(desk[d].key)

(* A penalty that is payable has fallen due, and so it stays, though a run *)
(* that read before takes its stamp away again.                            *)
LEMMA PayableFallen ==
  ASSUME IInv, NEW c \in Cases, PenaltyIsPayable(c)
  PROVE  FallenDue(c)
<1>1. case[c].assessed \in Nat /\ case[c].due \in Nat /\ day \in Nat
  BY DEF PenaltyIsPayable, IInv, TypeOK, Rows, Optional, Opened
<1>2. case[c].assessed <= day /\ (case[c].ended = None => case[c].assessed >= case[c].due)
  BY DEF PenaltyIsPayable, IInv, Dated, NothingDueInRemedy
<1> QED BY <1>1, <1>2 DEF PenaltyIsPayable, FallenDue

LEMMA FallenKept ==
  ASSUME IInv, [Next]_vars, NEW c \in Cases, FallenDue(c)
  PROVE  FallenDue(c)'
<1>1. /\ TypeOK /\ Exists(c) /\ case[c].amount # None /\ case[c] \in Rows
      /\ case[c].due \in Nat /\ day \in Nat
  BY DEF IInv, TypeOK, FallenDue, Opened
<1>2. day' \in Nat /\ day' >= day
  <2>1. ASSUME NEW s \in Slots, SweepStep(s)
        PROVE  day' = day
    BY <2>1 DEF SweepStep, StartSweep, SweepPeriod, PriceCase, PeriodFails, OpenCase
  <2>2. ASSUME NEW s \in Slots, AccrualStep(s)
        PROVE  day' = day
    BY <2>2 DEF AccrualStep, StartAccrual, CloseFiled, Reprice, LeaveCase
  <2>3. ASSUME NEW s \in Slots, StaffStep(s) \/ Abandon(s)
        PROVE  day' = day
    BY <2>3 DEF StaffStep, Close, WriteClosure, ClosePeriod, Abandon
  <2>4. CASE AuthorityStep
    BY <1>1, <2>4 DEF AuthorityStep, RemoveLine, EnterLine, ReopenPeriod
  <2>5. CASE WorldStep
    BY <1>1, <2>5 DEF WorldStep, Tick, FileReturn, Audit, SetObliged
  <2> QED BY <1>1, <2>1, <2>2, <2>3, <2>4, <2>5 DEF Next, vars
<1>3. ASSUME Exists(c)', case'[c].amount # None, case'[c].due = case[c].due,
             case'[c].ended = None => case[c].ended = None
      PROVE  FallenDue(c)'
  BY <1>1, <1>2, <1>3 DEF FallenDue
<1>4. CASE case'[c] = case[c]
  BY <1>1, <1>3, <1>4 DEF Exists
<1>5. ASSUME NEW s \in Slots, OpenCase(s)
      PROVE  case'[c] = case[c]
  BY <1>1, <1>5, RequestFields DEF OpenCase, TypeOK, Exists
<1>6. ASSUME NEW s \in Slots, WriteClosure(s)
      PROVE  FallenDue(c)'
  <2>1. req[s].case \in Cases /\ req[s].status \in {"RESOLVED", "WAIVED"}
    BY <1>1, <1>6, RequestFields DEF WriteClosure, At
  <2>2. CASE c = req[s].case
    <3>1. /\ case'[c].status \in {"RESOLVED", "WAIVED"} /\ case'[c].amount = case[c].amount
          /\ case'[c].due = case[c].due /\ case'[c].ended = case[c].ended
      BY <1>1, <1>6, <2>1, <2>2 DEF WriteClosure, TypeOK, Rows
    <3>2. Exists(c)'
      BY <3>1 DEF Exists
    <3> QED BY <1>1, <1>3, <3>1, <3>2
  <2>3. CASE c # req[s].case
    BY <1>1, <1>4, <1>6, <2>1, <2>3 DEF WriteClosure, TypeOK
  <2> QED BY <2>2, <2>3
<1>7. ASSUME NEW s \in Slots, NEW d \in Cases, CloseFiled(s, d) \/ Reprice(s, d)
      PROVE  FallenDue(c)'
  <2>1. CASE c # d
    BY <1>1, <1>4, <1>7, <2>1 DEF CloseFiled, Reprice, TypeOK
  <2>2. CASE c = d /\ CloseFiled(s, d)
    <3>1. /\ case'[c].status = "RESOLVED" /\ case'[c].due = case[c].due
          /\ case'[c].ended # None /\ case'[c].amount # None
      BY <1>1, <2>2 DEF CloseFiled, TypeOK, Rows
    <3>2. Exists(c)'
      BY <3>1 DEF Exists
    <3> QED BY <1>3, <3>1, <3>2
  <2>3. CASE c = d /\ Reprice(s, d)
    <3>1. /\ case'[c].status = case[c].status /\ case'[c].due = case[c].due
          /\ case'[c].ended = case[c].ended /\ case'[c].amount # None
      BY <1>1, <2>3 DEF Reprice, Moved, TypeOK, Rows
    <3>2. Exists(c)'
      BY <1>1, <3>1 DEF Exists
    <3> QED BY <1>3, <3>1, <3>2
  <2> QED BY <1>7, <2>1, <2>2, <2>3
<1> QED BY <1>4, <1>5, <1>6, <1>7, CaseWrites

LEMMA MoneyDesk ==
  ASSUME MoneyInv, NEW d \in Desks, DeskStep(d)
  PROVE  /\ \A i \in DOMAIN payments' : Collectable(payments'[i].key)
         /\ \A e \in Desks : desk'[e].pc = "insert" => Collectable(desk'[e].key)
<1>1. /\ PaymentsTyped /\ payments \in Seq(PaymentRows) /\ desk \in [Desks -> DeskRequests]
      /\ \A i \in DOMAIN payments : Collectable(payments[i].key)
      /\ \A e \in Desks : desk[e].pc = "insert" => Collectable(desk[e].key)
  BY DEF MoneyInv, PaymentsTyped
<1>2. CASE Insert(d)
  <2>1. PICK row \in PaymentRows : payments' = Append(payments, row) /\ row.key = desk[d].key
    BY <1>1, <1>2, InsertedRow
  <2>2. Collectable(row.key) /\ desk' = [desk EXCEPT ![d] = Idle]
    BY <1>1, <1>2, <2>1 DEF Insert
  <2>3. \A i \in DOMAIN payments' : payments'[i] = row \/ (i \in DOMAIN payments /\ payments'[i] = payments[i])
    BY <1>1, <2>1
  <2> QED BY <1>1, <2>2, <2>3 DEF Idle
<1>3. CASE WriteReversal(d)
  <2>1. /\ DOMAIN payments' = DOMAIN payments
        /\ \A i \in DOMAIN payments : payments'[i].key = payments[i].key
    BY <1>1, <1>3, ReversedRow
  <2>2. desk' = [desk EXCEPT ![d] = Idle]
    BY <1>3 DEF WriteReversal
  <2> QED BY <1>1, <2>1, <2>2 DEF Idle
<1>4. CASE AbandonDesk(d)
  BY <1>1, <1>4 DEF AbandonDesk, Idle
<1>5. ASSUME NEW u \in Officers, NEW key \in Keys, NEW amount \in Amounts,
             NEW reference \in References, RecordPayment(d, u, key, amount, reference)
      PROVE  /\ \A i \in DOMAIN payments' : Collectable(payments'[i].key)
             /\ \A e \in Desks : desk'[e].pc = "insert" => Collectable(desk'[e].key)
  <2> DEFINE r == [pc |-> "insert", key |-> key, amount |-> amount, reference |-> reference, by |-> u]
  <2>1. key[2] \in Cases /\ key[1] \in {"LEVY", "PENALTY"}
    BY DEF Keys
  <2>2. key[1] = "PENALTY" => PenaltyIsPayable(key[2])
    BY <1>5 DEF RecordPayment, Payable
  <2>3. Collectable(key)
    BY <2>1, <2>2, PayableFallen DEF Collectable, MoneyInv
  <2>4. r.key = key /\ desk' = [desk EXCEPT ![d] = r] /\ payments' = payments
    BY <1>5 DEF RecordPayment
  <2> HIDE DEF r
  <2> QED BY <1>1, <2>3, <2>4
<1>6. ASSUME NEW u \in Officers, NEW i \in DOMAIN payments, Reverse(d, u, i)
      PROVE  /\ \A j \in DOMAIN payments' : Collectable(payments'[j].key)
             /\ \A e \in Desks : desk'[e].pc = "insert" => Collectable(desk'[e].key)
  <2> DEFINE r == [pc |-> "reverse", payment |-> i, by |-> u]
  <2>1. r.pc = "reverse" /\ desk' = [desk EXCEPT ![d] = r] /\ payments' = payments
    BY <1>6 DEF Reverse
  <2> HIDE DEF r
  <2> QED BY <1>1, <2>1
<1> QED BY <1>2, <1>3, <1>4, <1>5, <1>6 DEF DeskStep

LEMMA MoneyStep == MoneyInv /\ [LedgerNext]_<<vars, ledgerVars>> => MoneyInv'
<1> SUFFICES ASSUME MoneyInv, [LedgerNext]_<<vars, ledgerVars>> PROVE MoneyInv'
  OBVIOUS
<1>1. [Next]_vars
  BY DEF LedgerNext
<1>2. PaymentsTyped' /\ IInv'
  BY <1>1, PaymentsKept, Inductive DEF MoneyInv
<1>3. /\ \A i \in DOMAIN payments : payments[i].key \in Keys
      /\ \A d \in Desks : desk[d].pc = "insert" => desk[d].key \in Keys
  <2>1. \A i \in DOMAIN payments : payments[i] \in PaymentRows
    BY DEF MoneyInv, PaymentsTyped
  <2> QED BY <2>1, DeskFields DEF MoneyInv, PaymentRows
<1>4. ASSUME NEW key \in Keys, Collectable(key)
      PROVE  Collectable(key)'
  <2>1. key[2] \in Cases
    BY DEF Keys
  <2> QED BY <1>1, <1>4, <2>1, FallenKept DEF Collectable, MoneyInv
<1>5. CASE UNCHANGED <<payments, desk>>
  <2>1. /\ \A i \in DOMAIN payments : Collectable(payments[i].key)'
        /\ \A d \in Desks : desk[d].pc = "insert" => Collectable(desk[d].key)'
    BY <1>3, <1>4, <1>5 DEF MoneyInv
  <2> QED BY <1>2, <1>5, <2>1 DEF MoneyInv
<1>6. ASSUME NEW d \in Desks, DeskStep(d), UNCHANGED vars
      PROVE  MoneyInv'
  <2>1. UNCHANGED <<case, day>>
    BY <1>6 DEF vars
  <2>2. \A key : Collectable(key)' <=> Collectable(key)
    BY <2>1 DEF Collectable, FallenDue, Exists
  <2>3. /\ \A i \in DOMAIN payments' : Collectable(payments'[i].key)
        /\ \A e \in Desks : desk'[e].pc = "insert" => Collectable(desk'[e].key)
    BY <1>6, MoneyDesk
  <2> QED BY <1>2, <2>2, <2>3 DEF MoneyInv
<1> QED BY <1>5, <1>6, StepOfDesk

(* However many penalty runs stamp the case and however many desks record  *)
(* and reverse, no money is on record for a penalty within its notice,     *)
(* unless the return came in (assertPenaltyIsPayable, accrue).             *)
THEOREM MoneyAfterRemedy == LedgerSpec => []NoMoneyInRemedy
<1>1. LedgerInit => MoneyInv
  BY PaymentsInitially, Initially DEF LedgerInit, MoneyInv, Idle
<1>2. MoneyInv => NoMoneyInRemedy
  BY DEF MoneyInv, Collectable, FallenDue, NoMoneyInRemedy
<1> QED BY <1>1, <1>2, MoneyStep, PTL DEF LedgerSpec

-----------------------------------------------------------------------------
(* How often a transfer can stand.                                         *)

(* The desks about to record a transfer.                                   *)
Inserting(transfer) == {d \in Desks : desk[d].pc = "insert" /\ Transfer(desk[d]) = transfer}

(* Every entry of a transfer, on record or about to be, was let in by a    *)
(* look that saw none stand.                                               *)
EntriesInv ==
  /\ PaymentsTyped
  /\ \A transfer : Cardinality(EntriesOf(transfer)) + Cardinality(Inserting(transfer))
                     <= Cardinality(Desks)

LEMMA EntriesFinite ==
  ASSUME PaymentsTyped, NEW transfer
  PROVE  /\ IsFiniteSet(EntriesOf(transfer)) /\ Cardinality(EntriesOf(transfer)) \in Nat
         /\ IsFiniteSet(Inserting(transfer)) /\ Cardinality(Inserting(transfer)) \in Nat
         /\ Cardinality(Desks) \in Nat /\ Cardinality(Inserting(transfer)) <= Cardinality(Desks)
<1>1. payments \in Seq(PaymentRows)
  BY DEF PaymentsTyped
<1>2. Len(payments) \in Nat /\ DOMAIN payments = 1..Len(payments)
  BY <1>1
<1>3. IsFiniteSet(DOMAIN payments)
  BY <1>2, FS_Interval
<1>4. EntriesOf(transfer) \in SUBSET DOMAIN payments /\ Inserting(transfer) \in SUBSET Desks
  BY DEF EntriesOf, Standing, Inserting
<1> QED BY <1>3, <1>4, FiniteAssumption, FS_Subset, FS_CardinalityType

(* Fewer entries of a transfer, on record and about to be, are no more.    *)
LEMMA EntriesFewer ==
  ASSUME EntriesInv, NEW transfer,
         EntriesOf(transfer)' \subseteq EntriesOf(transfer),
         Inserting(transfer)' \subseteq Inserting(transfer)
  PROVE  Cardinality(EntriesOf(transfer)') + Cardinality(Inserting(transfer)') <= Cardinality(Desks)
<1> DEFINE E == EntriesOf(transfer)
           I == Inserting(transfer)
           F == EntriesOf(transfer)'
           J == Inserting(transfer)'
<1>1. /\ IsFiniteSet(E) /\ IsFiniteSet(I) /\ Cardinality(E) \in Nat /\ Cardinality(I) \in Nat
      /\ Cardinality(Desks) \in Nat /\ Cardinality(E) + Cardinality(I) <= Cardinality(Desks)
  BY EntriesFinite DEF EntriesInv
<1>2. F \in SUBSET E /\ J \in SUBSET I
  OBVIOUS
<1> HIDE DEF E, I, F, J
<1>3. /\ Cardinality(F) <= Cardinality(E) /\ Cardinality(F) \in Nat
      /\ Cardinality(J) <= Cardinality(I) /\ Cardinality(J) \in Nat
  BY <1>1, <1>2, FS_Subset, FS_CardinalityType
<1>4. Cardinality(F) + Cardinality(J) <= Cardinality(Desks)
  BY <1>1, <1>3
<1> QED BY <1>4 DEF F, J

LEMMA EntriesDesk ==
  ASSUME EntriesInv, PaymentsTyped', NEW d \in Desks, DeskStep(d), NEW transfer
  PROVE  Cardinality(EntriesOf(transfer)') + Cardinality(Inserting(transfer)') <= Cardinality(Desks)
<1>1. PaymentsTyped /\ payments \in Seq(PaymentRows) /\ desk \in [Desks -> DeskRequests]
  BY DEF EntriesInv, PaymentsTyped
<1>2. ASSUME NEW r, r.pc # "insert", desk' = [desk EXCEPT ![d] = r]
      PROVE  Inserting(transfer)' \subseteq Inserting(transfer) \ {d}
  BY <1>1, <1>2 DEF Inserting, Transfer
<1>3. payments' = payments => EntriesOf(transfer)' = EntriesOf(transfer)
  BY DEF EntriesOf, Standing, Transfer
<1>4. CASE AbandonDesk(d)
  BY <1>2, <1>3, <1>4, EntriesFewer DEF AbandonDesk, Idle
<1>5. ASSUME NEW u \in Officers, NEW i \in DOMAIN payments, Reverse(d, u, i)
      PROVE  Cardinality(EntriesOf(transfer)') + Cardinality(Inserting(transfer)') <= Cardinality(Desks)
  <2> DEFINE r == [pc |-> "reverse", payment |-> i, by |-> u]
  <2>1. r.pc # "insert" /\ desk' = [desk EXCEPT ![d] = r] /\ payments' = payments
    BY <1>5 DEF Reverse
  <2> HIDE DEF r
  <2> QED BY <1>2, <1>3, <2>1, EntriesFewer
<1>6. CASE WriteReversal(d)
  <2>1. desk' = [desk EXCEPT ![d] = Idle] /\ Idle.pc # "insert"
    BY <1>6 DEF WriteReversal, Idle
  <2>2. EntriesOf(transfer)' \subseteq EntriesOf(transfer)
    BY <1>1, <1>6, ReversedRow DEF EntriesOf, Standing, Transfer
  <2> QED BY <1>2, <2>1, <2>2, EntriesFewer
(* A request that looked found none standing.                              *)
<1>7. ASSUME NEW u \in Officers, NEW key \in Keys, NEW amount \in Amounts,
             NEW reference \in References, RecordPayment(d, u, key, amount, reference)
      PROVE  Cardinality(EntriesOf(transfer)') + Cardinality(Inserting(transfer)') <= Cardinality(Desks)
  <2> DEFINE r == [pc |-> "insert", key |-> key, amount |-> amount, reference |-> reference, by |-> u]
  <2>1. /\ desk' = [desk EXCEPT ![d] = r] /\ payments' = payments
        /\ Transfer(r) = <<key, amount, reference>>
    BY <1>7 DEF RecordPayment, Transfer
  <2> HIDE DEF r
  <2>2. CASE Transfer(r) = transfer
    <3>1. EntriesOf(transfer)' = {}
      BY <1>3, <1>7, <2>1, <2>2 DEF RecordPayment, Duplicates, EntriesOf, Transfer
    <3>2. Cardinality(EntriesOf(transfer)') = 0
      BY <3>1, FS_EmptySet
    <3>3. Inserting(transfer)' \in SUBSET Desks
      BY DEF Inserting
    <3>4. /\ Cardinality(Inserting(transfer)') <= Cardinality(Desks)
          /\ Cardinality(Inserting(transfer)') \in Nat /\ Cardinality(Desks) \in Nat
      BY <3>3, FiniteAssumption, FS_Subset, FS_CardinalityType
    <3> QED BY <3>2, <3>4
  <2>3. CASE Transfer(r) # transfer
    <3>1. Inserting(transfer)' \subseteq Inserting(transfer)
      BY <1>1, <2>1, <2>3 DEF Inserting
    <3> QED BY <1>3, <2>1, <3>1, EntriesFewer
  <2> QED BY <2>2, <2>3
(* An insert turns an entry about to be into one on record.                *)
<1>8. CASE Insert(d)
  <2>1. PICK row \in PaymentRows :
          /\ payments' = Append(payments, row)
          /\ row.key = desk[d].key /\ row.amount = desk[d].amount
          /\ row.reference = desk[d].reference /\ row.reversedBy = None
    BY <1>1, <1>8, InsertedRow
  <2> DEFINE n == Len(payments) + 1
             E == EntriesOf(transfer)
             I == Inserting(transfer)
  <2>2. /\ DOMAIN payments = 1..Len(payments) /\ Len(payments) \in Nat
        /\ DOMAIN payments' = 1..n /\ payments'[n] = row
        /\ \A i \in DOMAIN payments : payments'[i] = payments[i]
    BY <1>1, <2>1
  <2>3. desk' = [desk EXCEPT ![d] = Idle] /\ Idle.pc # "insert" /\ desk[d].pc = "insert"
    BY <1>8 DEF Insert, Idle
  <2>4. \A i : i \in EntriesOf(transfer)' => \/ i \in E
                                             \/ i = n /\ Transfer(row) = transfer
    BY <2>2 DEF EntriesOf, Standing, Transfer
  <2>5. Transfer(row) = Transfer(desk[d])
    BY <2>1 DEF Transfer
  <2>6. Inserting(transfer)' \subseteq I \ {d}
    BY <1>2, <2>3
  <2>7. CASE Transfer(row) # transfer
    <3>1. EntriesOf(transfer)' \subseteq E
      BY <2>4, <2>7
    <3> QED BY <2>6, <3>1, EntriesFewer
  <2>8. CASE Transfer(row) = transfer
    <3> DEFINE F == EntriesOf(transfer)'
               J == Inserting(transfer)'
    <3>1. d \in I /\ F \in SUBSET (E \cup {n}) /\ J \in SUBSET (I \ {d})
      BY <2>3, <2>4, <2>5, <2>6, <2>8 DEF Inserting
    <3>2. /\ IsFiniteSet(E) /\ IsFiniteSet(I) /\ Cardinality(E) \in Nat /\ Cardinality(I) \in Nat
          /\ Cardinality(Desks) \in Nat /\ Cardinality(E) + Cardinality(I) <= Cardinality(Desks)
      BY EntriesFinite DEF EntriesInv
    <3> HIDE DEF E, I, F, J, n
    <3>3. /\ IsFiniteSet(E \cup {n}) /\ Cardinality(E \cup {n}) <= Cardinality(E) + 1
          /\ Cardinality(E \cup {n}) \in Nat
      <4>1. /\ IsFiniteSet(E \cup {n})
            /\ Cardinality(E \cup {n}) = IF n \in E THEN Cardinality(E) ELSE Cardinality(E) + 1
        BY <3>2, FS_AddElement
      <4> QED BY <3>2, <4>1
    <3>4. IsFiniteSet(I \ {d}) /\ Cardinality(I \ {d}) = Cardinality(I) - 1
      BY <3>1, <3>2, FS_RemoveElement
    <3>5. /\ Cardinality(F) <= Cardinality(E \cup {n}) /\ Cardinality(F) \in Nat
          /\ Cardinality(J) <= Cardinality(I \ {d}) /\ Cardinality(J) \in Nat
      BY <3>1, <3>3, <3>4, FS_Subset, FS_CardinalityType
    <3>6. Cardinality(F) + Cardinality(J) <= Cardinality(Desks)
      BY <3>2, <3>3, <3>4, <3>5
    <3> QED BY <3>6 DEF F, J
  <2> QED BY <2>7, <2>8
<1> QED BY <1>4, <1>5, <1>6, <1>7, <1>8 DEF DeskStep

LEMMA EntriesStep == EntriesInv /\ [LedgerNext]_<<vars, ledgerVars>> => EntriesInv'
<1> SUFFICES ASSUME EntriesInv, [LedgerNext]_<<vars, ledgerVars>> PROVE EntriesInv'
  OBVIOUS
<1>1. PaymentsTyped'
  BY PaymentsKept DEF EntriesInv
<1>2. CASE UNCHANGED <<payments, desk>>
  <2>1. \A transfer : /\ EntriesOf(transfer)' = EntriesOf(transfer)
                      /\ Inserting(transfer)' = Inserting(transfer)
    BY <1>2 DEF EntriesOf, Standing, Inserting, Transfer
  <2> QED BY <1>1, <2>1 DEF EntriesInv
<1>3. ASSUME NEW d \in Desks, DeskStep(d)
      PROVE  EntriesInv'
  BY <1>1, <1>3, EntriesDesk DEF EntriesInv
<1> QED BY <1>2, <1>3, StepOfDesk

(* With any number of desks racing, a transfer stands no more often than   *)
(* there are desks, whatever is reversed and recorded again, or fails      *)
(* between the look and the insert; a desk alone records it once (record's *)
(* look for a duplicate).                                                  *)
THEOREM EntriesHeld == LedgerSpec => []EntriesBounded
<1>1. LedgerInit => EntriesInv
  <2> SUFFICES ASSUME LedgerInit PROVE EntriesInv
    OBVIOUS
  <2>1. PaymentsTyped
    BY PaymentsInitially
  <2>2. \A transfer : EntriesOf(transfer) = {} /\ Inserting(transfer) = {}
    BY DEF LedgerInit, EntriesOf, Standing, Inserting, Idle
  <2>3. Cardinality({}) = 0 /\ Cardinality(Desks) \in Nat
    BY FS_EmptySet, FS_CardinalityType, FiniteAssumption
  <2> QED BY <2>1, <2>2, <2>3 DEF EntriesInv
<1>2. EntriesInv => EntriesBounded
  <2> SUFFICES ASSUME EntriesInv, NEW i \in Standing
               PROVE  Cardinality(EntriesOf(Transfer(payments[i]))) <= Cardinality(Desks)
    BY DEF EntriesBounded
  <2> DEFINE transfer == Transfer(payments[i])
  <2> HIDE DEF transfer
  <2>1. /\ Cardinality(EntriesOf(transfer)) \in Nat /\ Cardinality(Inserting(transfer)) \in Nat
        /\ Cardinality(Desks) \in Nat
        /\ Cardinality(EntriesOf(transfer)) + Cardinality(Inserting(transfer)) <= Cardinality(Desks)
    BY EntriesFinite DEF EntriesInv
  <2>2. Cardinality(EntriesOf(transfer)) <= Cardinality(Desks)
    BY <2>1
  <2> QED BY <2>2 DEF transfer
<1> QED BY <1>1, <1>2, EntriesStep, PTL DEF LedgerSpec

-----------------------------------------------------------------------------
(* Sums over finite sets.  Pick is the element a sum takes next, and Sums  *)
(* the function that the recursion of a sum defines.                       *)

Pick(s)         == CHOOSE x \in s : TRUE
SumStep(f, s, g) == IF s = {} THEN 0 ELSE f[Pick(s)] + g[s \ {Pick(s)}]
SumFrom(f, S, g) == [s \in SUBSET S |-> SumStep(f, s, g)]
Sums(f, S)       == CHOOSE g : g = SumFrom(f, S, g)

(* The library's sum, with the recursion it is chosen by laid open.        *)
LEMMA SumUnfolds == ASSUME NEW f, NEW S PROVE SumFunctionOnSet(f, S) = Sums(f, S)[S]
  BY Zenon DEF SumFunctionOnSet, FoldFunctionOnSet, MapThenFoldSet, Sums, SumFrom, SumStep, Pick

(* Induction on the naturals, for a set: were a number missing, the least  *)
(* missing one would follow one that is not.                               *)
LEMMA NatClosed ==
  ASSUME NEW T \in SUBSET Nat, 0 \in T, \A n \in T : n + 1 \in T
  PROVE  T = Nat
<1> DEFINE U == Nat \ T
<1> SUFFICES ASSUME U # {} PROVE FALSE
  OBVIOUS
<1>1. PICK n \in U : \A m \in U : ~(<<m, n>> \in OpToRel(<, Nat))
  BY NatLessThanWellFounded, WFMin
<1>2. n \in Nat /\ n # 0 /\ n - 1 \in Nat /\ n - 1 < n
  OBVIOUS
<1>3. n - 1 \notin U
  BY <1>1, <1>2 DEF OpToRel
<1>4. (n - 1) + 1 \in T
  BY <1>2, <1>3
<1> QED BY <1>2, <1>4

LEMMA PickIn == ASSUME NEW s, s # {} PROVE Pick(s) \in s
  BY DEF Pick

(* What holds of the empty set, and of a set once it holds of the set      *)
(* without its pick, holds of every part of a finite set.                  *)
LEMMA PickInduction ==
  ASSUME NEW S, IsFiniteSet(S), NEW G, {} \in G,
         \A s \in SUBSET S : s # {} /\ s \ {Pick(s)} \in G => s \in G
  PROVE  SUBSET S \subseteq G
<1> DEFINE T == {n \in Nat : \A s \in SUBSET S : Cardinality(s) = n => s \in G}
<1>1. 0 \in T
  BY FS_Subset, FS_EmptySet
<1>2. ASSUME NEW n \in T PROVE n + 1 \in T
  <2> SUFFICES ASSUME NEW s \in SUBSET S, Cardinality(s) = n + 1 PROVE s \in G
    OBVIOUS
  <2>1. IsFiniteSet(s) /\ s # {}
    BY FS_Subset, FS_EmptySet
  <2>2. Cardinality(s \ {Pick(s)}) = Cardinality(s) - 1
    BY <2>1, PickIn, FS_RemoveElement
  <2>3. n \in Nat
    OBVIOUS
  <2>4. Cardinality(s \ {Pick(s)}) = n
    BY <2>2, <2>3
  <2>5. s \ {Pick(s)} \in G
    BY <2>4
  <2> QED BY <2>1, <2>5
<1>3. T = Nat
  <2>1. T \in SUBSET Nat
    OBVIOUS
  <2> HIDE DEF T
  <2> QED BY <1>1, <1>2, <2>1, NatClosed
<1>4. \A s \in SUBSET S : Cardinality(s) \in Nat
  BY FS_Subset, FS_CardinalityType
<1> QED BY <1>3, <1>4

(* What holds of the empty set, and goes on holding as elements are added, *)
(* holds of a finite set.                                                  *)
LEMMA FiniteInduction ==
  ASSUME NEW S, IsFiniteSet(S), NEW G, {} \in G,
         \A s \in SUBSET S : \A x \in S \ s : s \in G => s \cup {x} \in G
  PROVE  S \in G
<1>1. ASSUME NEW s \in SUBSET S, s # {}, s \ {Pick(s)} \in G PROVE s \in G
  <2>1. Pick(s) \in s
    BY <1>1, PickIn
  <2>2. (s \ {Pick(s)}) \cup {Pick(s)} = s
    BY <2>1
  <2>3. (s \ {Pick(s)}) \cup {Pick(s)} \in G
    BY <1>1, <2>1
  <2> QED BY <2>2, <2>3
<1> QED BY <1>1, PickInduction

(* The recursion has a solution on a finite set (one up to each            *)
(* cardinality, extended by one), so that CHOOSE picks one.                *)
LEMMA SumsDefined ==
  ASSUME NEW S, IsFiniteSet(S), NEW f, \A x \in S : f[x] \in Int
  PROVE  /\ Sums(f, S) \in [SUBSET S -> Int]
         /\ \A s \in SUBSET S : Sums(f, S)[s] = SumStep(f, s, Sums(f, S))
<1> DEFINE Upto(n, g) == \A s \in SUBSET S : Cardinality(s) <= n => g[s] = SumStep(f, s, g)
           T == {n \in Nat : \E g \in [SUBSET S -> Int] : Upto(n, g)}
<1>1. \A s \in SUBSET S : Cardinality(s) \in Nat /\ (Cardinality(s) = 0 <=> s = {})
  BY FS_Subset, FS_EmptySet, FS_CardinalityType
<1>2. \A s \in SUBSET S : s # {} => /\ Pick(s) \in S /\ s \ {Pick(s)} \in SUBSET S
                                  /\ Cardinality(s \ {Pick(s)}) = Cardinality(s) - 1
  BY PickIn, FS_Subset, FS_RemoveElement
<1>3. 0 \in T
  <2> DEFINE g == [s \in SUBSET S |-> 0]
  <2>1. g \in [SUBSET S -> Int] /\ \A s \in SUBSET S : g[s] = 0
    OBVIOUS
  <2>2. \A s \in SUBSET S : Cardinality(s) <= 0 => s = {}
    BY <1>1
  <2> HIDE DEF g
  <2>3. Upto(0, g)
    BY <2>1, <2>2 DEF SumStep
  <2> QED BY <2>1, <2>3
<1>4. ASSUME NEW n \in T PROVE n + 1 \in T
  <2>1. PICK g \in [SUBSET S -> Int] : Upto(n, g)
    OBVIOUS
  <2>2. n \in Nat
    OBVIOUS
  <2> DEFINE h == SumFrom(f, S, g)
  <2>3. \A s \in SUBSET S : SumStep(f, s, g) \in Int
    BY <1>2 DEF SumStep
  <2>4. h \in [SUBSET S -> Int] /\ \A s \in SUBSET S : h[s] = SumStep(f, s, g)
    BY <2>3 DEF SumFrom
  <2> HIDE DEF h
  <2>5. ASSUME NEW s \in SUBSET S, Cardinality(s) <= n + 1 PROVE h[s] = SumStep(f, s, h)
    <3>1. CASE s = {}
      BY <3>1, <2>4 DEF SumStep
    <3>2. CASE s # {}
      <4> DEFINE r == s \ {Pick(s)}
      <4>1. r \in SUBSET S /\ Cardinality(r) <= n
        BY <3>2, <1>1, <1>2, <2>2, <2>5
      <4>2. h[r] = SumStep(f, r, g) /\ g[r] = SumStep(f, r, g)
        BY <4>1, <2>1, <2>4
      <4>3. h[s] = SumStep(f, s, g)
        BY <2>4
      <4> QED BY <3>2, <4>2, <4>3 DEF SumStep
    <3> QED BY <3>1, <3>2
  <2>6. Upto(n + 1, h)
    BY <2>5
  <2> QED BY <2>2, <2>4, <2>6
<1>5. T = Nat
  <2>1. T \in SUBSET Nat
    OBVIOUS
  <2> HIDE DEF T
  <2> QED BY <1>3, <1>4, <2>1, NatClosed
<1>6. PICK g \in [SUBSET S -> Int] : Upto(Cardinality(S), g)
  BY <1>1, <1>5
<1>7. \A s \in SUBSET S : Cardinality(s) <= Cardinality(S)
  BY FS_Subset
<1>8. g = SumFrom(f, S, g)
  BY <1>6, <1>7 DEF SumFrom
<1>9. Sums(f, S) = SumFrom(f, S, Sums(f, S))
  BY <1>8, Zenon DEF Sums
<1> DEFINE g2 == Sums(f, S)
<1>10. \A s \in SUBSET S : g2[s] = SumStep(f, s, g2)
  BY <1>9 DEF SumFrom
<1>11. g2 = [s \in SUBSET S |-> SumStep(f, s, g2)]
  BY <1>9 DEF SumFrom
<1> HIDE DEF g2
<1> DEFINE G == {s \in SUBSET S : g2[s] \in Int}
<1>12. {} \in G
  <2>1. {} \in SUBSET S /\ SumStep(f, {}, g2) = 0
    BY DEF SumStep
  <2> QED BY <1>10, <2>1
<1>13. ASSUME NEW s \in SUBSET S, s # {}, s \ {Pick(s)} \in G PROVE s \in G
  <2>1. g2[s] = f[Pick(s)] + g2[s \ {Pick(s)}]
    BY <1>10, <1>13 DEF SumStep
  <2>2. f[Pick(s)] \in Int /\ g2[s \ {Pick(s)}] \in Int
    BY <1>2, <1>13
  <2> QED BY <2>1, <2>2
<1>14. SUBSET S \subseteq G
  <2> HIDE DEF G
  <2> QED BY <1>12, <1>13, PickInduction
<1>15. g2 \in [SUBSET S -> Int]
  BY <1>11, <1>14
<1> QED BY <1>10, <1>15 DEF g2

LEMMA SumEmpty == ASSUME NEW f PROVE SumFunctionOnSet(f, {}) = 0
  BY SumsDefined, SumUnfolds, FS_EmptySet DEF SumStep

(* A smaller domain has the same sums.                                     *)
LEMMA SumsAgree ==
  ASSUME NEW S, IsFiniteSet(S), NEW f, \A x \in S : f[x] \in Int, NEW T \in SUBSET S
  PROVE  \A s \in SUBSET T : Sums(f, T)[s] = Sums(f, S)[s]
<1> DEFINE G == {s \in SUBSET T : Sums(f, T)[s] = Sums(f, S)[s]}
<1>1. IsFiniteSet(T) /\ \A x \in T : f[x] \in Int
  BY FS_Subset
<1>2. \A s \in SUBSET T : /\ Sums(f, T)[s] = SumStep(f, s, Sums(f, T))
                          /\ Sums(f, S)[s] = SumStep(f, s, Sums(f, S))
  BY <1>1, SumsDefined
<1>3. {} \in G
  BY <1>2 DEF SumStep
<1>4. ASSUME NEW s \in SUBSET T, s # {}, s \ {Pick(s)} \in G PROVE s \in G
  BY <1>2, <1>4 DEF SumStep
<1> HIDE DEF G
<1>5. SUBSET T \subseteq G
  BY <1>1, <1>3, <1>4, PickInduction
<1> QED BY <1>5 DEF G

LEMMA SumPick ==
  ASSUME NEW S, IsFiniteSet(S), NEW f, \A x \in S : f[x] \in Int, S # {}
  PROVE  SumFunctionOnSet(f, S) = f[Pick(S)] + SumFunctionOnSet(f, S \ {Pick(S)})
<1> DEFINE r == S \ {Pick(S)}
<1>1. Sums(f, S)[S] = f[Pick(S)] + Sums(f, S)[r]
  BY SumsDefined DEF SumStep
<1>2. Sums(f, r)[r] = Sums(f, S)[r]
  BY SumsAgree
<1> QED BY <1>1, <1>2, SumUnfolds

LEMMA SumType ==
  ASSUME NEW S, IsFiniteSet(S), NEW f, \A x \in S : f[x] \in Int
  PROVE  SumFunctionOnSet(f, S) \in Int
  BY SumsDefined, SumUnfolds

(* Whichever element is taken out first, the sum is the same.              *)
LEMMA SumRemove ==
  ASSUME NEW S, IsFiniteSet(S), NEW f, \A x \in S : f[x] \in Int
  PROVE  \A x \in S : SumFunctionOnSet(f, S) = f[x] + SumFunctionOnSet(f, S \ {x})
<1> DEFINE Any(s) == \A x \in s : SumFunctionOnSet(f, s) = f[x] + SumFunctionOnSet(f, s \ {x})
           V == {n \in Nat : \A s \in SUBSET S : Cardinality(s) = n => Any(s)}
<1>1. \A s \in SUBSET S : IsFiniteSet(s) /\ Cardinality(s) \in Nat /\ (Cardinality(s) = 0 <=> s = {})
  BY FS_Subset, FS_EmptySet, FS_CardinalityType
<1>2. 0 \in V
  BY <1>1
<1>3. ASSUME NEW n \in V PROVE n + 1 \in V
  <2>1. n \in Nat
    OBVIOUS
  <2> SUFFICES ASSUME NEW s \in SUBSET S, Cardinality(s) = n + 1, NEW x \in s
               PROVE  SumFunctionOnSet(f, s) = f[x] + SumFunctionOnSet(f, s \ {x})
    BY <2>1
  <2> DEFINE p == Pick(s)
  <2>2. p \in s
    BY PickIn
  <2>3. SumFunctionOnSet(f, s) = f[p] + SumFunctionOnSet(f, s \ {p})
    BY <1>1, SumPick
  <2>4. CASE x = p
    BY <2>3, <2>4
  <2>5. CASE x # p
    <3>1. Cardinality(s \ {p}) = Cardinality(s) - 1 /\ Cardinality(s \ {x}) = Cardinality(s) - 1
      BY <1>1, <2>2, FS_RemoveElement
    <3>2. Cardinality(s \ {p}) = n /\ Cardinality(s \ {x}) = n
      BY <2>1, <3>1
    <3>3. Any(s \ {p}) /\ Any(s \ {x})
      BY <3>2
    <3> DEFINE r == s \ {p, x}
    <3>4. (s \ {p}) \ {x} = r /\ (s \ {x}) \ {p} = r
      OBVIOUS
    <3>5. SumFunctionOnSet(f, s \ {p}) = f[x] + SumFunctionOnSet(f, r)
      BY <2>5, <3>3, <3>4
    <3>6. SumFunctionOnSet(f, s \ {x}) = f[p] + SumFunctionOnSet(f, r)
      BY <2>2, <2>5, <3>3, <3>4
    <3>7. SumFunctionOnSet(f, r) \in Int /\ f[p] \in Int /\ f[x] \in Int
      <4>1. r \in SUBSET S
        OBVIOUS
      <4>2. IsFiniteSet(r) /\ \A y \in r : f[y] \in Int
        BY <1>1, <4>1
      <4> QED BY <2>2, <4>2, SumType
    <3> HIDE DEF p, r
    <3> QED BY <2>3, <3>5, <3>6, <3>7
  <2> QED BY <2>4, <2>5
<1>4. V = Nat
  <2>1. V \in SUBSET Nat
    OBVIOUS
  <2> HIDE DEF V
  <2> QED BY <1>2, <1>3, <2>1, NatClosed
<1>5. Cardinality(S) \in V
  BY <1>1, <1>4
<1> QED BY <1>5

LEMMA SumAdd ==
  ASSUME NEW S, IsFiniteSet(S), NEW x, x \notin S, NEW f, \A y \in S \cup {x} : f[y] \in Int
  PROVE  SumFunctionOnSet(f, S \cup {x}) = f[x] + SumFunctionOnSet(f, S)
<1>1. IsFiniteSet(S \cup {x})
  BY FS_AddElement
<1>2. (S \cup {x}) \ {x} = S
  OBVIOUS
<1>3. SumFunctionOnSet(f, S \cup {x}) = f[x] + SumFunctionOnSet(f, (S \cup {x}) \ {x})
  BY <1>1, SumRemove
<1> QED BY <1>2, <1>3

(* Columns that balance in every row balance in their totals.              *)
LEMMA SumsBalance ==
  ASSUME NEW S, IsFiniteSet(S), NEW a, NEW b, NEW c, NEW d,
         \A x \in S : /\ {a[x], b[x], c[x], d[x]} \subseteq Int
                      /\ a[x] + b[x] = c[x] + d[x]
  PROVE  SumFunctionOnSet(a, S) + SumFunctionOnSet(b, S)
           = SumFunctionOnSet(c, S) + SumFunctionOnSet(d, S)
<1> DEFINE Even(s) == SumFunctionOnSet(a, s) + SumFunctionOnSet(b, s)
                        = SumFunctionOnSet(c, s) + SumFunctionOnSet(d, s)
           G == {s \in SUBSET S : Even(s)}
<1>1. {} \in G
  BY SumEmpty
<1>2. ASSUME NEW s \in SUBSET S, NEW x \in S \ s, s \in G PROVE s \cup {x} \in G
  <2>1. IsFiniteSet(s) /\ \A y \in s \cup {x} : {a[y], b[y], c[y], d[y]} \subseteq Int
    BY FS_Subset
  <2>2. {SumFunctionOnSet(a, s), SumFunctionOnSet(b, s),
         SumFunctionOnSet(c, s), SumFunctionOnSet(d, s)} \subseteq Int
    BY <2>1, SumType
  <2>3. /\ SumFunctionOnSet(a, s \cup {x}) = a[x] + SumFunctionOnSet(a, s)
        /\ SumFunctionOnSet(b, s \cup {x}) = b[x] + SumFunctionOnSet(b, s)
        /\ SumFunctionOnSet(c, s \cup {x}) = c[x] + SumFunctionOnSet(c, s)
        /\ SumFunctionOnSet(d, s \cup {x}) = d[x] + SumFunctionOnSet(d, s)
    BY <2>1, SumAdd
  <2>4. Even(s) /\ a[x] + b[x] = c[x] + d[x] /\ {a[x], b[x], c[x], d[x]} \subseteq Int
    BY <1>2
  <2>5. Even(s \cup {x})
    BY <2>2, <2>3, <2>4
  <2> QED BY <2>5
<1> HIDE DEF G
<1>3. S \in G
  BY <1>1, <1>2, FiniteInduction
<1> QED BY <1>3 DEF G

(* A sum of what is no less than zero is no less than any of it.           *)
LEMMA SumBounds ==
  ASSUME NEW S, IsFiniteSet(S), NEW f, \A x \in S : f[x] \in Nat
  PROVE  /\ SumFunctionOnSet(f, S) \in Nat
         /\ \A x \in S : f[x] <= SumFunctionOnSet(f, S)
<1> DEFINE G == {s \in SUBSET S : SumFunctionOnSet(f, s) \in Nat}
<1>1. \A x \in S : f[x] \in Int
  OBVIOUS
<1>2. {} \in G
  BY SumEmpty
<1>3. ASSUME NEW s \in SUBSET S, NEW x \in S \ s, s \in G PROVE s \cup {x} \in G
  <2>1. SumFunctionOnSet(f, s \cup {x}) = f[x] + SumFunctionOnSet(f, s)
    BY <1>1, FS_Subset, SumAdd
  <2> QED BY <1>3, <2>1
<1>4. SUBSET S \subseteq G
  <2> SUFFICES ASSUME NEW T \in SUBSET S PROVE T \in G
    OBVIOUS
  <2>1. IsFiniteSet(T) /\ \A s \in SUBSET T : s \in SUBSET S /\ \A x \in T \ s : x \in S \ s
    BY FS_Subset
  <2> HIDE DEF G
  <2> QED BY <1>2, <1>3, <2>1, FiniteInduction
<1>5. ASSUME NEW x \in S PROVE f[x] <= SumFunctionOnSet(f, S)
  <2>1. SumFunctionOnSet(f, S) = f[x] + SumFunctionOnSet(f, S \ {x})
    BY <1>1, SumRemove
  <2>2. SumFunctionOnSet(f, S \ {x}) \in Nat
    BY <1>4
  <2> QED BY <2>1, <2>2
<1> QED BY <1>4, <1>5

(* The sum over two sets apart is that of their sums.                      *)
LEMMA SumOfParts ==
  ASSUME NEW S, NEW T, IsFiniteSet(S), IsFiniteSet(T), S \cap T = {},
         NEW f, \A x \in S \cup T : f[x] \in Int
  PROVE  SumFunctionOnSet(f, S \cup T) = SumFunctionOnSet(f, S) + SumFunctionOnSet(f, T)
<1> DEFINE G == {t \in SUBSET T : SumFunctionOnSet(f, S \cup t)
                                    = SumFunctionOnSet(f, S) + SumFunctionOnSet(f, t)}
<1>1. SumFunctionOnSet(f, S) \in Int
  BY SumType
<1>2. {} \in G
  <2>1. S \cup {} = S
    OBVIOUS
  <2> QED BY <1>1, <2>1, SumEmpty
<1>3. ASSUME NEW t \in SUBSET T, NEW x \in T \ t, t \in G PROVE t \cup {x} \in G
  <2>1. IsFiniteSet(t) /\ IsFiniteSet(S \cup t)
    BY FS_Subset, FS_Union
  <2>2. SumFunctionOnSet(f, t \cup {x}) = f[x] + SumFunctionOnSet(f, t)
    BY <2>1, SumAdd
  <2>3. x \notin S \cup t /\ S \cup (t \cup {x}) = (S \cup t) \cup {x}
    OBVIOUS
  <2>4. SumFunctionOnSet(f, (S \cup t) \cup {x}) = f[x] + SumFunctionOnSet(f, S \cup t)
    BY <2>1, <2>3, SumAdd
  <2>5. SumFunctionOnSet(f, t) \in Int /\ f[x] \in Int
    BY <2>1, SumType
  <2>6. SumFunctionOnSet(f, S \cup t) = SumFunctionOnSet(f, S) + SumFunctionOnSet(f, t)
    BY <1>3
  <2>7. SumFunctionOnSet(f, S \cup (t \cup {x}))
          = SumFunctionOnSet(f, S) + SumFunctionOnSet(f, t \cup {x})
    <3>1. SumFunctionOnSet(f, S \cup (t \cup {x})) = f[x] + SumFunctionOnSet(f, S \cup t)
      BY <2>3, <2>4
    <3> QED BY <1>1, <2>2, <2>5, <2>6, <3>1
  <2> QED BY <2>7
<1> HIDE DEF G
<1>4. T \in G
  BY <1>2, <1>3, FiniteInduction
<1> QED BY <1>4 DEF G

-----------------------------------------------------------------------------
(* What the balances add up to.                                            *)

RateTables ==
  [RateIds -> RateRows \cup {NoRate} \cup {[row EXCEPT !.live = FALSE] : row \in RateRows}]

(* What administrators enter as rates, and Approvers sign off, keeps its   *)
(* type.                                                                   *)
LEMMA EntriesTyped ==
  ASSUME LedgerTypeOK, [LedgerNext]_<<vars, ledgerVars>>
  PROVE  rates' \in RateTables
         /\ approved' \in [Cases -> Optional(Turnovers)]
<1>1. /\ rates \in RateTables
      /\ approved \in [Cases -> Optional(Turnovers)]
  BY DEF LedgerTypeOK, RateTables
<1>2. CASE UNCHANGED <<rates, approved>>
  BY <1>1, <1>2
<1>3. ASSUME NEW r \in RateIds, RemoveRate(r)
      PROVE  rates' \in RateTables
             /\ approved' = approved
  <2>1. rates[r] \in RateRows
    <3>1. rates[r].live
      BY <1>3 DEF RemoveRate
    <3>2. ASSUME NEW row \in RateRows, rates[r] = [row EXCEPT !.live = FALSE] PROVE FALSE
      <4>1. row \in [live : {TRUE}, from : Int, to : Optional(Int), percent : 0..100]
        BY RatesAssumption
      <4>2. rates[r].live = FALSE
        BY <3>2, <4>1
      <4> QED BY <3>1, <4>2
    <3>3. rates[r] # NoRate
      BY <3>1 DEF NoRate
    <3> QED BY <1>1, <3>2, <3>3 DEF RateTables
  <2>2. rates' = [rates EXCEPT ![r] = [rates[r] EXCEPT !.live = FALSE]] /\ approved' = approved
    BY <1>3 DEF RemoveRate
  <2> DEFINE new == [rates[r] EXCEPT !.live = FALSE]
  <2>3. new \in {[row EXCEPT !.live = FALSE] : row \in RateRows}
    BY <2>1
  <2> HIDE DEF new
  <2>4. rates' = [rates EXCEPT ![r] = new]
    BY <2>2 DEF new
  <2> QED BY <1>1, <2>2, <2>3, <2>4 DEF RateTables
<1>4. ASSUME NEW r \in RateIds, NEW row \in RateRows, EnterRate(r, row)
      PROVE  rates' \in RateTables
             /\ approved' = approved
  <2>1. rates' = [rates EXCEPT ![r] = row] /\ approved' = approved
    BY <1>4 DEF EnterRate
  <2> QED BY <1>1, <2>1 DEF RateTables
<1>5. ASSUME NEW c \in Cases, NEW turnover \in Turnovers, ApproveReturn(c, turnover)
      PROVE  approved' \in [Cases -> Optional(Turnovers)] /\ rates' = rates
  BY <1>1, <1>5 DEF ApproveReturn, Optional
<1>6. ASSUME NEW d \in Desks, DeskStep(d)
      PROVE  UNCHANGED <<rates, approved>>
  BY <1>6 DEF DeskStep, Insert, WriteReversal, AbandonDesk, RecordPayment, Reverse
<1>7. CASE LedgerStep
  BY <1>1, <1>2, <1>3, <1>4, <1>5, <1>6, <1>7 DEF LedgerStep
<1> QED BY <1>2, <1>7 DEF LedgerNext, ledgerVars

LEMMA LedgerTypesKept ==
  ASSUME TypeOK, LedgerTypeOK, [LedgerNext]_<<vars, ledgerVars>>
  PROVE  TypeOK' /\ LedgerTypeOK'
<1>1. [Next]_vars
  BY DEF LedgerNext
<1>2. PaymentsTyped'
  BY PaymentsKept DEF LedgerTypeOK, PaymentsTyped
<1>3. /\ rates' \in RateTables
      /\ approved' \in [Cases -> Optional(Turnovers)]
  BY EntriesTyped
<1>4. LedgerTypeOK'
  BY <1>2, <1>3 DEF LedgerTypeOK, PaymentsTyped, RateTables
<1>5. TypeOK'
  BY <1>1, TypeKept
<1> QED BY <1>4, <1>5

LEMMA LedgerTypesInitially == LedgerInit => TypeOK /\ LedgerTypeOK
  BY TypeInitially, PaymentsInitially DEF LedgerInit, LedgerTypeOK, PaymentsTyped, Optional

(* A charge is an amount of money.                                         *)
LEMMA ChargesTyped ==
  ASSUME TypeOK, LedgerTypeOK
  PROVE  \A ch \in AllCharges : ch.due \in Int /\ ch.key \in Keys
<1>1. ASSUME NEW c \in Cases, LevyDue(c) # None PROVE LevyDue(c) \in Int
  <2>1. approved[c] # None /\ RatesFor(DueDate[c[2]]) # {}
    BY <1>1 DEF LevyDue
  <2>2. approved[c] \in Int
    BY <2>1, AmountsAssumption DEF LedgerTypeOK, Optional
  <2> DEFINE r == CHOOSE r \in RatesFor(DueDate[c[2]]) : TRUE
  <2>3. r \in RateIds
    <3>1. r \in RatesFor(DueDate[c[2]])
      BY <2>1
    <3> QED BY <3>1 DEF RatesFor
  <2>4. LevyDue(c) = (approved[c] * rates[r].percent + 50) \div 100
    BY <2>1 DEF LevyDue
  <2> HIDE DEF r
  <2>5. rates[r].percent \in Int
    <3>1. \/ rates[r] \in RateRows \/ rates[r] = NoRate
          \/ \E row \in RateRows : rates[r] = [row EXCEPT !.live = FALSE]
      BY <2>3 DEF LedgerTypeOK
    <3>2. ASSUME NEW row \in RateRows
          PROVE  row.percent \in Int /\ [row EXCEPT !.live = FALSE].percent = row.percent
      <4>1. row \in [live : {TRUE}, from : Int, to : Optional(Int), percent : 0..100]
        BY RatesAssumption
      <4>2. row.percent \in 0..100
        BY <4>1
      <4>3. [row EXCEPT !.live = FALSE].percent = row.percent
        BY <4>1
      <4> QED BY <4>2, <4>3
    <3>3. NoRate.percent \in Int
      BY DEF NoRate
    <3>4. CASE rates[r] \in RateRows
      BY <3>2, <3>4
    <3>5. CASE rates[r] = NoRate
      BY <3>3, <3>5
    <3>6. ASSUME NEW row \in RateRows, rates[r] = [row EXCEPT !.live = FALSE]
          PROVE  rates[r].percent \in Int
      BY <3>2, <3>6
    <3> QED BY <3>1, <3>4, <3>5, <3>6
  <2>6. approved[c] * rates[r].percent + 50 \in Int
    BY <2>2, <2>5
  <2> QED BY <2>4, <2>6
<1>2. ASSUME NEW c \in Cases PROVE PenaltyDue(c) \in Int
  BY DEF PenaltyDue, TypeOK, Rows, Optional
<1>3. \A ch \in Charges : ch.due \in Int /\ ch.key \in Keys
  BY <1>1, <1>2 DEF Charges, Keys
<1>4. \A i \in Standing : payments[i].key \in Keys
  <2>1. \A i \in Standing : payments[i] \in PaymentRows
    BY DEF Standing, LedgerTypeOK
  <2> QED BY <2>1 DEF PaymentRows
<1>5. \A ch \in Orphans(Charges) : ch.due \in Int /\ ch.key \in Keys
  BY <1>4 DEF Orphans
<1> QED BY <1>3, <1>5 DEF AllCharges

(* A finite set has a finite image.                                        *)
LEMMA FunctionImage ==
  ASSUME NEW S, IsFiniteSet(S), NEW f PROVE IsFiniteSet({f[x] : x \in S})
<1> DEFINE T == {f[x] : x \in S}
           g == [x \in S |-> f[x]]
<1>1. g \in Surjection(S, T)
  BY DEF Surjection
<1> QED BY <1>1, FS_Surjection

(* The balances page and the payments that stand are finite.               *)
LEMMA ChargesFinite ==
  ASSUME LedgerTypeOK PROVE IsFiniteSet(AllCharges) /\ IsFiniteSet(Standing)
<1>1. IsFiniteSet(Cases)
  BY FiniteAssumption, FS_Product DEF Cases
<1>2. IsFiniteSet(Standing)
  <2>1. payments \in Seq(PaymentRows)
    BY DEF LedgerTypeOK
  <2>2. Len(payments) \in Nat /\ DOMAIN payments = 1..Len(payments)
    BY <2>1
  <2>3. IsFiniteSet(DOMAIN payments)
    BY <2>2, FS_Interval
  <2> QED BY <2>3, FS_Subset DEF Standing
<1> DEFINE levies    == {d \in Cases : LevyDue(d) # None /\ LevyDue(d) > 0}
           penalties == {d \in Cases : case[d].assessed # None /\ case[d].status # "WAIVED"}
           orphans   == {j \in Standing : \A ch \in Charges : ch.key # payments[j].key}
           L         == [c \in levies |-> [key |-> <<"LEVY", c>>, due |-> LevyDue(c)]]
           P         == [c \in penalties |-> [key |-> <<"PENALTY", c>>, due |-> PenaltyDue(c)]]
           O         == [i \in orphans |-> [key |-> payments[i].key, due |-> 0]]
<1>3. AllCharges = ({L[c] : c \in levies} \cup {P[c] : c \in penalties}) \cup {O[i] : i \in orphans}
  BY DEF AllCharges, Charges, Orphans
<1>4. IsFiniteSet(levies) /\ IsFiniteSet(penalties) /\ IsFiniteSet(orphans)
  BY <1>1, <1>2, FS_Subset
<1> HIDE DEF levies, penalties, orphans, L, P, O
<1>5. /\ IsFiniteSet({L[c] : c \in levies})
      /\ IsFiniteSet({P[c] : c \in penalties})
      /\ IsFiniteSet({O[i] : i \in orphans})
  BY <1>4, FunctionImage
<1> QED BY <1>2, <1>3, <1>5, FS_Union

(* The page shows one row for each charge.                                 *)
LEMMA OneChargePerKey ==
  ASSUME NEW a \in AllCharges, NEW b \in AllCharges, a.key = b.key PROVE a = b
<1>1. ASSUME NEW x \in Charges, NEW y \in Charges, x.key = y.key PROVE x = y
  BY <1>1 DEF Charges
<1>2. ASSUME NEW x \in Orphans(Charges), NEW y \in Orphans(Charges), x.key = y.key PROVE x = y
  BY <1>2 DEF Orphans
<1>3. ASSUME NEW x \in Charges, NEW y \in Orphans(Charges) PROVE x.key # y.key
  BY DEF Orphans
<1> QED BY <1>1, <1>2, <1>3 DEF AllCharges

(* Every payment that stands is money, and shows as paid.                  *)
LEMMA PaidTyped ==
  ASSUME LedgerTypeOK
  PROVE  /\ \A i \in Standing : AmountOf[i] \in Nat \ {0}
         /\ \A key : Paid(key) \in Nat
         /\ \A i \in Standing : Paid(payments[i].key) > 0
<1>1. ASSUME NEW i \in Standing PROVE AmountOf[i] \in Nat \ {0}
  <2>1. i \in DOMAIN payments /\ payments[i] \in PaymentRows
    BY DEF Standing, LedgerTypeOK
  <2>2. payments[i].amount \in Amounts
    BY <2>1 DEF PaymentRows
  <2> QED BY <2>1, <2>2, AmountsAssumption DEF AmountOf
<1>2. ASSUME NEW key
      PROVE  /\ Paid(key) \in Nat
             /\ \A i \in Standing : payments[i].key = key => AmountOf[i] <= Paid(key)
  <2> DEFINE group == {i \in Standing : payments[i].key = key}
  <2>1. IsFiniteSet(group) /\ \A i \in group : AmountOf[i] \in Nat
    BY <1>1, ChargesFinite, FS_Subset
  <2>2. Paid(key) = SumFunctionOnSet(AmountOf, group)
    BY DEF Paid
  <2>3. \A i \in Standing : payments[i].key = key => i \in group
    OBVIOUS
  <2> HIDE DEF group
  <2> QED BY <2>1, <2>2, <2>3, SumBounds
<1>3. ASSUME NEW i \in Standing PROVE Paid(payments[i].key) > 0
  <2>1. /\ AmountOf[i] \in Nat \ {0} /\ Paid(payments[i].key) \in Nat
        /\ AmountOf[i] <= Paid(payments[i].key)
    BY <1>1, <1>2
  <2> QED BY <2>1
<1> QED BY <1>1, <1>2, <1>3

(* What was paid of some charges is the sum of the payments that stand     *)
(* against them: each such payment is counted, and counted once.           *)
LEMMA PaidByGroup ==
  ASSUME LedgerTypeOK, NEW A \in SUBSET AllCharges
  PROVE  SumFunctionOnSet(PaidOn, A)
           = SumFunctionOnSet(AmountOf, {i \in Standing : \E ch \in A : payments[i].key = ch.key})
<1> DEFINE Against(s) == {i \in Standing : \E ch \in s : payments[i].key = ch.key}
           G == {s \in SUBSET A : SumFunctionOnSet(PaidOn, s) = SumFunctionOnSet(AmountOf, Against(s))}
<1>1. /\ IsFiniteSet(AllCharges) /\ IsFiniteSet(Standing)
      /\ \A i \in Standing : AmountOf[i] \in Int
  BY ChargesFinite, PaidTyped
<1>2. \A ch \in AllCharges : PaidOn[ch] = Paid(ch.key) /\ PaidOn[ch] \in Int
  BY PaidTyped DEF PaidOn
<1>3. {} \in G
  <2>1. Against({}) = {}
    OBVIOUS
  <2> QED BY <2>1, SumEmpty
<1>4. ASSUME NEW s \in SUBSET A, NEW x \in A \ s, s \in G PROVE s \cup {x} \in G
  <2> DEFINE group == {i \in Standing : payments[i].key = x.key}
  <2>1. Against(s \cup {x}) = Against(s) \cup group
    OBVIOUS
  <2>2. Against(s) \cap group = {}
    BY OneChargePerKey
  <2>3. SumFunctionOnSet(AmountOf, Against(s \cup {x}))
          = SumFunctionOnSet(AmountOf, Against(s)) + SumFunctionOnSet(AmountOf, group)
    <3> DEFINE B == Against(s)
    <3>1. B \in SUBSET Standing /\ group \in SUBSET Standing
      OBVIOUS
    <3>2. IsFiniteSet(B) /\ IsFiniteSet(group) /\ \A i \in B \cup group : AmountOf[i] \in Int
      BY <1>1, <3>1, FS_Subset
    <3>3. B \cap group = {} /\ Against(s \cup {x}) = B \cup group
      BY <2>1, <2>2
    <3>4. SumFunctionOnSet(AmountOf, B \cup group)
            = SumFunctionOnSet(AmountOf, B) + SumFunctionOnSet(AmountOf, group)
      <4> HIDE DEF B, group
      <4> QED BY <3>2, <3>3, SumOfParts
    <3> QED BY <3>3, <3>4
  <2>4. PaidOn[x] = SumFunctionOnSet(AmountOf, group)
    BY <1>2 DEF Paid
  <2>5. SumFunctionOnSet(PaidOn, s \cup {x}) = PaidOn[x] + SumFunctionOnSet(PaidOn, s)
    <3>1. IsFiniteSet(s) /\ \A y \in s \cup {x} : PaidOn[y] \in Int
      BY <1>1, <1>2, FS_Subset
    <3> QED BY <3>1, SumAdd
  <2>6. PaidOn[x] \in Int /\ SumFunctionOnSet(PaidOn, s) \in Int
    <3>1. IsFiniteSet(s) /\ \A y \in s : PaidOn[y] \in Int
      BY <1>1, <1>2, FS_Subset
    <3> QED BY <1>2, <3>1, SumType
  <2>7. SumFunctionOnSet(PaidOn, s) = SumFunctionOnSet(AmountOf, Against(s))
    BY <1>4
  <2>8. SumFunctionOnSet(PaidOn, s \cup {x}) = SumFunctionOnSet(AmountOf, Against(s \cup {x}))
    <3> HIDE DEF Against, group
    <3> QED BY <2>3, <2>4, <2>5, <2>6, <2>7
  <2> QED BY <2>8
<1>5. IsFiniteSet(A)
  BY <1>1, FS_Subset
<1>6. A \in G
  <2> HIDE DEF G
  <2> QED BY <1>3, <1>4, <1>5, FiniteInduction
<1> QED BY <1>6

(* Every payment that stands is against a charge the page shows, and every *)
(* row balances; so do the totals.                                         *)
LEMMA BalancesAddUp == TypeOK /\ LedgerTypeOK => NothingVanishes
<1> SUFFICES ASSUME TypeOK, LedgerTypeOK PROVE NothingVanishes
  OBVIOUS
<1> DEFINE shown == {ch \in AllCharges : ch.due > 0 \/ Paid(ch.key) > 0}
<1>1. shown \in SUBSET AllCharges /\ IsFiniteSet(shown)
  BY ChargesFinite, FS_Subset
<1>2. Total(PaidOn) = SumFunctionOnSet(AmountOf, Standing)
  <2>1. ASSUME NEW i \in Standing PROVE \E ch \in AllCharges : payments[i].key = ch.key
    <3>1. CASE \E ch \in Charges : ch.key = payments[i].key
      BY <3>1 DEF AllCharges
    <3>2. CASE \A ch \in Charges : ch.key # payments[i].key
      <4>1. [key |-> payments[i].key, due |-> 0] \in Orphans(Charges)
        BY <3>2 DEF Orphans
      <4> QED BY <4>1 DEF AllCharges
    <3> QED BY <3>1, <3>2
  <2>2. ASSUME NEW i \in Standing PROVE \E ch \in shown : payments[i].key = ch.key
    BY <2>1, PaidTyped
  <2>3. {i \in Standing : \E ch \in shown : payments[i].key = ch.key} = Standing
    BY <2>2
  <2>4. Total(PaidOn) = SumFunctionOnSet(PaidOn, shown)
    BY DEF Total
  <2> HIDE DEF shown
  <2> QED BY <1>1, <2>3, <2>4, PaidByGroup
<1>3. ASSUME NEW ch \in shown
      PROVE  /\ {DueOn[ch], OverpaidOn[ch], PaidOn[ch], OutstandingOn[ch]} \subseteq Int
             /\ DueOn[ch] + OverpaidOn[ch] = PaidOn[ch] + OutstandingOn[ch]
  <2>1. ch.due \in Int /\ Paid(ch.key) \in Int
    BY ChargesTyped, PaidTyped
  <2>2. /\ DueOn[ch] = ch.due /\ PaidOn[ch] = Paid(ch.key)
        /\ OverpaidOn[ch] = Over(Paid(ch.key), ch.due)
        /\ OutstandingOn[ch] = Over(ch.due, Paid(ch.key))
    BY DEF DueOn, PaidOn, OverpaidOn, OutstandingOn
  <2>3. \A p, q \in Int : Over(p, q) \in Int /\ p + Over(q, p) = q + Over(p, q)
    BY DEF Over
  <2> QED BY <2>1, <2>2, <2>3
<1>4. Total(DueOn) + Total(OverpaidOn) = Total(PaidOn) + Total(OutstandingOn)
  <2> HIDE DEF shown
  <2>1. SumFunctionOnSet(DueOn, shown) + SumFunctionOnSet(OverpaidOn, shown)
          = SumFunctionOnSet(PaidOn, shown) + SumFunctionOnSet(OutstandingOn, shown)
    BY <1>1, <1>3, SumsBalance
  <2> QED BY <2>1 DEF Total, shown
<1>5. {Total(DueOn), Total(OverpaidOn), Total(PaidOn), Total(OutstandingOn)} \subseteq Int
  <2>1. \A ch \in shown : /\ DueOn[ch] \in Int /\ OverpaidOn[ch] \in Int
                           /\ PaidOn[ch] \in Int /\ OutstandingOn[ch] \in Int
    BY <1>3
  <2> HIDE DEF shown
  <2>2. {SumFunctionOnSet(DueOn, shown), SumFunctionOnSet(OverpaidOn, shown),
         SumFunctionOnSet(PaidOn, shown), SumFunctionOnSet(OutstandingOn, shown)} \subseteq Int
    BY <1>1, <2>1, SumType
  <2> QED BY <2>2 DEF Total, shown
<1>6. Total(DueOn) - Total(OutstandingOn) = Total(PaidOn) - Total(OverpaidOn)
  BY <1>4, <1>5
<1> QED BY <1>2, <1>6 DEF NothingVanishes

(* Rates, revenues, payments and requests are ones that tables and         *)
(* handlers can hold; a reversal names a payment on record (reverse).      *)
THEOREM LedgerTypes == LedgerSpec => []LedgerTypeOK
<1>1. LedgerInit => TypeOK /\ LedgerTypeOK
  BY LedgerTypesInitially
<1>2. TypeOK /\ LedgerTypeOK /\ [LedgerNext]_<<vars, ledgerVars>> => (TypeOK /\ LedgerTypeOK)'
  BY LedgerTypesKept
<1> QED BY <1>1, <1>2, PTL DEF LedgerSpec

(* The balances account for every sum that stands, though its charge was   *)
(* waived, priced again or can no longer be worked out, and they balance   *)
(* (balances, settle, totals, with the orphaned payments listed at a       *)
(* charge of zero).                                                        *)
THEOREM BalancesComplete == LedgerSpec => []NothingVanishes
<1>1. LedgerInit => TypeOK /\ LedgerTypeOK
  BY LedgerTypesInitially
<1>2. TypeOK /\ LedgerTypeOK /\ [LedgerNext]_<<vars, ledgerVars>> => (TypeOK /\ LedgerTypeOK)'
  BY LedgerTypesKept
<1>3. TypeOK /\ LedgerTypeOK => NothingVanishes
  BY BalancesAddUp
<1> QED BY <1>1, <1>2, <1>3, PTL DEF LedgerSpec

=============================================================================
