----------------------- MODULE ReferenceSequenceProofs -----------------------
(***************************************************************************)
(* The numbering loop never locks itself out, for any number of issuers,   *)
(* attempts and rows.                                                      *)
(***************************************************************************)
EXTENDS ReferenceSequence, FiniteSetTheorems, TLAPS

(* A number outruns the count by less than the attempts of one request.    *)
WithinReach == \A n \in issued : n <= Count + MaxAttempts - 1

(* A number about to be tried was computed from a count taken since its    *)
(* request began.                                                          *)
Trying(r) ==
  /\ r.pc # "idle" => r.counted <= Count
  /\ r.pc \in {"count", "write"} => r.attempt < MaxAttempts
  /\ r.pc = "write" => r.counted + 1 + r.attempt <= r.seq /\ r.seq <= Count + 1 + r.attempt
  /\ r.pc = "gaveUp" => Count > r.counted

IInv == SequenceTypeOK /\ WithinReach /\ \A i \in Issuers : Trying(req[i])

LEMMA CountType == SequenceTypeOK => Count \in Nat
  BY FS_CardinalityType DEF SequenceTypeOK, Count

LEMMA Initially == SequenceInit => IInv
<1> SUFFICES ASSUME SequenceInit PROVE IInv
  OBVIOUS
<1>1. Count = 0 /\ IsFiniteSet(issued)
  BY FS_EmptySet DEF SequenceInit, Count
<1>2. SequenceTypeOK
  BY <1>1, AttemptsAssumption DEF SequenceInit, SequenceTypeOK, Numberings, NoRequest
<1> QED BY <1>1, <1>2 DEF SequenceInit, IInv, WithinReach, Trying, NoRequest

(* One issuer's record changes, and no number is issued.                   *)
LEMMA RecordKeeps ==
  ASSUME IInv, UNCHANGED issued,
         NEW i \in Issuers, NEW r \in Numberings, Trying(r), req' = [req EXCEPT ![i] = r]
  PROVE  IInv'
<1>1. SequenceTypeOK'
  BY DEF IInv, SequenceTypeOK
<1>2. Count' = Count
  BY DEF Count
<1>3. ASSUME NEW j \in Issuers
      PROVE  Trying(req[j])'
  BY <1>2 DEF IInv, SequenceTypeOK, Trying
<1> QED BY <1>1, <1>2, <1>3 DEF IInv, WithinReach

LEMMA Inductive == IInv /\ [SequenceNext]_sequenceVars => IInv'
<1> SUFFICES ASSUME IInv, [SequenceNext]_sequenceVars PROVE IInv'
  OBVIOUS
<1>0. Count \in Nat /\ \A i \in Issuers : req[i] \in Numberings /\ Trying(req[i])
  BY CountType DEF IInv, SequenceTypeOK
<1>idle. NoRequest \in Numberings /\ Trying(NoRequest)
  BY AttemptsAssumption DEF NoRequest, Numberings, Trying
<1>1. CASE UNCHANGED sequenceVars
  BY <1>1 DEF sequenceVars, IInv, SequenceTypeOK, WithinReach, Trying, Count
<1>2. ASSUME NEW i \in Issuers, BeginNumbering(i)
      PROVE  IInv'
  <2> DEFINE r == [pc |-> "count", attempt |-> 0, seq |-> 0, counted |-> Count]
  <2>1. r \in Numberings
    BY <1>0, AttemptsAssumption DEF Numberings
  <2>2. Trying(r)
    BY <1>0, AttemptsAssumption DEF Trying
  <2>3. req' = [req EXCEPT ![i] = r] /\ UNCHANGED issued
    BY <1>2 DEF BeginNumbering
  <2> HIDE DEF r
  <2> QED BY <2>1, <2>2, <2>3, RecordKeeps
<1>3. ASSUME NEW i \in Issuers, CountRows(i)
      PROVE  IInv'
  <2> DEFINE r == [req[i] EXCEPT !.pc = "write", !.seq = Count + 1 + req[i].attempt]
  <2>1. /\ req[i] \in Numberings /\ req[i].pc = "count" /\ req[i].attempt \in Nat
        /\ req[i].attempt < MaxAttempts /\ req[i].counted \in Nat /\ req[i].counted <= Count
    BY <1>0, <1>3, AttemptsAssumption DEF CountRows, Numberings, Trying
  <2>2. Count + 1 + req[i].attempt \in Nat
    BY <1>0, <2>1
  <2>3. r \in Numberings
    BY <2>1, <2>2 DEF Numberings
  <2>4. /\ r.pc = "write" /\ r.seq = Count + 1 + req[i].attempt
        /\ r.attempt = req[i].attempt /\ r.counted = req[i].counted
    BY <2>1 DEF Numberings
  <2>5. Trying(r)
    BY <1>0, <2>1, <2>4 DEF Trying
  <2>6. req' = [req EXCEPT ![i] = r] /\ UNCHANGED issued
    BY <1>3 DEF CountRows, Sequence, Numbered, Count, IInv, SequenceTypeOK
  <2> HIDE DEF r
  <2> QED BY <2>3, <2>5, <2>6, RecordKeeps
<1>4. ASSUME NEW i \in Issuers, WriteRow(i)
      PROVE  IInv'
  <2> DEFINE seq == req[i].seq
  <2>1. /\ seq \in Nat \ {0} /\ seq \notin issued /\ seq <= Count + MaxAttempts
        /\ issued' = issued \cup {seq} /\ req' = [req EXCEPT ![i] = NoRequest]
    BY <1>0, <1>4, AttemptsAssumption DEF WriteRow, Numberings, Trying
  <2>2. Count' = Count + 1 /\ IsFiniteSet(issued')
    BY <2>1, FS_AddElement DEF Count, IInv, SequenceTypeOK
  <2>3. SequenceTypeOK'
    BY <1>idle, <2>1, <2>2 DEF IInv, SequenceTypeOK
  <2>4. WithinReach'
    BY <1>0, <2>1, <2>2, AttemptsAssumption DEF IInv, SequenceTypeOK, WithinReach
  <2>5. ASSUME NEW j \in Issuers
        PROVE  Trying(req[j])'
    <3>1. CASE j = i
      BY <1>0, <2>1, <3>1 DEF IInv, SequenceTypeOK, Trying, NoRequest
    <3>2. CASE j # i
      <4>1. req'[j] = req[j]
        BY <2>1, <3>2 DEF IInv, SequenceTypeOK
      <4> QED BY <1>0, <2>2, <4>1, AttemptsAssumption DEF Trying, Numberings
    <3> QED BY <3>1, <3>2
  <2> QED BY <2>3, <2>4, <2>5 DEF IInv
<1>5. ASSUME NEW i \in Issuers, Collide(i)
      PROVE  IInv'
  <2> DEFINE next == req[i].attempt + 1
             pc   == IF TryAgain(next) THEN "count" ELSE "gaveUp"
             r    == [req[i] EXCEPT !.attempt = next, !.pc = pc]
  <2>1. /\ req[i].pc = "write" /\ req[i].seq \in issued
        /\ req' = [req EXCEPT ![i] = r] /\ UNCHANGED issued
    BY <1>5 DEF Collide, IInv, SequenceTypeOK
  <2>2. req[i].seq <= Count + MaxAttempts - 1
    BY <2>1 DEF IInv, WithinReach
  <2>3. req[i] \in Numberings /\ Trying(req[i])
    BY <1>0
  <2>4. /\ req[i].attempt \in Nat /\ req[i].attempt < MaxAttempts
        /\ req[i].counted \in Nat /\ req[i].counted <= Count
        /\ req[i].seq \in Nat /\ req[i].counted + 1 + req[i].attempt <= req[i].seq
    BY <2>1, <2>3, AttemptsAssumption DEF Numberings, Trying
  <2>5. r \in Numberings
    <3>1. pc \in {"count", "gaveUp"} /\ next \in 0..MaxAttempts
      BY <2>4, AttemptsAssumption
    <3> HIDE DEF pc, next
    <3> QED BY <2>3, <3>1 DEF Numberings
  <2>6. /\ r.pc = pc /\ r.attempt = next /\ r.counted = req[i].counted
    BY <2>3 DEF Numberings
  <2>7. Trying(r)
    <3>1. CASE TryAgain(next)
      BY <2>4, <2>6, <3>1 DEF Trying, TryAgain
    <3>2. CASE ~TryAgain(next)
      <4>1. req[i].attempt = MaxAttempts - 1
        BY <2>4, <3>2, AttemptsAssumption DEF TryAgain
      <4>2. Count > req[i].counted
        BY <1>0, <2>2, <2>4, <4>1, AttemptsAssumption
      <4> QED BY <2>4, <2>6, <3>2, <4>2 DEF Trying
    <3> QED BY <3>1, <3>2
  <2> QED BY <2>1, <2>5, <2>7, RecordKeeps
<1>6. ASSUME NEW i \in Issuers, End(i)
      PROVE  IInv'
  BY <1>6, <1>idle, RecordKeeps DEF End
<1> QED BY <1>1, <1>2, <1>3, <1>4, <1>5, <1>6 DEF SequenceNext

LEMMA Invariance == SequenceSpec => []IInv
  BY Initially, Inductive, PTL DEF SequenceSpec

(* Holes left by lost races never exhaust the attempts of a request that   *)
(* nobody races, for any number of attempts.                               *)
THEOREM NeverLockedOut == SequenceSpec => []LoneRequestNumbered
<1>1. ASSUME IInv PROVE LoneRequestNumbered
  <2>1. Count + MaxAttempts \in (Count + 1)..(Count + MaxAttempts)
    BY <1>1, CountType, AttemptsAssumption DEF IInv
  <2>2. Count + MaxAttempts \notin issued
    BY <1>1, CountType, AttemptsAssumption DEF IInv, WithinReach
  <2> QED BY <2>1, <2>2 DEF LoneRequestNumbered
<1> QED BY <1>1, Invariance, PTL

(* A request that gives up was beaten to a number by another one.          *)
THEOREM GivesUpHonestly == SequenceSpec => []GaveUpOnlyIfBeaten
<1>1. IInv => GaveUpOnlyIfBeaten
  BY DEF IInv, Trying, GaveUpOnlyIfBeaten
<1> QED BY <1>1, Invariance, PTL

(* Numbers are positive, finitely many, and attempts are within bounds.    *)
THEOREM SequenceTypes == SequenceSpec => []SequenceTypeOK
<1>1. IInv => SequenceTypeOK
  BY DEF IInv
<1> QED BY <1>1, Invariance, PTL
=============================================================================
