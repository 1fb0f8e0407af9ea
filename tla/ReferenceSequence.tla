-------------------------- MODULE ReferenceSequence --------------------------
(***************************************************************************)
(* How a submission, a payment and a complaint get their number: count the *)
(* rows numbered this year, try the next number after them, and on a       *)
(* collision with the unique index count again and skip one further.  The  *)
(* count and the write are separate statements, so issuers interleave      *)
(* between them.  One kind and one year: each has a sequence of its own.   *)
(***************************************************************************)
EXTENDS Integers, FiniteSets

CONSTANTS
  Issuers,      \* requests that may be numbering a row at once
  MaxAttempts,  \* tries before the request gives up (5 in the code)
  MaxIssued     \* bound on the requests started

ASSUME IssuersAssumption  == IsFiniteSet(Issuers)
ASSUME AttemptsAssumption == MaxAttempts \in Nat \ {0}
ASSUME IssuedAssumption   == MaxIssued \in Nat

VARIABLES
  issued,   \* the numbers rows of this year hold
  req       \* the requests in flight

sequenceVars == <<issued, req>>

Count == Cardinality(issued)

(* counted is how many rows had a number when the request began: the code  *)
(* has no such variable, it is there to say who beat whom.                 *)
Numberings == [pc : {"idle", "count", "write", "gaveUp"},
             attempt : 0..MaxAttempts, seq : Nat, counted : Nat]
NoRequest == [pc |-> "idle", attempt |-> 0, seq |-> 0, counted |-> 0]

(* Numbers are positive, and no request makes more attempts than allowed.  *)
SequenceTypeOK ==
  /\ issued \in SUBSET (Nat \ {0}) /\ IsFiniteSet(issued)
  /\ req \in [Issuers -> Numberings]

SequenceInit == issued = {} /\ req = [i \in Issuers |-> NoRequest]

-----------------------------------------------------------------------------
BeginNumbering(i) ==
  /\ req[i].pc = "idle"
  /\ Count + Cardinality({j \in Issuers : req[j].pc # "idle"}) < MaxIssued
  /\ req' = [req EXCEPT ![i] = [pc |-> "count", attempt |-> 0, seq |-> 0, counted |-> Count]]
  /\ UNCHANGED issued

(* Mutants: a collision skips two numbers rather than one; only rows that  *)
(* are still waiting for review are counted, and none is any more.         *)
SkipTwo(count, attempt)  == count + 1 + 2 * attempt
Sequence(count, attempt) == count + 1 + attempt

StillWaiting(rows) == 0
Numbered(rows)     == Cardinality(rows)

CountRows(i) ==
  /\ req[i].pc = "count"
  /\ req' = [req EXCEPT ![i].pc = "write",
                         ![i].seq = Sequence(Numbered(issued), req[i].attempt)]
  /\ UNCHANGED issued

WriteRow(i) ==
  /\ req[i].pc = "write" /\ req[i].seq \notin issued
  /\ issued' = issued \cup {req[i].seq}
  /\ req' = [req EXCEPT ![i] = NoRequest]

(* P2002 on the unique index.  Mutant: one attempt too many.               *)
OneMore(next)   == next <= MaxAttempts
TryAgain(next)  == next < MaxAttempts

Collide(i) ==
  /\ req[i].pc = "write" /\ req[i].seq \in issued
  /\ LET next == req[i].attempt + 1 IN
       req' = [req EXCEPT ![i].attempt = next,
                          ![i].pc = IF TryAgain(next) THEN "count" ELSE "gaveUp"]
  /\ UNCHANGED issued

(* The caller is told to try again; or the request dies; or its row was    *)
(* numbered by another request and the write matches nothing.              *)
End(i) ==
  /\ req[i].pc # "idle"
  /\ req' = [req EXCEPT ![i] = NoRequest]
  /\ UNCHANGED issued

SequenceNext == \E i \in Issuers : BeginNumbering(i) \/ CountRows(i) \/ WriteRow(i) \/ Collide(i) \/ End(i)

SequenceSpec == SequenceInit /\ [][SequenceNext]_sequenceVars

-----------------------------------------------------------------------------
(* However many collisions there were, a number stays within reach of the  *)
(* count: the attempts of a request nobody races always include a free     *)
(* one, so holes left by past races never lock the year's sequence.        *)
LoneRequestNumbered ==
  \E n \in (Count + 1)..(Count + MaxAttempts) : n \notin issued

(* A request gives up only if another one took a number while it was       *)
(* trying, which is what the caller is told ("Another payment was recorded *)
(* at the same moment").                                                   *)
GaveUpOnlyIfBeaten ==
  \A i \in Issuers : req[i].pc = "gaveUp" => Count > req[i].counted
=============================================================================
