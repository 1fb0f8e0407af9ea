--------------------------- MODULE ReturnLifecycle ---------------------------
(***************************************************************************)
(* What the portal promises about the return an operator owes for a        *)
(* period, with versions, requests, accounts and periods left out: a draft *)
(* may be begun and thrown away, a filed return moves through the review   *)
(* stages in order, a rejection sends it back and opens a new version, and *)
(* an approval is the end of it.                                           *)
(***************************************************************************)
EXTENDS Naturals

CONSTANT Obligations      \* an operator and a period it owes a return for

VARIABLES
  current,    \* where the one current return of the obligation stands
  sentBack    \* how many of its versions were rejected

vars == <<current, sentBack>>

Stages == {"CHECKER", "VERIFIER", "APPROVER"}
Places == {"none", "draft", "approved"} \cup Stages

(* Where a return may stand.                                               *)
TypeOK == current \in [Obligations -> Places] /\ sentBack \in [Obligations -> Nat]

Init == current = [o \in Obligations |-> "none"] /\ sentBack = [o \in Obligations |-> 0]

Move(o, from, to) ==
  /\ current[o] = from
  /\ current' = [current EXCEPT ![o] = to]
  /\ UNCHANGED sentBack

Begin(o)   == Move(o, "none", "draft")
Discard(o) == Move(o, "draft", "none")
File(o)    == Move(o, "draft", "CHECKER")
FastTrack(o) == Move(o, "draft", "VERIFIER")
Advance(o) == Move(o, "CHECKER", "VERIFIER") \/ Move(o, "VERIFIER", "APPROVER")
Approve(o) == Move(o, "APPROVER", "approved")

SendBack(o) ==
  /\ current[o] \in Stages
  /\ current'  = [current  EXCEPT ![o] = "none"]
  /\ sentBack' = [sentBack EXCEPT ![o] = @ + 1]

Next == \E o \in Obligations :
  Begin(o) \/ Discard(o) \/ File(o) \/ FastTrack(o) \/ Advance(o) \/ Approve(o) \/ SendBack(o)

Spec == Init /\ [][Next]_vars
=============================================================================
