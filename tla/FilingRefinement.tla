-------------------------- MODULE FilingRefinement --------------------------
(* Filing, served one request at a time, implements ReturnLifecycle.       *)
EXTENDS Filing

(* The review lifecycle of one return at a time: of the versions of a      *)
(* return, the live one that was not rejected is where it stands.          *)
HeldOf(o) == {k \in Of(o[1], o[2]) : Live(k) /\ ret[k].status # "REJECTED"}
Place(row) == CASE row.status = "DRAFT"    -> "draft"
                [] row.status = "APPROVED" -> "approved"
                [] OTHER                   -> row.stage
OneOf(held)  == CHOOSE k \in held : TRUE
CurrentOf(o) == IF HeldOf(o) = {} THEN "none" ELSE Place(ret[OneOf(HeldOf(o))])

Lifecycle == INSTANCE ReturnLifecycle WITH
  Obligations <- Entities \X Periods,
  current  <- [o \in Entities \X Periods |-> CurrentOf(o)],
  sentBack <- [o \in Entities \X Periods |->
                Cardinality({k \in Of(o[1], o[2]) : ret[k].status = "REJECTED"})]

(* Served one request at a time, the submission and workflow services do   *)
(* to a return only what its lifecycle allows: no step skips a stage,      *)
(* loses a filed return, or moves an approved one.                         *)
ImplementsLifecycle == Lifecycle!Spec
=============================================================================
