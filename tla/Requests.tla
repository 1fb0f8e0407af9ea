------------------------------ MODULE Requests ------------------------------
(***************************************************************************)
(* Requests and jobs in flight.  v maps each slot to the request it serves *)
(* with what that request has read so far; other requests go on between    *)
(* any two of its steps.  What was written stays when it is abandoned.     *)
(***************************************************************************)

Idle == [pc |-> "idle"]

At(v, s, pc)      == v[s].pc = pc
Begin(v, s, r)    == v[s] = Idle /\ v' = [v EXCEPT ![s] = r]
Continue(v, s, r) == v' = [v EXCEPT ![s] = r]
Finish(v, s)      == v' = [v EXCEPT ![s] = Idle]
Drop(v, s)        == v[s] # Idle /\ Finish(v, s)
=============================================================================
