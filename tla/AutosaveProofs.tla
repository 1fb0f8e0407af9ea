--------------------------- MODULE AutosaveProofs ---------------------------
(***************************************************************************)
(* What the hook tells the operator about the server, for any contents.    *)
(***************************************************************************)
EXTENDS Autosave, TLAPS

(* What is known of the save in flight.                                    *)
InFlightSave ==
  /\ inFlight <=> saves # {}
  /\ status = "saving" <=> inFlight
  /\ \A r \in saves : r.stored => server = r.content

IInv == AutosaveTypeOK /\ InFlightSave /\ SavedIsStored

LEMMA Initially == AutosaveInit => IInv
  BY EmptyAssumption DEF AutosaveInit, IInv, AutosaveTypeOK, InFlightSave, SavedIsStored

(* Starting a save, from the timer or by hand.                             *)
LEMMA SaveKeeps ==
  ASSUME IInv, Save, UNCHANGED <<form, lastSaved, server>>, timer' \in BOOLEAN
  PROVE  IInv'
<1>1. CASE MayStart
  <2>1. saves = {} /\ inFlight' = TRUE /\ status' = "saving"
    BY <1>1 DEF Save, MayStart, IInv, AutosaveTypeOK, InFlightSave
  <2>2. saves' = {[content |-> form, stored |-> FALSE]}
    BY <1>1, <2>1 DEF Save
  <2>3. AutosaveTypeOK'
    BY <2>1, <2>2 DEF IInv, AutosaveTypeOK, SaveRequests
  <2> QED BY <2>1, <2>2, <2>3 DEF IInv, InFlightSave, SavedIsStored
<1>2. CASE ~MayStart
  BY <1>2 DEF Save, IInv, AutosaveTypeOK, InFlightSave, SavedIsStored
<1> QED BY <1>1, <1>2

LEMMA Inductive == IInv /\ [AutosaveNext]_autosaveVars => IInv'
<1> SUFFICES ASSUME IInv, [AutosaveNext]_autosaveVars PROVE IInv'
  OBVIOUS
<1>1. CASE UNCHANGED autosaveVars
  BY <1>1 DEF autosaveVars, IInv, AutosaveTypeOK, InFlightSave, SavedIsStored
<1>2. ASSUME NEW content \in Contents, Edit(content)
      PROVE  IInv'
  BY <1>2 DEF Edit, IInv, AutosaveTypeOK, InFlightSave, SavedIsStored
<1>3. CASE TimerFires
  <2>1. CASE StillDirty
    BY <1>3, <2>1, SaveKeeps DEF TimerFires
  <2>2. CASE ~StillDirty
    BY <1>3, <2>2 DEF TimerFires, IInv, AutosaveTypeOK, InFlightSave, SavedIsStored
  <2> QED BY <2>1, <2>2
<1>4. CASE Retry
  BY <1>4, SaveKeeps DEF Retry, IInv, AutosaveTypeOK
<1>5. ASSUME NEW r \in saves, Store(r)
      PROVE  IInv'
  <2>1. r \in SaveRequests /\ saves = {r} /\ status = "saving"
    BY DEF IInv, AutosaveTypeOK, InFlightSave
  <2>2. saves' = {[r EXCEPT !.stored = TRUE]} /\ server' = r.content
    BY <1>5, <2>1 DEF Store
  <2>3. AutosaveTypeOK'
    BY <1>5, <2>1, <2>2 DEF Store, IInv, AutosaveTypeOK, SaveRequests
  <2> QED BY <1>5, <2>1, <2>2, <2>3 DEF Store, IInv, InFlightSave, SavedIsStored, SaveRequests
<1>6. ASSUME NEW r \in saves, Answer(r)
      PROVE  IInv'
  <2>1. r \in SaveRequests /\ saves = {r} /\ server = r.content
    BY <1>6 DEF Answer, IInv, AutosaveTypeOK, InFlightSave
  <2>2. saves' = {} /\ lastSaved' = server'
    BY <1>6, <2>1 DEF Answer, Acknowledged
  <2> QED BY <1>6, <2>1, <2>2 DEF Answer, Acknowledged, IInv, AutosaveTypeOK, InFlightSave, SavedIsStored, SaveRequests
<1>7. ASSUME NEW r \in saves, Fail(r)
      PROVE  IInv'
  <2>1. saves' = {}
    BY <1>7 DEF Fail, IInv, AutosaveTypeOK
  <2> QED BY <1>7, <2>1 DEF Fail, Released, IInv, AutosaveTypeOK, InFlightSave, SavedIsStored
<1> QED BY <1>1, <1>2, <1>3, <1>4, <1>5, <1>6, <1>7 DEF AutosaveNext

(* The word "Saved" on the page is true: what the hook remembers as saved  *)
(* is on the server, whatever the network does to each request.            *)
THEOREM SavedIsTrue == AutosaveSpec => []SavedIsStored
<1>1. IInv => SavedIsStored
  BY DEF IInv
<1> QED BY <1>1, Initially, Inductive, PTL DEF AutosaveSpec

(* The hook never has two saves on their way, so none overtakes another.   *)
THEOREM OneSaveAtATime == AutosaveSpec => []AutosaveTypeOK
<1>1. IInv => AutosaveTypeOK
  BY DEF IInv
<1> QED BY <1>1, Initially, Inductive, PTL DEF AutosaveSpec

(* Nothing is sent again unasked that the last successful save has sent,   *)
(* whatever edits, answers and retries come between the setting of a timer *)
(* and its firing: the timer looks again before it saves.                  *)
THEOREM NothingSentTwice == AutosaveSpec => NoRedundantSave
<1>1. [AutosaveNext]_autosaveVars => [status # "error" /\ status' = "saving" /\ status # "saving"
                        => form # lastSaved]_autosaveVars
  <2> SUFFICES ASSUME AutosaveNext, status # "error", status' = "saving", status # "saving"
               PROVE  form # lastSaved
    BY DEF autosaveVars
  <2>1. ASSUME NEW content \in Contents, Edit(content) PROVE FALSE
    BY <2>1 DEF Edit
  <2>2. CASE TimerFires
    BY <2>2 DEF TimerFires, StillDirty
  <2>3. CASE Retry
    BY <2>3 DEF Retry
  <2>4. ASSUME NEW r \in saves, Store(r) \/ Answer(r) \/ Fail(r) PROVE FALSE
    BY <2>4 DEF Store, Answer, Fail
  <2> QED BY <2>1, <2>2, <2>3, <2>4 DEF AutosaveNext
<1> QED BY <1>1, PTL DEF AutosaveSpec, NoRedundantSave
=============================================================================
