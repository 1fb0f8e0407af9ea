------------------------------ MODULE Autosave ------------------------------
(***************************************************************************)
(* useAutosave, the hook that keeps the questionnaire saved while the      *)
(* operator types, with the page that calls it, the network and the row it *)
(* saves to.  Renders, timers and answers interleave: a debounce timer may *)
(* fire while a save is in flight, and the operator goes on typing.        *)
(***************************************************************************)

CONSTANTS
  Contents,  \* what the form may hold
  Empty      \* the form before the return has loaded

ASSUME EmptyAssumption == Empty \in Contents

VARIABLES
  form,      \* the values on screen (dataRef)
  lastSaved, \* the hook's lastSaved ref
  timer,     \* a debounce timer is pending
  inFlight,  \* the hook's inFlight ref
  status,    \* state.status, what the page tells the operator
  saves,     \* requests on their way, and the answers on their way back
  server     \* the values of the return on the server

autosaveVars == <<form, lastSaved, timer, inFlight, status, saves, server>>

SaveRequests == [content : Contents, stored : BOOLEAN]

(* Above all, one save at a time: two could land out of order and the      *)
(* older one overwrite the newer (the hook's inFlight).                    *)
AutosaveTypeOK ==
  /\ {form, lastSaved, server} \subseteq Contents
  /\ {timer, inFlight} \subseteq BOOLEAN
  /\ status \in {"idle", "saving", "saved", "error"}
  /\ saves \subseteq SaveRequests /\ \A r, q \in saves : r = q

(* The return has loaded.  markClean ran on the render before the form was *)
(* seeded, so the hook still takes the empty form for the saved one.       *)
AutosaveInit ==
  /\ server \in Contents /\ form = server
  /\ lastSaved = Empty
  /\ timer = (form # Empty)
  /\ inFlight = FALSE /\ status = "idle" /\ saves = {}

-----------------------------------------------------------------------------
(* A keystroke: the effect clears the old timer and sets one if the form   *)
(* differs from what was last saved.                                       *)
Edit(content) ==
  /\ content # form
  /\ form' = content
  /\ timer' = (content # lastSaved)
  /\ UNCHANGED <<lastSaved, inFlight, status, saves, server>>

(* Mutant of MayStart: a save does not wait for the one before it.         *)
MayStartAnyway == TRUE
MayStart == ~inFlight

(* The hook's save: it returns at once if one is in flight.                *)
Save ==
  IF MayStart
    THEN /\ inFlight' = TRUE /\ status' = "saving"
         /\ saves' = saves \cup {[content |-> form, stored |-> FALSE]}
    ELSE UNCHANGED <<inFlight, status, saves>>

(* Mutant of StillDirty: the timer does not look again when it fires.      *)
DirtyOnceDirty == TRUE
StillDirty == form # lastSaved

TimerFires ==
  /\ timer
  /\ timer' = FALSE
  /\ IF StillDirty THEN Save ELSE UNCHANGED <<inFlight, status, saves>>
  /\ UNCHANGED <<form, lastSaved, server>>

(* "Try again", offered next to the error.                                 *)
Retry ==
  /\ status = "error"
  /\ Save
  /\ UNCHANGED <<form, lastSaved, timer, server>>

Store(r) ==
  /\ ~r.stored
  /\ server' = r.content
  /\ saves' = (saves \ {r}) \cup {[r EXCEPT !.stored = TRUE]}
  /\ UNCHANGED <<form, lastSaved, timer, inFlight, status>>

(* Mutant of Acknowledged: the form as it is now is taken for saved, not   *)
(* the snapshot that was sent.                                             *)
AcknowledgedForm(r) == form
Acknowledged(r)     == r.content

Answer(r) ==
  /\ r.stored
  /\ lastSaved' = Acknowledged(r)
  /\ status' = "saved" /\ inFlight' = FALSE
  /\ saves' = saves \ {r}
  /\ UNCHANGED <<form, timer, server>>

(* Mutant of Released: the flag is lowered on success only.                *)
StillHeld == TRUE
Released  == FALSE

(* The request never arrives, is refused (the period has closed), or its   *)
(* answer is lost after the values were stored.                            *)
Fail(r) ==
  /\ status' = "error" /\ inFlight' = Released
  /\ saves' = saves \ {r}
  /\ UNCHANGED <<form, lastSaved, timer, server>>

AutosaveNext ==
  \/ \E content \in Contents : Edit(content)
  \/ TimerFires \/ Retry
  \/ \E r \in saves : Store(r) \/ Answer(r) \/ Fail(r)

(* The browser fires a timer that is not cleared.  Nothing makes a request *)
(* come back: the client sets no time limit.                               *)
AutosaveSpec == AutosaveInit /\ [][AutosaveNext]_autosaveVars /\ WF_autosaveVars(TimerFires)

-----------------------------------------------------------------------------
(* When the page says "Saved", what the hook last saved is what the server *)
(* has: saves do not overtake each other (save's inFlight) and the content *)
(* remembered is the content sent (its snapshot).                          *)
SavedIsStored == status = "saved" => server = lastSaved

(* Content is sent again without the operator asking only if it changed    *)
(* since the last successful save, even when a retry has saved it between  *)
(* the setting of a timer and its firing (the timer's second look).        *)
NoRedundantSave ==
  [][status # "error" /\ status' = "saving" /\ status # "saving" => form # lastSaved]_autosaveVars

(* An edit after a failure tries again by itself, unless the operator      *)
(* types on for ever or comes back to what was saved (the finally of save).  *)
NextEditTriesAgain ==
  \/ []<><<TRUE>>_form
  \/ status = "error" /\ timer ~> status = "saving" \/ form = lastSaved

(* The page says "Saved", and nothing more is on its way, only if what is  *)
(* on screen is saved.                                                     *)
SavedMeansSafe == status = "saved" /\ ~timer => form = lastSaved
=============================================================================
