----------------------------- MODULE Documents ------------------------------
(***************************************************************************)
(* Licence documents and the sweep that warns their operators of expiry.   *)
(* The sweep works through the documents it read at its start; two may run *)
(* at once, the nightly one and an administrator's, or two instances'.     *)
(***************************************************************************)
EXTENDS Requests, Integers, FiniteSets

CONSTANTS
  Docs,         \* documents that may be uploaded
  ExpiryDays,   \* expiry dates they may carry
  WarningDays,  \* DEFAULT_EXPIRY_WARNING_DAYS
  LastDate,     \* bound on the clock
  Sweeps,       \* expiry sweeps that may run at once
  Uploaders,    \* uploads that may be in flight at once
  Nothing       \* no document, no stage

ASSUME NothingAssumption == Nothing \notin Docs /\ Nothing \notin {"EXPIRING", "EXPIRED"}
ASSUME WarningAssumption == WarningDays \in Nat /\ LastDate \in Nat /\ ExpiryDays \subseteq Nat

VARIABLES
  date,      \* the clock
  document,  \* document_records
  sweep,     \* expiry sweeps in flight
  uploader,  \* uploads in flight
  alerts     \* alerts sent for each document and stage

documentVars == <<date, document, sweep, uploader, alerts>>

Stages == {"EXPIRING", "EXPIRED"}
MaybeStage == Stages \cup {Nothing}
States == {"none", "kept", "deleted"}

DocumentRows == [state : States, expires : ExpiryDays \cup {Nothing},
                 supersedes : Docs \cup {Nothing}, alerted : MaybeStage]
NoDocument == [state |-> "none", expires |-> Nothing, supersedes |-> Nothing, alerted |-> Nothing]

SweepRequests ==
  {Idle} \cup [pc : {"documents"}, todo : SUBSET Docs, was : [Docs -> MaybeStage]]
  \cup [pc : {"notify"}, todo : SUBSET Docs, was : [Docs -> MaybeStage], document : Docs, stage : Stages]
UploadRows ==
  {Idle} \cup [pc : {"create"}, document : Docs, expires : ExpiryDays \cup {Nothing},
               supersedes : Docs \cup {Nothing}]

DocumentsTypeOK ==
  /\ date \in Nat
  /\ document \in [Docs -> DocumentRows]
  /\ sweep \in [Sweeps -> SweepRequests]
  /\ uploader \in [Uploaders -> UploadRows]
  /\ alerts \in [Docs \X Stages -> Nat]

DocumentsInit ==
  /\ date = 0
  /\ document = [d \in Docs |-> NoDocument]
  /\ sweep = [s \in Sweeps |-> Idle]
  /\ uploader = [u \in Uploaders |-> Idle]
  /\ alerts = [x \in Docs \X Stages |-> 0]

Superseded(d) == \E e \in Docs : document[e].supersedes = d

-----------------------------------------------------------------------------
(* The repository.                                                         *)

(* upload up to the insert: a replaced document is kept and not replaced.  *)
Upload(u, d, expires, previous) ==
  /\ document[d] = NoDocument
  /\ \A v \in Uploaders : uploader[v] # Idle => uploader[v].document # d
  /\ previous # Nothing => document[previous].state = "kept" /\ ~Superseded(previous)
  /\ Begin(uploader, u, [pc |-> "create", document |-> d, expires |-> expires,
                         supersedes |-> previous])
  /\ UNCHANGED <<date, document, sweep, alerts>>

(* A unique index keeps the second of two replacements of a document out.  *)
CreateDocument(u) ==
  LET r == uploader[u] IN
  /\ At(uploader, u, "create")
  /\ document' = IF r.supersedes # Nothing /\ Superseded(r.supersedes) THEN document
                 ELSE [document EXCEPT ![r.document] =
                   [state |-> "kept", expires |-> r.expires,
                    supersedes |-> r.supersedes, alerted |-> Nothing]]
  /\ Finish(uploader, u)
  /\ UNCHANGED <<date, sweep, alerts>>

RemoveDocument(d) ==
  /\ document[d].state = "kept"
  /\ document' = [document EXCEPT ![d].state = "deleted"]
  /\ UNCHANGED <<date, sweep, uploader, alerts>>

-----------------------------------------------------------------------------
(* The sweep.                                                              *)

(* expiryOf, of a document that has an expiry date.                        *)
Stage(d) ==
  LET remaining == document[d].expires - date IN
  IF remaining < 0 THEN "EXPIRED"
  ELSE IF remaining <= WarningDays THEN "EXPIRING" ELSE Nothing

DueForAlert(d) ==
  /\ document[d].state = "kept" /\ ~Superseded(d)
  /\ document[d].expires # Nothing /\ document[d].expires <= date + WarningDays

(* Of what was read, only what is still to be looked at matters.           *)
Left(todo, was) == [d \in Docs |-> IF d \in todo THEN was[d] ELSE Nothing]
SweepOver(todo, was) ==
  IF todo = {} THEN Idle ELSE [pc |-> "documents", todo |-> todo, was |-> Left(todo, was)]

StartExpirySweep(s) ==
  /\ Begin(sweep, s, SweepOver({d \in Docs : DueForAlert(d)}, [d \in Docs |-> document[d].alerted]))
  /\ UNCHANGED <<date, document, uploader, alerts>>

(* Mutant of Unclaimed: the read is taken for the claim.                   *)
UnclaimedAnyway(r, d) == TRUE
Unclaimed(r, d)       == document[d].alerted = r.was[d]

(* The claim: the stage is written where it is still what the sweep read.  *)
Claim(s, d) ==
  LET r == sweep[s]
      rest == r.todo \ {d}
      claimed == Stage(d) \notin {Nothing, r.was[d]} /\ Unclaimed(r, d)
  IN
  /\ At(sweep, s, "documents") /\ d \in r.todo
  /\ document' = IF claimed THEN [document EXCEPT ![d].alerted = Stage(d)] ELSE document
  /\ Continue(sweep, s, IF claimed THEN [pc |-> "notify", todo |-> rest, was |-> Left(rest, r.was),
                                         document |-> d, stage |-> Stage(d)]
                        ELSE SweepOver(rest, r.was))
  /\ UNCHANGED <<date, uploader, alerts>>

Notify(s) ==
  LET r == sweep[s] IN
  /\ At(sweep, s, "notify")
  /\ alerts' = [alerts EXCEPT ![<<r.document, r.stage>>] = @ + 1]
  /\ Continue(sweep, s, SweepOver(r.todo, r.was))
  /\ UNCHANGED <<date, document, uploader>>

(* The process stops, or the upload fails.                                 *)
StopSweep(s) == Drop(sweep, s) /\ UNCHANGED <<date, document, uploader, alerts>>
StopUpload(u) == Drop(uploader, u) /\ UNCHANGED <<date, document, sweep, alerts>>

NextDate ==
  /\ date < LastDate
  /\ date' = date + 1
  /\ UNCHANGED <<document, sweep, uploader, alerts>>

DocumentsNext ==
  \/ NextDate
  \/ \E s \in Sweeps : \/ StartExpirySweep(s) \/ Notify(s) \/ StopSweep(s)
                       \/ \E d \in Docs : Claim(s, d)
  \/ \E u \in Uploaders : \/ CreateDocument(u) \/ StopUpload(u)
                          \/ \E d \in Docs, x \in ExpiryDays \cup {Nothing},
                                p \in Docs \cup {Nothing} : Upload(u, d, x, p)
  \/ \E d \in Docs : RemoveDocument(d)

DocumentsSpec == DocumentsInit /\ [][DocumentsNext]_documentVars

-----------------------------------------------------------------------------
(* An operator hears of each stage of a document once, though two sweeps   *)
(* have read it before either claimed it, and however long one of them     *)
(* takes (sweepExpiries makes the update the guard).                       *)
StageAlertedOnce == \A x \in Docs \X Stages : alerts[x] <= 1
=============================================================================
