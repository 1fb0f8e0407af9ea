------------------------------- MODULE Filing -------------------------------
(***************************************************************************)
(* A return from the moment an operator opens it to the Approver's sign-   *)
(* off: SubmissionsService (open, save, submit, revise, delete),           *)
(* WorkflowService.decide, ReportingPeriodsService (open, close, delete)   *)
(* and the two entity updates that matter to them.                         *)
(*                                                                         *)
(* Every handler reads the database, decides, and then writes with one     *)
(* await per statement and no transaction around the whole, so requests    *)
(* interleave between any two statements.  A request in flight is a record *)
(* in req whose pc names its next write and whose other fields are the     *)
(* values it has read and will use.  The reads a handler makes before its  *)
(* first write are taken in one step: the gap that matters is the one      *)
(* between them and the write.                                             *)
(***************************************************************************)
EXTENDS Integers, Sequences, FiniteSets

CONSTANTS
  Entities,        \* the operators that owe returns
  Periods,         \* reporting periods, all on one questionnaire family
  MaxVersion,      \* bound on the versions of a return (the code has none)
  Slots,           \* requests that may be in flight at once
  Reviewers,       \* accounts that hold a reviewer role
  Answers,         \* what an operator may save as the content of a return
  NoAnswers,       \* a return with no saved values
  Valid,           \* the contents the validation engine lets through
  Unsigned,        \* no submission recorded on the row
  FastTrackStreak, \* clean approvals that earn the fast track (3 in the code)
  PriorStreak      \* each entity's streak when the observation starts

Content == Answers \cup {NoAnswers}

ASSUME MaxVersionAssumption == MaxVersion \in Nat \ {0}
ASSUME FastTrackAssumption  == FastTrackStreak \in Nat \ {0}
ASSUME PriorAssumption      == PriorStreak \in [Entities -> Nat]
ASSUME ContentAssumption    == /\ NoAnswers \notin Answers
                               /\ Unsigned \notin Content
                               /\ Valid \subseteq Content

VARIABLES
  ret,     \* the submissions table, keyed by @@unique([entityId, periodId, version])
  period,  \* the reporting_periods table
  active,  \* entities.status = ACTIVE
  streak,  \* compliance_streaks.count for the questionnaire family
  req      \* the requests in flight

vars == <<ret, period, active, streak, req>>

-----------------------------------------------------------------------------
(* The tables.                                                             *)

Versions == 1..MaxVersion
Returns  == Entities \X Periods \X Versions
Prev(k)  == <<k[1], k[2], k[3] - 1>>     \* the return k supersedes
Later(k) == <<k[1], k[2], k[3] + 1>>     \* the return that supersedes k

Stages    == {"CHECKER", "VERIFIER", "APPROVER"}
Statuses  == {"DRAFT", "SUBMITTED", "UNDER_REVIEW", "APPROVED", "REJECTED"}
Decisions == {"APPROVE", "REJECT"}
SkipVerifier == [CHECKER |-> "APPROVER", VERIFIER |-> "APPROVER"]   \* mutant of NextStage
NextStage == [CHECKER |-> "VERIFIER", VERIFIER |-> "APPROVER"]

Steps == [stage : Stages, decision : Decisions, actor : Reviewers]

Rows == [status  : Statuses \cup {"ABSENT"},
         stage   : Stages \cup {"none"},      \* reviewStage
         deleted : BOOLEAN,                   \* deletedAt is set
         locked  : BOOLEAN,                   \* lockedAt is set
         late    : BOOLEAN,                   \* isLate
         fast    : BOOLEAN,                   \* a filing of it skipped the Checker (kept in the audit log)
         answers : Content,                   \* its submission_values
         signed  : Content \cup {Unsigned},   \* the values submit read: it validated them, and took
                                              \* the digest of a certificate's signature over them
         trail   : Seq(Steps)]                \* its review_steps, oldest first

Absent == [status |-> "ABSENT", stage |-> "none", deleted |-> FALSE,
           locked |-> FALSE, late |-> FALSE, fast |-> FALSE,
           answers |-> NoAnswers, signed |-> Unsigned, trail |-> <<>>]

Draft(content) == [Absent EXCEPT !.status = "DRAFT", !.answers = content]

PeriodRows == [status : {"SCHEDULED", "OPEN", "CLOSED"}, deleted : BOOLEAN]

Exists(k) == ret[k].status # "ABSENT"
Live(k)   == Exists(k) /\ ~ret[k].deleted
Filed(k)  == ret[k].signed # Unsigned         \* submittedAt is set in the same write
InReview(k) == ret[k].status \in {"SUBMITTED", "UNDER_REVIEW"}
Of(e, p)  == {k \in Returns : k[1] = e /\ k[2] = p}

(* Requests in flight, by the write each will make next.                   *)
Idle == [pc |-> "idle"]
Requests ==
  {Idle}
  \cup [pc : {"createDraft", "reviveDraft", "reviveRevision", "deleteDraft"}, ret : Returns]
  \cup [pc : {"writeValues", "createRevision"}, ret : Returns, answers : Content]
  \cup [pc : {"file"}, ret : Returns, signed : Content,
        late : BOOLEAN, fast : BOOLEAN, changed : BOOLEAN]
  \cup [pc : {"recordStep", "applyDecision"}, ret : Returns, stage : Stages,
        decision : Decisions, actor : Reviewers, late : BOOLEAN]
  \cup [pc : {"resetStreak", "incrementStreak"}, entity : Entities]
  \cup [pc : {"deletePeriod"}, period : Periods]

(* Every row, period, streak and request in flight is one the tables and   *)
(* handlers can hold; above all, no streak drops below zero.               *)
TypeOK ==
  /\ ret \in [Returns -> Rows]
  /\ period \in [Periods -> PeriodRows]
  /\ active \in [Entities -> BOOLEAN]
  /\ streak \in [Entities -> Nat]
  /\ req \in [Slots -> Requests]

Init ==
  /\ ret = [k \in Returns |-> Absent]
  /\ period \in [Periods -> [status : {"SCHEDULED", "OPEN"}, deleted : {FALSE}]]
  /\ active = [e \in Entities |-> TRUE]
  /\ streak = PriorStreak
  /\ req = [s \in Slots |-> Idle]

-----------------------------------------------------------------------------
(* A request starts, moves on to its next write, or ends.                  *)

Begin(s, r) == req[s] = Idle /\ req' = [req EXCEPT ![s] = r]
At(s, pc)   == req[s].pc = pc
Continue(s, r) == req' = [req EXCEPT ![s] = r]
Finish(s)   == Continue(s, Idle)

EditRow(k, row) == ret' = [ret EXCEPT ![k] = row]
Cleared(row)    == [row EXCEPT !.answers = NoAnswers, !.deleted = FALSE]

(* The process stops, a statement fails, or every attempt at a reference   *)
(* number collides: what was written stays, what was to come does not.     *)
Abandon(s) ==
  /\ req[s] # Idle
  /\ Finish(s)
  /\ UNCHANGED <<ret, period, active, streak>>

-----------------------------------------------------------------------------
(* The operator.                                                           *)

(* Mutant of MayEdit: the status is not looked at.                         *)
MayEditAnyStatus(k) == Live(k) /\ active[k[1]] /\ period[k[2]].status = "OPEN"
MayEdit(k) == Live(k) /\ active[k[1]] /\ ret[k].status = "DRAFT" /\ period[k[2]].status = "OPEN"

(* Mutant of Accepts: a deleted period still takes returns.                *)
AcceptsIfOpen(p) == period[p].status = "OPEN"
Accepts(p)       == period[p].status = "OPEN" /\ ~period[p].deleted

(* getOrCreateDraft as far as its first write.  Resuming a live return and *)
(* refusing a rejected one change nothing.                                 *)
OpenDraft(s, e, p) ==
  LET k == <<e, p, 1>> IN
  /\ active[e]
  /\ Accepts(p)
  /\ \A v \in Of(e, p) : ~Live(v)
  /\ Begin(s, [pc  |-> IF ret[k].deleted /\ ret[k].status = "DRAFT" THEN "reviveDraft" ELSE "createDraft",
               ret |-> k])
  /\ UNCHANGED <<ret, period, active, streak>>

ReviveDraft(s) ==
  /\ At(s, "reviveDraft")
  /\ EditRow(req[s].ret, Cleared(ret[req[s].ret]))
  /\ Finish(s)
  /\ UNCHANGED <<period, active, streak>>

(* The unique key turns the second of two inserts into a resume or an      *)
(* error: either way nothing is written.                                   *)
CreateDraft(s) ==
  /\ At(s, "createDraft")
  /\ ret' = IF Exists(req[s].ret) THEN ret ELSE [ret EXCEPT ![req[s].ret] = Draft(NoAnswers)]
  /\ Finish(s)
  /\ UNCHANGED <<period, active, streak>>

SaveValues(s, k, content) ==
  /\ MayEdit(k)
  /\ Begin(s, [pc |-> "writeValues", ret |-> k, answers |-> content])
  /\ UNCHANGED <<ret, period, active, streak>>

WriteValues(s) ==
  /\ At(s, "writeValues")
  /\ EditRow(req[s].ret, [ret[req[s].ret] EXCEPT !.answers = req[s].answers])
  /\ Finish(s)
  /\ UNCHANGED <<period, active, streak>>

(* submit up to the write.  The clock and an editable due date let now be  *)
(* on either side of it; a change of services needs an earlier filed       *)
(* return to differ from.                                                  *)
FiledBefore(k) == \E j \in Returns \ {k} : j[1] = k[1] /\ Live(j) /\ Filed(j)

Submit(s, k) ==
  /\ MayEdit(k)
  /\ ret[k].answers \in Valid
  /\ \E late \in BOOLEAN, changed \in (IF FiledBefore(k) THEN BOOLEAN ELSE {FALSE}) :
       Begin(s, [pc |-> "file", ret |-> k, signed |-> ret[k].answers, late |-> late,
                 fast |-> ~late /\ ~changed /\ streak[k[1]] >= FastTrackStreak,
                 changed |-> changed])
  /\ UNCHANGED <<ret, period, active, streak>>

(* The where clause of submit's updateMany, and a mutant that goes by id   *)
(* alone.                                                                  *)
StillAnything(k) == TRUE
StillDraft(k)    == ret[k].status = "DRAFT"

FileReturn(s) ==
  LET r == req[s]
      row == ret[r.ret]
  IN
  /\ At(s, "file")
  /\ \/ /\ StillDraft(r.ret)
        /\ EditRow(r.ret, [row EXCEPT !.status = "SUBMITTED",
                                      !.stage  = IF r.fast THEN "VERIFIER" ELSE "CHECKER",
                                      !.late   = r.late,
                                      !.fast   = @ \/ r.fast,
                                      !.signed = r.signed])
        /\ IF r.late \/ r.changed
             THEN Continue(s, [pc |-> "resetStreak", entity |-> r.ret[1]])
             ELSE Finish(s)
     \/ /\ ~StillDraft(r.ret)
        /\ Finish(s)
        /\ UNCHANGED ret
  /\ UNCHANGED <<period, active, streak>>

(* Mutants: a return need not be rejected to be revised; a live revision   *)
(* is reclaimed as if it had been deleted.                                 *)
MayReviseAnything(k) == Live(k) /\ active[k[1]] /\ period[k[2]].status = "OPEN"
MayRevise(k) ==
  /\ Live(k) /\ ret[k].status = "REJECTED"
  /\ active[k[1]] /\ period[k[2]].status = "OPEN"

ReclaimableIfAny(k) == Exists(k)
Reclaimable(k)      == ret[k].deleted

(* revise as far as its first write.  A live revision is resumed or        *)
(* refused, which changes nothing; a deleted one is reclaimed.             *)
Revise(s, k) ==
  /\ k[3] < MaxVersion
  /\ MayRevise(k)
  /\ \/ /\ ~Exists(Later(k))
        /\ Begin(s, [pc |-> "createRevision", ret |-> Later(k), answers |-> ret[k].answers])
     \/ /\ Reclaimable(Later(k))
        /\ Begin(s, [pc |-> "reviveRevision", ret |-> Later(k)])
  /\ UNCHANGED <<ret, period, active, streak>>

CreateRevision(s) ==
  /\ At(s, "createRevision")
  /\ ret' = IF Exists(req[s].ret) THEN ret ELSE [ret EXCEPT ![req[s].ret] = Draft(req[s].answers)]
  /\ Finish(s)
  /\ UNCHANGED <<period, active, streak>>

(* By id, and whatever the row has become: only values, deletedAt and      *)
(* status are written.                                                     *)
ReviveRevision(s) ==
  /\ At(s, "reviveRevision")
  /\ EditRow(req[s].ret, [Cleared(ret[req[s].ret]) EXCEPT !.status = "DRAFT"])
  /\ Finish(s)
  /\ UNCHANGED <<period, active, streak>>

Remove(s, k) ==
  /\ MayEdit(k)
  /\ ~period[k[2]].deleted
  /\ Begin(s, [pc |-> "deleteDraft", ret |-> k])
  /\ UNCHANGED <<ret, period, active, streak>>

DeleteDraft(s) ==
  /\ At(s, "deleteDraft")
  /\ EditRow(req[s].ret, [ret[req[s].ret] EXCEPT !.deleted = TRUE])
  /\ Finish(s)
  /\ UNCHANGED <<period, active, streak>>

-----------------------------------------------------------------------------
(* The reviewers.  An administrator may give an account another reviewer   *)
(* role at any time and the role is read on every request, so a request    *)
(* finds its caller in any of the three.                                   *)

(* Mutants: any reviewer may act at any stage; whatever was filed is taken *)
(* to be in review; only the previous reviewer is compared with the        *)
(* caller.                                                                 *)
AwaitingAnyone(k, stage) == Live(k) /\ InReview(k)
AwaitingFiled(k, stage)  == Live(k) /\ Filed(k)
Awaiting(k, stage)       == Live(k) /\ InReview(k) /\ ret[k].stage = stage

ReviewedLast(u, k) == ret[k].trail # <<>> /\ ret[k].trail[Len(ret[k].trail)].actor = u
Reviewed(u, k)     == \E i \in DOMAIN ret[k].trail : ret[k].trail[i].actor = u

Decide(s, u, stage, k, decision) ==
  /\ Awaiting(k, stage)
  /\ ~Reviewed(u, k)
  /\ Begin(s, [pc |-> "recordStep", ret |-> k, stage |-> stage, decision |-> decision,
               actor |-> u, late |-> ret[k].late])
  /\ UNCHANGED <<ret, period, active, streak>>

RecordStep(s) ==
  LET r == req[s] IN
  /\ At(s, "recordStep")
  /\ EditRow(r.ret, [ret[r.ret] EXCEPT !.trail =
       Append(@, [stage |-> r.stage, decision |-> r.decision, actor |-> r.actor])])
  /\ Continue(s, [r EXCEPT !.pc = "applyDecision"])
  /\ UNCHANGED <<period, active, streak>>

Reject(s) ==
  LET r == req[s] IN
  /\ At(s, "applyDecision") /\ r.decision = "REJECT"
  /\ EditRow(r.ret, [ret[r.ret] EXCEPT !.status = "REJECTED", !.stage = "none"])
  /\ Continue(s, [pc |-> "resetStreak", entity |-> r.ret[1]])
  /\ UNCHANGED <<period, active, streak>>

Advance(s) ==
  LET r == req[s] IN
  /\ At(s, "applyDecision") /\ r.decision = "APPROVE" /\ r.stage # "APPROVER"
  /\ EditRow(r.ret, [ret[r.ret] EXCEPT !.status = "UNDER_REVIEW", !.stage = NextStage[r.stage]])
  /\ Finish(s)
  /\ UNCHANGED <<period, active, streak>>

(* Mutant: a late return extends the streak too.                           *)
NeverLate(r)  == FALSE
LateReturn(r) == r.late

SignOff(s) ==
  LET r == req[s] IN
  /\ At(s, "applyDecision") /\ r.decision = "APPROVE" /\ r.stage = "APPROVER"
  /\ EditRow(r.ret, [ret[r.ret] EXCEPT !.status = "APPROVED", !.stage = "none", !.locked = TRUE])
  /\ IF LateReturn(r) THEN Finish(s)
     ELSE Continue(s, [pc |-> "incrementStreak", entity |-> r.ret[1]])
  /\ UNCHANGED <<period, active, streak>>

(* Mutant: the streak loses one instead of starting over.                  *)
OneLess(count) == count - 1
Broken(count)  == 0

ResetStreak(s) ==
  /\ At(s, "resetStreak")
  /\ streak' = [streak EXCEPT ![req[s].entity] = Broken(@)]
  /\ Finish(s)
  /\ UNCHANGED <<ret, period, active>>

IncrementStreak(s) ==
  /\ At(s, "incrementStreak")
  /\ streak' = [streak EXCEPT ![req[s].entity] = @ + 1]
  /\ Finish(s)
  /\ UNCHANGED <<ret, period, active>>

-----------------------------------------------------------------------------
(* The Authority.                                                          *)

OpenPeriod(p) ==
  /\ ~period[p].deleted
  /\ period' = [period EXCEPT ![p].status = "OPEN"]
  /\ UNCHANGED <<ret, active, streak, req>>

ClosePeriod(p) ==
  /\ ~period[p].deleted
  /\ period' = [period EXCEPT ![p].status = "CLOSED"]
  /\ UNCHANGED <<ret, active, streak, req>>

(* Mutant: only returns that were filed count.                             *)
FiledIn(p)  == {k \in Returns : k[2] = p /\ Live(k) /\ Filed(k)}
LiveIn(p)   == {k \in Returns : k[2] = p /\ Live(k)}

RemovePeriod(s, p) ==
  /\ ~period[p].deleted
  /\ LiveIn(p) = {}
  /\ Begin(s, [pc |-> "deletePeriod", period |-> p])
  /\ UNCHANGED <<ret, period, active, streak>>

DeletePeriod(s) ==
  /\ At(s, "deletePeriod")
  /\ period' = [period EXCEPT ![req[s].period].deleted = TRUE]
  /\ Finish(s)
  /\ UNCHANGED <<ret, active, streak>>

SetStatus(e, isActive) ==
  /\ active' = [active EXCEPT ![e] = isActive]
  /\ UNCHANGED <<ret, period, streak, req>>

ChangeLicence(e) ==
  /\ streak' = [streak EXCEPT ![e] = 0]
  /\ UNCHANGED <<ret, period, active, req>>

-----------------------------------------------------------------------------
OperatorStep(s) ==
  \/ \E e \in Entities, p \in Periods : OpenDraft(s, e, p)
  \/ \E k \in Returns : Submit(s, k) \/ Revise(s, k) \/ Remove(s, k)
  \/ \E k \in Returns, content \in Content : SaveValues(s, k, content)
  \/ ReviveDraft(s) \/ CreateDraft(s) \/ WriteValues(s) \/ FileReturn(s)
  \/ CreateRevision(s) \/ ReviveRevision(s) \/ DeleteDraft(s)

ReviewStep(s) ==
  \/ \E u \in Reviewers, stage \in Stages, k \in Returns, decision \in Decisions :
       Decide(s, u, stage, k, decision)
  \/ RecordStep(s) \/ Reject(s) \/ Advance(s) \/ SignOff(s)
  \/ ResetStreak(s) \/ IncrementStreak(s)

AuthorityStep ==
  \/ \E p \in Periods : OpenPeriod(p) \/ ClosePeriod(p)
  \/ \E s \in Slots : (\E p \in Periods : RemovePeriod(s, p)) \/ DeletePeriod(s)
  \/ \E e \in Entities : ChangeLicence(e) \/ (\E b \in BOOLEAN : SetStatus(e, b))

Next ==
  \/ \E s \in Slots : OperatorStep(s) \/ ReviewStep(s) \/ Abandon(s)
  \/ AuthorityStep

Spec == Init /\ [][Next]_vars

-----------------------------------------------------------------------------
(* Properties that hold however requests interleave.                       *)

OnRecord(row, stage, decision) ==
  \E i \in DOMAIN row.trail : row.trail[i].stage = stage /\ row.trail[i].decision = decision
SentBack(row) == \E stage \in Stages : OnRecord(row, stage, "REJECT")

(* What the review history must hold before a return may wait at a stage:  *)
(* the Checker can only be skipped by a filing that was fast-tracked.      *)
MayReach(row, stage) ==
  /\ stage \in {"VERIFIER", "APPROVER"} => OnRecord(row, "CHECKER", "APPROVE") \/ row.fast
  /\ stage = "APPROVER" => OnRecord(row, "VERIFIER", "APPROVE")

TrailBacked(row) ==
  /\ row.stage # "none" => MayReach(row, row.stage)
  /\ row.locked \/ row.status = "APPROVED"
       => MayReach(row, "APPROVER") /\ OnRecord(row, "APPROVER", "APPROVE")
  /\ row.status = "REJECTED" => SentBack(row)

(* A return waits at a stage, or is locked, only with the approval of      *)
(* every earlier stage on record, and is rejected only with a rejection on *)
(* record, whatever two reviewers do to it at once (decide creates the     *)
(* review step before it moves the return).                                *)
ReviewTrail == \A k \in Returns : TrailBacked(ret[k])

(* A version beyond the first exists only where a reviewer rejected the    *)
(* one it supersedes (revise).                                             *)
VersionChain ==
  \A k \in Returns : Exists(k) /\ k[3] > 1 => SentBack(ret[Prev(k)])

Backed(r, rows) ==
  /\ r.pc \in {"reviveDraft", "reviveRevision", "deleteDraft", "writeValues",
               "file", "recordStep", "applyDecision"} => rows[r.ret].status # "ABSENT"
  /\ r.pc \in {"recordStep", "applyDecision"} => MayReach(rows[r.ret], r.stage)
  /\ r.pc = "applyDecision" => OnRecord(rows[r.ret], r.stage, r.decision)
  /\ r.pc = "createDraft" => r.ret[3] = 1
  /\ r.pc \in {"createRevision", "reviveRevision"}
       => r.ret[3] > 1 /\ SentBack(rows[Prev(r.ret)])

(* What a handler read and relies on is still on record when it writes:    *)
(* the approvals before the stage it decides for, its own review step, the *)
(* rejection it revises after.                                             *)
RequestsBacked == \A s \in Slots : Backed(req[s], ret)

(* Two submits of one draft cannot both win: once a return has left DRAFT  *)
(* no step replaces its signature or its lateness (submit's updateMany).   *)
FiledOnce ==
  [][\A k \in Returns :
       Filed(k) /\ ret[k].status # "DRAFT"
         => ret'[k].signed = ret[k].signed /\ ret'[k].late = ret[k].late]_vars

(* The requests that can undo a filing: those that read a draft and write  *)
(* by id alone, and the reclaiming of a deleted revision.                  *)
Editing(k) ==
  \E s \in Slots : /\ req[s].pc \in {"writeValues", "deleteDraft", "reviveDraft", "reviveRevision"}
                   /\ req[s].ret = k
Deciding(k) ==
  \E s \in Slots : req[s].pc \in {"recordStep", "applyDecision"} /\ req[s].ret = k

Sealed(k) == Live(k) /\ Filed(k) /\ ret[k].status # "DRAFT" /\ ~Editing(k)
Closed(k) == Sealed(k) /\ ret[k].status = "APPROVED" /\ ~Deciding(k)

(* A return that was filed stays filed for good, with the same answers and *)
(* signature, neither deleted nor reopened, once the edits that had read   *)
(* it as a draft have ended: nothing that starts later can reach it, not   *)
(* while it is decided on by two at once, rejected and revised, or its     *)
(* period is offered again (the guards of saveValues, submit, remove,      *)
(* revise and getOrCreateDraft together).                                  *)
FiledStaysFiled ==
  [][\A k \in Returns :
       Sealed(k) => /\ Sealed(k)'
                    /\ ret'[k].answers = ret[k].answers /\ ret'[k].signed = ret[k].signed
                    /\ ret'[k].late = ret[k].late]_vars

(* An approved return is never written again, once the decisions and edits *)
(* that were under way have ended, however often somebody tries (decide's  *)
(* status and stage, beside the guards above).                             *)
LockedStaysLocked ==
  [][\A k \in Returns : Closed(k) => Closed(k)' /\ ret'[k] = ret[k]]_vars

Opening(p) ==
  \E s \in Slots : /\ req[s].pc \in {"createDraft", "reviveDraft", "createRevision", "reviveRevision"}
                   /\ req[s].ret[2] = p
Emptied(p) == period[p].deleted /\ LiveIn(p) = {} /\ ~Opening(p)

(* A deleted period that holds no live return never holds one again, once  *)
(* the requests that had found it open have ended: revise looks at the     *)
(* status of the period only, and it has nothing left to revise.           *)
DeletedStaysEmpty == [][\A p \in Periods : Emptied(p) => Emptied(p)']_vars

-----------------------------------------------------------------------------
(* Properties that hold while one request is served at a time (Slots a     *)
(* singleton), steps of one request failing included.                      *)

(* One current return per period: of the live versions, one at most is not *)
(* a rejected one (the unique key and revise's guards).                    *)
OneCurrentReturn ==
  \A e \in Entities, p \in Periods :
    Cardinality({k \in Of(e, p) : Live(k) /\ ret[k].status # "REJECTED"}) <= 1

(* Nobody decides on a return twice, whatever roles the account has had    *)
(* (decide looks through the review steps for its caller).                 *)
SeparationOfDuties ==
  \A k \in Returns : \A i, j \in DOMAIN ret[k].trail :
    i # j => ret[k].trail[i].actor # ret[k].trail[j].actor

(* An approved return is permanently locked: no later step of an operator  *)
(* or a reviewer moves it (decide acts on returns in review only, and no   *)
(* edit or reclaimed revision reaches a locked one).                       *)
LockedIsFinal == \A k \in Returns : ret[k].locked => ret[k].status = "APPROVED"

(* A return that has been submitted is never deleted (remove takes drafts  *)
(* only).                                                                  *)
SubmittedRetained == \A k \in Returns : Filed(k) => ~ret[k].deleted

(* What is filed is what was signed: the values of a submitted return are  *)
(* the ones its signature was taken over, for as long as it exists (submit *)
(* digests the row as it reads it, saveValues takes drafts only).          *)
FiledIsSigned == \A k \in Returns : Filed(k) => ret[k].answers = ret[k].signed

(* A deleted period has no live return stranded in it                      *)
(* (ReportingPeriodsService.remove counts them first).                     *)
NoStrandedReturn ==
  \A k \in Returns : period[k[2]].deleted => ~Live(k)

(* A period startablePeriods offers can be started: the first version's    *)
(* slot is free, or held by a draft that reviveDeletedDraft takes.         *)
OfferedCanStart ==
  \A e \in Entities, p \in Periods :
    (\A k \in Of(e, p) : ~Live(k))
      => ret[<<e, p, 1>>].status \in {"ABSENT", "DRAFT"}

OnTimeApprovals(e) == {k \in Returns : k[1] = e /\ ret[k].status = "APPROVED" /\ ~ret[k].late}

(* The streak never runs ahead of the on-time approvals behind it, so a    *)
(* fast-tracked return has enough of them (submit's fast-track condition   *)
(* and the upserts of decide).                                             *)
FastTrackEarned ==
  \A e \in Entities :
    /\ streak[e] <= PriorStreak[e] + Cardinality(OnTimeApprovals(e))
    /\ \A k \in Returns :
         k[1] = e /\ ret[k].fast
           => PriorStreak[e] + Cardinality(OnTimeApprovals(e) \ {k}) >= FastTrackStreak
=============================================================================
