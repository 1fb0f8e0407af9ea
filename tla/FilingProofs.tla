---------------------------- MODULE FilingProofs ----------------------------
(***************************************************************************)
(* What holds of Filing for any number of operators, periods, versions,    *)
(* reviewers and concurrent requests.                                      *)
(***************************************************************************)
EXTENDS Filing, TLAPS

-----------------------------------------------------------------------------
(* The fields of a request, by the write it is about to make.              *)
LEMMA RequestFields ==
  ASSUME TypeOK, NEW s \in Slots
  PROVE  /\ req[s] \in Requests
         /\ req[s].pc \in {"createDraft", "reviveDraft", "reviveRevision", "deleteDraft"}
              => req[s] = [pc |-> req[s].pc, ret |-> req[s].ret] /\ req[s].ret \in Returns
         /\ req[s].pc \in {"writeValues", "createRevision"}
              => req[s].ret \in Returns /\ req[s].answers \in Content
         /\ req[s].pc = "file"
              => /\ req[s].ret \in Returns /\ req[s].signed \in Content
                 /\ req[s].late \in BOOLEAN /\ req[s].fast \in BOOLEAN
         /\ req[s].pc \in {"recordStep", "applyDecision"}
              => /\ req[s] \in [pc : {"recordStep", "applyDecision"}, ret : Returns,
                                stage : Stages, decision : Decisions,
                                actor : Reviewers, late : BOOLEAN]
                 /\ req[s].ret \in Returns /\ req[s].stage \in Stages
                 /\ req[s].decision \in Decisions /\ req[s].actor \in Reviewers
         /\ req[s].pc \in {"resetStreak", "incrementStreak"} => req[s].entity \in Entities
         /\ req[s].pc = "deletePeriod" => req[s].period \in Periods
  BY DEF TypeOK, Requests, Idle

LEMMA AbsentRow == Absent \in Rows /\ \A content \in Content : Draft(content) \in Rows
<1>1. <<>> \in Seq(Steps) /\ NoAnswers \in Content
  BY DEF Content
<1>2. Absent \in Rows
  BY <1>1 DEF Absent, Rows, Stages
<1>3. ASSUME NEW content \in Content
      PROVE  Draft(content) \in Rows
  BY <1>2 DEF Draft, Rows, Statuses
<1> QED BY <1>2, <1>3

(* The edits the handlers make to a row give a row.                        *)
LEMMA RowEdits ==
  ASSUME NEW row \in Rows
  PROVE  /\ Cleared(row) \in Rows
         /\ [Cleared(row) EXCEPT !.status = "DRAFT"] \in Rows
         /\ [row EXCEPT !.deleted = TRUE] \in Rows
         /\ \A content \in Content : [row EXCEPT !.answers = content] \in Rows
<1>1. NoAnswers \in Content
  BY DEF Content
<1>2. Cleared(row) \in Rows
  BY <1>1 DEF Cleared, Rows
<1>3. [Cleared(row) EXCEPT !.status = "DRAFT"] \in Rows
  BY <1>2 DEF Rows, Statuses
<1>4. [row EXCEPT !.deleted = TRUE] \in Rows
  BY DEF Rows
<1>5. ASSUME NEW content \in Content
      PROVE  [row EXCEPT !.answers = content] \in Rows
  BY DEF Rows
<1> QED BY <1>2, <1>3, <1>4, <1>5

LEMMA FirstVersion == \A e \in Entities, p \in Periods : <<e, p, 1>> \in Returns
  BY MaxVersionAssumption DEF Returns, Versions

LEMMA LaterVersion ==
  ASSUME NEW k \in Returns, k[3] < MaxVersion
  PROVE  Later(k) \in Returns /\ Prev(Later(k)) = k
  BY MaxVersionAssumption DEF Returns, Versions, Later, Prev

(* Replacing one row by a row, and one request by a request, keeps types.  *)
LEMMA EditRowType ==
  ASSUME TypeOK, NEW k \in Returns, NEW row \in Rows, EditRow(k, row)
  PROVE  ret' \in [Returns -> Rows]
  BY DEF TypeOK, EditRow

LEMMA ContinueType ==
  ASSUME TypeOK, NEW s \in Slots, NEW r \in Requests, Continue(s, r)
  PROVE  req' \in [Slots -> Requests]
  BY DEF TypeOK, Continue

LEMMA BeginType ==
  ASSUME TypeOK, NEW s \in Slots, NEW r \in Requests, Begin(s, r)
  PROVE  req' \in [Slots -> Requests]
  BY DEF TypeOK, Begin

LEMMA FinishType ==
  ASSUME TypeOK, NEW s \in Slots, Finish(s)
  PROVE  req' \in [Slots -> Requests]
  BY DEF TypeOK, Finish, Continue, Requests

-----------------------------------------------------------------------------
LEMMA OperatorType ==
  ASSUME TypeOK, NEW s \in Slots, OperatorStep(s)
  PROVE  TypeOK'
<1>1. ASSUME NEW e \in Entities, NEW p \in Periods, OpenDraft(s, e, p)
      PROVE  TypeOK'
  <2> DEFINE k == <<e, p, 1>>
             next == IF ret[k].deleted /\ ret[k].status = "DRAFT" THEN "reviveDraft" ELSE "createDraft"
  <2>1. [pc |-> next, ret |-> k] \in Requests
    BY FirstVersion DEF Requests
  <2>2. req' \in [Slots -> Requests]
    BY <1>1, <2>1, BeginType DEF OpenDraft
  <2> QED BY <1>1, <2>2 DEF OpenDraft, TypeOK
<1>2. ASSUME NEW k \in Returns, Submit(s, k)
      PROVE  TypeOK'
  <2>1. ret[k].answers \in Content
    BY DEF TypeOK, Rows
  <2>2. PICK late \in BOOLEAN, changed \in BOOLEAN :
          Begin(s, [pc |-> "file", ret |-> k, signed |-> ret[k].answers, late |-> late,
                    fast |-> ~late /\ ~changed /\ streak[k[1]] >= FastTrackStreak,
                    changed |-> changed])
    BY <1>2 DEF Submit
  <2>3. [pc |-> "file", ret |-> k, signed |-> ret[k].answers, late |-> late,
         fast |-> ~late /\ ~changed /\ streak[k[1]] >= FastTrackStreak,
         changed |-> changed] \in Requests
    BY <2>1 DEF Requests
  <2>4. req' \in [Slots -> Requests]
    BY <2>2, <2>3, BeginType
  <2> QED BY <1>2, <2>4 DEF Submit, TypeOK
<1>3. ASSUME NEW k \in Returns, Revise(s, k)
      PROVE  TypeOK'
  <2>1. Later(k) \in Returns
    BY <1>3, LaterVersion DEF Revise
  <2>2. ret[k].answers \in Content
    BY DEF TypeOK, Rows
  <2>3. /\ [pc |-> "createRevision", ret |-> Later(k), answers |-> ret[k].answers] \in Requests
        /\ [pc |-> "reviveRevision", ret |-> Later(k)] \in Requests
    BY <2>1, <2>2 DEF Requests
  <2>4. req' \in [Slots -> Requests]
    BY <1>3, <2>3, BeginType DEF Revise
  <2> QED BY <1>3, <2>4 DEF Revise, TypeOK
<1>4. ASSUME NEW k \in Returns, Remove(s, k)
      PROVE  TypeOK'
  <2>1. [pc |-> "deleteDraft", ret |-> k] \in Requests
    BY DEF Requests
  <2>2. req' \in [Slots -> Requests]
    BY <1>4, <2>1, BeginType DEF Remove
  <2> QED BY <1>4, <2>2 DEF Remove, TypeOK
<1>5. ASSUME NEW k \in Returns, NEW content \in Content, SaveValues(s, k, content)
      PROVE  TypeOK'
  <2>1. [pc |-> "writeValues", ret |-> k, answers |-> content] \in Requests
    BY DEF Requests
  <2>2. req' \in [Slots -> Requests]
    BY <1>5, <2>1, BeginType DEF SaveValues
  <2> QED BY <1>5, <2>2 DEF SaveValues, TypeOK
<1>6. CASE ReviveDraft(s)
  <2>1. req[s].ret \in Returns
    BY <1>6, RequestFields DEF ReviveDraft, At
  <2>2. Cleared(ret[req[s].ret]) \in Rows
    BY <2>1, RowEdits DEF TypeOK
  <2>3. ret' \in [Returns -> Rows]
    BY <1>6, <2>1, <2>2, EditRowType DEF ReviveDraft
  <2> QED BY <1>6, <2>3, FinishType DEF ReviveDraft, TypeOK
<1>7. CASE CreateDraft(s)
  <2>1. req[s].ret \in Returns
    BY <1>7, RequestFields DEF CreateDraft, At
  <2>2. ret' \in [Returns -> Rows]
    BY <1>7, <2>1, AbsentRow DEF CreateDraft, TypeOK, Content
  <2> QED BY <1>7, <2>2, FinishType DEF CreateDraft, TypeOK
<1>8. CASE WriteValues(s)
  <2>1. req[s].ret \in Returns /\ req[s].answers \in Content
    BY <1>8, RequestFields DEF WriteValues, At
  <2>2. [ret[req[s].ret] EXCEPT !.answers = req[s].answers] \in Rows
    BY <2>1, RowEdits DEF TypeOK
  <2>3. ret' \in [Returns -> Rows]
    BY <1>8, <2>1, <2>2, EditRowType DEF WriteValues
  <2> QED BY <1>8, <2>3, FinishType DEF WriteValues, TypeOK
<1>9. CASE FileReturn(s)
  <2>1. /\ req[s].ret \in Returns /\ req[s].signed \in Content
        /\ req[s].late \in BOOLEAN /\ req[s].fast \in BOOLEAN
    BY <1>9, RequestFields DEF FileReturn, At
  <2>2. ret[req[s].ret] \in Rows
    BY <2>1 DEF TypeOK
  <2>3. ret' \in [Returns -> Rows]
    <3> DEFINE row == ret[req[s].ret]
               filed == [row EXCEPT !.status = "SUBMITTED",
                                    !.stage  = IF req[s].fast THEN "VERIFIER" ELSE "CHECKER",
                                    !.late   = req[s].late,
                                    !.fast   = @ \/ req[s].fast,
                                    !.signed = req[s].signed]
    <3>1. filed \in Rows
      BY <2>1, <2>2 DEF Rows, Statuses, Stages
    <3>2. EditRow(req[s].ret, filed) \/ UNCHANGED ret
      BY <1>9 DEF FileReturn
    <3> HIDE DEF filed
    <3> QED BY <2>1, <3>1, <3>2, EditRowType DEF TypeOK
  <2>4. req' \in [Slots -> Requests]
    <3>1. req[s].ret[1] \in Entities
      BY <2>1 DEF Returns
    <3>2. [pc |-> "resetStreak", entity |-> req[s].ret[1]] \in Requests
      BY <3>1 DEF Requests
    <3>3. Finish(s) \/ Continue(s, [pc |-> "resetStreak", entity |-> req[s].ret[1]])
      BY <1>9 DEF FileReturn
    <3> QED BY <3>2, <3>3, FinishType, ContinueType
  <2> QED BY <1>9, <2>3, <2>4 DEF FileReturn, TypeOK
<1>10. CASE CreateRevision(s)
  <2>1. req[s].ret \in Returns /\ req[s].answers \in Content
    BY <1>10, RequestFields DEF CreateRevision, At
  <2>2. ret' \in [Returns -> Rows]
    BY <1>10, <2>1, AbsentRow DEF CreateRevision, TypeOK
  <2> QED BY <1>10, <2>2, FinishType DEF CreateRevision, TypeOK
<1>11. CASE ReviveRevision(s)
  <2>1. req[s].ret \in Returns
    BY <1>11, RequestFields DEF ReviveRevision, At
  <2>2. [Cleared(ret[req[s].ret]) EXCEPT !.status = "DRAFT"] \in Rows
    BY <2>1, RowEdits DEF TypeOK
  <2>3. ret' \in [Returns -> Rows]
    BY <1>11, <2>1, <2>2, EditRowType DEF ReviveRevision
  <2> QED BY <1>11, <2>3, FinishType DEF ReviveRevision, TypeOK
<1>12. CASE DeleteDraft(s)
  <2>1. req[s].ret \in Returns
    BY <1>12, RequestFields DEF DeleteDraft, At
  <2>2. [ret[req[s].ret] EXCEPT !.deleted = TRUE] \in Rows
    BY <2>1, RowEdits DEF TypeOK
  <2>3. ret' \in [Returns -> Rows]
    BY <1>12, <2>1, <2>2, EditRowType DEF DeleteDraft
  <2> QED BY <1>12, <2>3, FinishType DEF DeleteDraft, TypeOK
<1> QED BY <1>1, <1>2, <1>3, <1>4, <1>5, <1>6, <1>7, <1>8, <1>9, <1>10, <1>11, <1>12
        DEF OperatorStep

LEMMA ReviewType ==
  ASSUME TypeOK, NEW s \in Slots, ReviewStep(s)
  PROVE  TypeOK'
<1>1. ASSUME NEW u \in Reviewers, NEW stage \in Stages, NEW k \in Returns,
             NEW decision \in Decisions, Decide(s, u, stage, k, decision)
      PROVE  TypeOK'
  <2>1. ret[k].late \in BOOLEAN
    BY DEF TypeOK, Rows
  <2>2. [pc |-> "recordStep", ret |-> k, stage |-> stage, decision |-> decision,
         actor |-> u, late |-> ret[k].late] \in Requests
    BY <2>1 DEF Requests
  <2>3. req' \in [Slots -> Requests]
    BY <1>1, <2>2, BeginType DEF Decide
  <2> QED BY <1>1, <2>3 DEF Decide, TypeOK
<1>2. CASE RecordStep(s)
  <2> DEFINE r == req[s]
             step == [stage |-> r.stage, decision |-> r.decision, actor |-> r.actor]
  <2>1. /\ r.ret \in Returns /\ step \in Steps
        /\ r \in [pc : {"recordStep", "applyDecision"}, ret : Returns, stage : Stages,
                  decision : Decisions, actor : Reviewers, late : BOOLEAN]
    BY <1>2, RequestFields DEF RecordStep, At, Steps
  <2>2. [ret[r.ret] EXCEPT !.trail = Append(@, step)] \in Rows
    <3>1. ret[r.ret] \in Rows
      BY <2>1 DEF TypeOK
    <3>2. Append(ret[r.ret].trail, step) \in Seq(Steps)
      BY <2>1, <3>1 DEF Rows
    <3> QED BY <3>1, <3>2 DEF Rows
  <2>3. [r EXCEPT !.pc = "applyDecision"] \in Requests
    BY <2>1 DEF Requests
  <2>4. ret' \in [Returns -> Rows]
    BY <1>2, <2>1, <2>2, EditRowType DEF RecordStep
  <2>5. req' \in [Slots -> Requests]
    BY <1>2, <2>3, ContinueType DEF RecordStep
  <2> QED BY <1>2, <2>4, <2>5 DEF RecordStep, TypeOK
<1>3. CASE Reject(s) \/ Advance(s) \/ SignOff(s)
  <2> DEFINE r == req[s]
  <2>1. r.ret \in Returns /\ r.stage \in Stages /\ ret[r.ret] \in Rows /\ r.ret[1] \in Entities
    BY <1>3, RequestFields DEF Reject, Advance, SignOff, At, TypeOK, Returns
  <2>2. /\ [pc |-> "resetStreak", entity |-> r.ret[1]] \in Requests
        /\ [pc |-> "incrementStreak", entity |-> r.ret[1]] \in Requests
    BY <2>1 DEF Requests
  <2>3. req' \in [Slots -> Requests]
    BY <1>3, <2>2, FinishType, ContinueType DEF Reject, Advance, SignOff
  <2>4. ret' \in [Returns -> Rows]
    <3>1. CASE Reject(s)
      <4>1. [ret[r.ret] EXCEPT !.status = "REJECTED", !.stage = "none"] \in Rows
        BY <2>1 DEF Rows, Statuses
      <4> QED BY <2>1, <3>1, <4>1, EditRowType DEF Reject
    <3>2. CASE Advance(s)
      <4>1. NextStage[r.stage] \in Stages
        BY <2>1, <3>2 DEF Advance, NextStage, Stages
      <4>2. [ret[r.ret] EXCEPT !.status = "UNDER_REVIEW", !.stage = NextStage[r.stage]] \in Rows
        BY <2>1, <4>1 DEF Rows, Statuses
      <4> QED BY <2>1, <3>2, <4>2, EditRowType DEF Advance
    <3>3. CASE SignOff(s)
      <4>1. [ret[r.ret] EXCEPT !.status = "APPROVED", !.stage = "none", !.locked = TRUE] \in Rows
        BY <2>1 DEF Rows, Statuses
      <4> QED BY <2>1, <3>3, <4>1, EditRowType DEF SignOff
    <3> QED BY <1>3, <3>1, <3>2, <3>3
  <2> QED BY <1>3, <2>3, <2>4 DEF Reject, Advance, SignOff, TypeOK
<1>4. CASE ResetStreak(s) \/ IncrementStreak(s)
  <2>1. req[s].entity \in Entities
    BY <1>4, RequestFields DEF ResetStreak, IncrementStreak, At
  <2>2. streak' \in [Entities -> Nat]
    BY <1>4, <2>1 DEF ResetStreak, IncrementStreak, Broken, TypeOK
  <2>3. req' \in [Slots -> Requests]
    BY <1>4, FinishType DEF ResetStreak, IncrementStreak
  <2> QED BY <1>4, <2>2, <2>3 DEF ResetStreak, IncrementStreak, TypeOK
<1> QED BY <1>1, <1>2, <1>3, <1>4 DEF ReviewStep

LEMMA AuthorityType ==
  ASSUME TypeOK, AuthorityStep
  PROVE  TypeOK'
<1>1. ASSUME NEW p \in Periods, OpenPeriod(p) \/ ClosePeriod(p)
      PROVE  TypeOK'
  <2>1. period' \in [Periods -> PeriodRows]
    BY <1>1 DEF OpenPeriod, ClosePeriod, TypeOK, PeriodRows
  <2> QED BY <1>1, <2>1 DEF OpenPeriod, ClosePeriod, TypeOK
<1>2. ASSUME NEW s \in Slots, NEW p \in Periods, RemovePeriod(s, p)
      PROVE  TypeOK'
  <2>1. [pc |-> "deletePeriod", period |-> p] \in Requests
    BY DEF Requests
  <2>2. req' \in [Slots -> Requests]
    BY <1>2, <2>1, BeginType DEF RemovePeriod
  <2> QED BY <1>2, <2>2 DEF RemovePeriod, TypeOK
<1>3. ASSUME NEW s \in Slots, DeletePeriod(s)
      PROVE  TypeOK'
  <2>1. req[s].period \in Periods
    BY <1>3, RequestFields DEF DeletePeriod, At
  <2>2. period' \in [Periods -> PeriodRows]
    BY <1>3, <2>1 DEF DeletePeriod, TypeOK, PeriodRows
  <2>3. req' \in [Slots -> Requests]
    BY <1>3, FinishType DEF DeletePeriod
  <2> QED BY <1>3, <2>2, <2>3 DEF DeletePeriod, TypeOK
<1>4. ASSUME NEW e \in Entities, ChangeLicence(e) \/ (\E b \in BOOLEAN : SetStatus(e, b))
      PROVE  TypeOK'
  BY <1>4 DEF ChangeLicence, SetStatus, TypeOK
<1> QED BY <1>1, <1>2, <1>3, <1>4 DEF AuthorityStep

LEMMA InitType == Init => TypeOK
<1> SUFFICES ASSUME Init PROVE TypeOK
  OBVIOUS
<1>1. ret \in [Returns -> Rows]
  BY AbsentRow DEF Init
<1>2. period \in [Periods -> PeriodRows]
  BY DEF Init, PeriodRows
<1>3. active \in [Entities -> BOOLEAN] /\ streak \in [Entities -> Nat]
  BY PriorAssumption DEF Init
<1>4. req \in [Slots -> Requests]
  BY DEF Init, Requests
<1> QED BY <1>1, <1>2, <1>3, <1>4 DEF TypeOK

LEMMA StepType == TypeOK /\ [Next]_vars => TypeOK'
<1> SUFFICES ASSUME TypeOK, [Next]_vars PROVE TypeOK'
  OBVIOUS
<1>1. ASSUME NEW s \in Slots, Abandon(s)
      PROVE  TypeOK'
  BY <1>1, FinishType DEF Abandon, TypeOK
<1>2. CASE UNCHANGED vars
  BY <1>2 DEF vars, TypeOK
<1> QED BY <1>1, <1>2, OperatorType, ReviewType, AuthorityType DEF Next

(* Every table and every request in flight keeps its type.                 *)
THEOREM TypeCorrect == Spec => []TypeOK
  BY InitType, StepType, PTL DEF Spec

-----------------------------------------------------------------------------
(* The review history of a row only grows, and what it backs stays backed. *)

Extends(row, old) ==
  /\ old.status # "ABSENT" => row.status # "ABSENT"
  /\ old.fast => row.fast
  /\ \A i \in DOMAIN old.trail : i \in DOMAIN row.trail /\ row.trail[i] = old.trail[i]

HistoryGrows == \A k \in Returns : Extends(ret'[k], ret[k])

AbsentRowsBlank == \A k \in Returns : ~Exists(k) => ret[k] = Absent

IInv == TypeOK /\ AbsentRowsBlank /\ RequestsBacked /\ ReviewTrail /\ VersionChain

LEMMA RecordKept ==
  ASSUME NEW old, NEW row, Extends(row, old)
  PROVE  /\ \A stage, decision : OnRecord(old, stage, decision) => OnRecord(row, stage, decision)
         /\ SentBack(old) => SentBack(row)
         /\ \A stage : MayReach(old, stage) => MayReach(row, stage)
<1>1. ASSUME NEW stage, NEW decision, OnRecord(old, stage, decision)
      PROVE  OnRecord(row, stage, decision)
  BY <1>1 DEF OnRecord, Extends
<1>2. SentBack(old) => SentBack(row)
  BY <1>1 DEF SentBack
<1>3. ASSUME NEW stage, MayReach(old, stage)
      PROVE  MayReach(row, stage)
  BY <1>1, <1>3 DEF MayReach, Extends
<1> QED BY <1>1, <1>2, <1>3

LEMMA PrevVersion ==
  ASSUME NEW k \in Returns, k[3] > 1
  PROVE  Prev(k) \in Returns
  BY MaxVersionAssumption DEF Returns, Versions, Prev

(* What a request is backed by is not lost while others write.             *)
LEMMA BackingKept ==
  ASSUME TypeOK, HistoryGrows, NEW r \in Requests, Backed(r, ret)
  PROVE  Backed(r, ret')
<1>1. ASSUME r.pc \in {"reviveDraft", "reviveRevision", "deleteDraft", "writeValues",
                      "file", "recordStep", "applyDecision"}
      PROVE  r.ret \in Returns /\ ret'[r.ret].status # "ABSENT"
  <2>1. r.ret \in Returns
    BY <1>1 DEF Requests, Idle
  <2> QED BY <1>1, <2>1 DEF Backed, HistoryGrows, Extends
<1>2. ASSUME r.pc \in {"recordStep", "applyDecision"}
      PROVE  MayReach(ret'[r.ret], r.stage)
  <2>1. Extends(ret'[r.ret], ret[r.ret])
    BY <1>1, <1>2 DEF HistoryGrows
  <2> QED BY <1>2, <2>1, RecordKept DEF Backed
<1>3. ASSUME r.pc = "applyDecision"
      PROVE  OnRecord(ret'[r.ret], r.stage, r.decision)
  <2>1. Extends(ret'[r.ret], ret[r.ret])
    BY <1>1, <1>3 DEF HistoryGrows
  <2> QED BY <1>3, <2>1, RecordKept DEF Backed
<1>4. ASSUME r.pc \in {"createRevision", "reviveRevision"}
      PROVE  r.ret[3] > 1 /\ SentBack(ret'[Prev(r.ret)])
  <2>1. r.ret \in Returns /\ r.ret[3] > 1
    BY <1>4 DEF Requests, Idle, Backed
  <2>2. Extends(ret'[Prev(r.ret)], ret[Prev(r.ret)])
    BY <2>1, PrevVersion DEF HistoryGrows
  <2> QED BY <1>4, <2>1, <2>2, RecordKept DEF Backed
<1> QED BY <1>1, <1>2, <1>3, <1>4 DEF Backed

(* A step that leaves the table alone and gives one slot a backed request  *)
(* keeps the invariant.                                                    *)
LEMMA ReadStep ==
  ASSUME IInv, TypeOK', UNCHANGED ret,
         NEW s \in Slots, NEW r, req' = [req EXCEPT ![s] = r], Backed(r, ret)
  PROVE  IInv' /\ HistoryGrows
<1>1. RequestsBacked'
  BY DEF IInv, TypeOK, RequestsBacked
<1>2. AbsentRowsBlank' /\ ReviewTrail' /\ VersionChain'
  BY DEF IInv, AbsentRowsBlank, ReviewTrail, VersionChain, Exists
<1>3. HistoryGrows
  BY DEF HistoryGrows, Extends
<1> QED BY <1>1, <1>2, <1>3 DEF IInv

(* A step that writes one row, keeping its history, and moves one request  *)
(* on to a backed one keeps the invariant.                                 *)
LEMMA WriteStep ==
  ASSUME IInv, TypeOK',
         NEW k \in Returns, NEW row, EditRow(k, row),
         Extends(row, ret[k]), TrailBacked(row), row.status # "ABSENT",
         Exists(k) \/ (k[3] > 1 => SentBack(ret[Prev(k)])),
         NEW s \in Slots, NEW r, req' = [req EXCEPT ![s] = r], Backed(r, ret')
  PROVE  IInv' /\ HistoryGrows
<1>1. \A j \in Returns : ret'[j] = IF j = k THEN row ELSE ret[j]
  BY DEF EditRow, IInv, TypeOK
<1>2. HistoryGrows
  BY <1>1 DEF HistoryGrows, Extends
<1>3. AbsentRowsBlank'
  BY <1>1 DEF IInv, AbsentRowsBlank, Exists
<1>4. ReviewTrail'
  BY <1>1 DEF IInv, ReviewTrail
<1>5. VersionChain'
  <2>1. ASSUME NEW j \in Returns, Exists(j)', j[3] > 1
        PROVE  SentBack(ret'[Prev(j)])
    <3>1. Prev(j) \in Returns
      BY <2>1, PrevVersion
    <3>2. SentBack(ret[Prev(j)])
      BY <1>1, <2>1 DEF IInv, VersionChain, Exists
    <3> QED BY <1>2, <3>1, <3>2, RecordKept DEF HistoryGrows
  <2> QED BY <2>1 DEF VersionChain, Exists
<1>6. RequestsBacked'
  <2>1. \A t \in Slots : req[t] \in Requests /\ Backed(req[t], ret)
    BY DEF IInv, TypeOK, RequestsBacked
  <2>2. \A t \in Slots : Backed(req[t], ret')
    BY <1>2, <2>1, BackingKept DEF IInv
  <2>3. \A t \in Slots : req'[t] = IF t = s THEN r ELSE req[t]
    BY DEF IInv, TypeOK
  <2> QED BY <2>2, <2>3 DEF RequestsBacked
<1> QED BY <1>2, <1>3, <1>4, <1>5, <1>6 DEF IInv

LEMMA IdleBacked ==
  ASSUME NEW rows
  PROVE  /\ Backed(Idle, rows)
         /\ \A e : /\ Backed([pc |-> "resetStreak", entity |-> e], rows)
                   /\ Backed([pc |-> "incrementStreak", entity |-> e], rows)
         /\ \A p : Backed([pc |-> "deletePeriod", period |-> p], rows)
  BY DEF Backed, Idle

(* A row whose review columns and history do not change stays backed.      *)
LEMMA SameReview ==
  ASSUME NEW old, NEW row, TrailBacked(old), Extends(row, old),
         row.stage = old.stage, row.locked = old.locked,
         row.status = old.status \/ row.status = "DRAFT"
  PROVE  TrailBacked(row)
<1>1. row.stage # "none" => MayReach(row, row.stage)
  BY RecordKept DEF TrailBacked
<1>2. row.locked \/ row.status = "APPROVED"
       => MayReach(row, "APPROVER") /\ OnRecord(row, "APPROVER", "APPROVE")
  BY RecordKept DEF TrailBacked
<1>3. row.status = "REJECTED" => SentBack(row)
  BY RecordKept DEF TrailBacked
<1> QED BY <1>1, <1>2, <1>3 DEF TrailBacked

(* Clearing a row, as a revival does, leaves its review columns alone.     *)
LEMMA ClearedKeeps ==
  ASSUME NEW old \in Rows, NEW row,
         row = Cleared(old) \/ row = [Cleared(old) EXCEPT !.status = "DRAFT"]
  PROVE  /\ row.trail = old.trail /\ row.fast = old.fast
         /\ row.stage = old.stage /\ row.locked = old.locked
         /\ row.status = old.status \/ row.status = "DRAFT"
  BY DEF Cleared, Rows

LEMMA NewDraft ==
  ASSUME NEW content
  PROVE  /\ TrailBacked(Draft(content)) /\ Draft(content).status = "DRAFT"
         /\ Extends(Draft(content), Absent)
  BY DEF Draft, Absent, TrailBacked, Extends

-----------------------------------------------------------------------------
(* The steps of the operator's requests.                                   *)

LEMMA OperatorReads ==
  ASSUME IInv, TypeOK', NEW s \in Slots,
         \/ \E e \in Entities, p \in Periods : OpenDraft(s, e, p)
         \/ \E k \in Returns : Submit(s, k) \/ Revise(s, k) \/ Remove(s, k)
         \/ \E k \in Returns, content \in Content : SaveValues(s, k, content)
  PROVE  IInv' /\ HistoryGrows
<1>1. ASSUME NEW e \in Entities, NEW p \in Periods, OpenDraft(s, e, p)
      PROVE  IInv' /\ HistoryGrows
  <2> DEFINE k == <<e, p, 1>>
             next == IF ret[k].deleted /\ ret[k].status = "DRAFT" THEN "reviveDraft" ELSE "createDraft"
             r == [pc |-> next, ret |-> k]
  <2>1. Backed(r, ret)
    BY DEF Backed
  <2>2. req' = [req EXCEPT ![s] = r] /\ UNCHANGED ret
    BY <1>1 DEF OpenDraft, Begin
  <2> HIDE DEF r
  <2> QED BY <2>1, <2>2, ReadStep
<1>2. ASSUME NEW k \in Returns, Submit(s, k)
      PROVE  IInv' /\ HistoryGrows
  <2>1. PICK late \in BOOLEAN, changed \in BOOLEAN :
          Begin(s, [pc |-> "file", ret |-> k, signed |-> ret[k].answers, late |-> late,
                    fast |-> ~late /\ ~changed /\ streak[k[1]] >= FastTrackStreak,
                    changed |-> changed])
    BY <1>2 DEF Submit
  <2> DEFINE r == [pc |-> "file", ret |-> k, signed |-> ret[k].answers, late |-> late,
                   fast |-> ~late /\ ~changed /\ streak[k[1]] >= FastTrackStreak,
                   changed |-> changed]
  <2>2. Backed(r, ret)
    BY <1>2 DEF Backed, Submit, MayEdit, Live, Exists
  <2>3. req' = [req EXCEPT ![s] = r] /\ UNCHANGED ret
    BY <1>2, <2>1 DEF Submit, Begin
  <2> HIDE DEF r
  <2> QED BY <2>2, <2>3, ReadStep
<1>3. ASSUME NEW k \in Returns, Revise(s, k)
      PROVE  IInv' /\ HistoryGrows
  <2>1. Later(k) \in Returns /\ Prev(Later(k)) = k /\ Later(k)[3] > 1
    BY <1>3, LaterVersion, MaxVersionAssumption DEF Revise, Later, Returns, Versions
  <2>2. SentBack(ret[k])
    BY <1>3 DEF Revise, MayRevise, IInv, ReviewTrail, TrailBacked
  <2>3. CASE Begin(s, [pc |-> "createRevision", ret |-> Later(k), answers |-> ret[k].answers])
    <3> DEFINE r == [pc |-> "createRevision", ret |-> Later(k), answers |-> ret[k].answers]
    <3>1. Backed(r, ret)
      BY <2>1, <2>2 DEF Backed
    <3>2. req' = [req EXCEPT ![s] = r] /\ UNCHANGED ret
      BY <1>3, <2>3 DEF Revise, Begin
    <3> HIDE DEF r
    <3> QED BY <3>1, <3>2, ReadStep
  <2>4. CASE Reclaimable(Later(k)) /\ Begin(s, [pc |-> "reviveRevision", ret |-> Later(k)])
    <3> DEFINE r == [pc |-> "reviveRevision", ret |-> Later(k)]
    <3>1. ret[Later(k)].status # "ABSENT"
      BY <2>1, <2>4 DEF Reclaimable, IInv, AbsentRowsBlank, Exists, Absent
    <3>2. Backed(r, ret)
      BY <2>1, <2>2, <3>1 DEF Backed
    <3>3. req' = [req EXCEPT ![s] = r] /\ UNCHANGED ret
      BY <1>3, <2>4 DEF Revise, Begin
    <3> HIDE DEF r
    <3> QED BY <3>2, <3>3, ReadStep
  <2> QED BY <1>3, <2>3, <2>4 DEF Revise
<1>4. ASSUME NEW k \in Returns, Remove(s, k)
      PROVE  IInv' /\ HistoryGrows
  <2> DEFINE r == [pc |-> "deleteDraft", ret |-> k]
  <2>1. Backed(r, ret)
    BY <1>4 DEF Backed, Remove, MayEdit, Live, Exists
  <2>2. req' = [req EXCEPT ![s] = r] /\ UNCHANGED ret
    BY <1>4 DEF Remove, Begin
  <2> HIDE DEF r
  <2> QED BY <2>1, <2>2, ReadStep
<1>5. ASSUME NEW k \in Returns, NEW content \in Content, SaveValues(s, k, content)
      PROVE  IInv' /\ HistoryGrows
  <2> DEFINE r == [pc |-> "writeValues", ret |-> k, answers |-> content]
  <2>1. Backed(r, ret)
    BY <1>5 DEF Backed, SaveValues, MayEdit, Live, Exists
  <2>2. req' = [req EXCEPT ![s] = r] /\ UNCHANGED ret
    BY <1>5 DEF SaveValues, Begin
  <2> HIDE DEF r
  <2> QED BY <2>1, <2>2, ReadStep
<1> QED BY <1>1, <1>2, <1>3, <1>4, <1>5

LEMMA DraftWrites ==
  ASSUME IInv, TypeOK', NEW s \in Slots,
         ReviveDraft(s) \/ WriteValues(s) \/ ReviveRevision(s) \/ DeleteDraft(s)
  PROVE  IInv' /\ HistoryGrows
<1> DEFINE k == req[s].ret
           old == ret[k]
<1>1. k \in Returns /\ old \in Rows /\ old.status # "ABSENT" /\ TrailBacked(old) /\ Exists(k)
  <2>1. k \in Returns
    BY RequestFields DEF IInv, ReviveDraft, WriteValues, ReviveRevision, DeleteDraft, At
  <2>2. Backed(req[s], ret)
    BY DEF IInv, RequestsBacked
  <2> QED BY <2>1, <2>2 DEF Backed, IInv, TypeOK, ReviewTrail, Exists,
                            ReviveDraft, WriteValues, ReviveRevision, DeleteDraft, At
<1>2. PICK row :
        /\ EditRow(k, row)
        /\ row.trail = old.trail /\ row.fast = old.fast
        /\ row.stage = old.stage /\ row.locked = old.locked
        /\ row.status = old.status \/ row.status = "DRAFT"
  <2>1. CASE ReviveDraft(s)
    BY <1>1, <2>1, ClearedKeeps DEF ReviveDraft
  <2>2. CASE WriteValues(s)
    BY <1>1, <2>2 DEF WriteValues, Rows
  <2>3. CASE ReviveRevision(s)
    BY <1>1, <2>3, ClearedKeeps DEF ReviveRevision
  <2>4. CASE DeleteDraft(s)
    BY <1>1, <2>4 DEF DeleteDraft, Rows
  <2> QED BY <2>1, <2>2, <2>3, <2>4
<1>3. Extends(row, old) /\ row.status # "ABSENT"
  BY <1>1, <1>2 DEF Extends
<1>4. TrailBacked(row)
  BY <1>1, <1>2, <1>3, SameReview
<1>5. req' = [req EXCEPT ![s] = Idle] /\ Backed(Idle, ret')
  BY IdleBacked DEF ReviveDraft, WriteValues, ReviveRevision, DeleteDraft, Finish, Continue
<1> HIDE DEF k, old
<1> QED BY <1>1, <1>2, <1>3, <1>4, <1>5, WriteStep DEF old

LEMMA Creations ==
  ASSUME IInv, TypeOK', NEW s \in Slots, CreateDraft(s) \/ CreateRevision(s)
  PROVE  IInv' /\ HistoryGrows
<1> DEFINE k == req[s].ret
<1>1. k \in Returns /\ (k[3] > 1 => SentBack(ret[Prev(k)]))
  <2>1. Backed(req[s], ret)
    BY DEF IInv, RequestsBacked
  <2>2. CASE CreateDraft(s)
    <3>1. k \in Returns /\ k[3] = 1
      BY <2>1, <2>2, RequestFields DEF IInv, Backed, CreateDraft, At
    <3> QED BY <3>1
  <2>3. CASE CreateRevision(s)
    BY <2>1, <2>3, RequestFields DEF IInv, Backed, CreateRevision, At
  <2> QED BY <2>2, <2>3
<1>2. req' = [req EXCEPT ![s] = Idle]
  BY DEF CreateDraft, CreateRevision, Finish, Continue
<1>3. CASE UNCHANGED ret
  BY <1>2, <1>3, IdleBacked, ReadStep
<1>4. CASE \E content : ~Exists(k) /\ EditRow(k, Draft(content))
  <2>1. PICK content : ~Exists(k) /\ EditRow(k, Draft(content))
    BY <1>4
  <2>2. ret[k] = Absent
    BY <1>1, <2>1 DEF IInv, AbsentRowsBlank
  <2>3. Backed(Idle, ret')
    BY IdleBacked
  <2>4. /\ TrailBacked(Draft(content)) /\ Draft(content).status # "ABSENT"
        /\ Extends(Draft(content), ret[k])
    BY <2>2, NewDraft
  <2> QED BY <1>1, <1>2, <2>1, <2>3, <2>4, WriteStep
<1> QED BY <1>3, <1>4 DEF CreateDraft, CreateRevision, EditRow

LEMMA Filings ==
  ASSUME IInv, TypeOK', NEW s \in Slots, FileReturn(s)
  PROVE  IInv' /\ HistoryGrows
<1> DEFINE r == req[s]
           k == r.ret
           old == ret[k]
           row == [old EXCEPT !.status = "SUBMITTED",
                              !.stage  = IF r.fast THEN "VERIFIER" ELSE "CHECKER",
                              !.late   = r.late,
                              !.fast   = @ \/ r.fast,
                              !.signed = r.signed]
           reset == [pc |-> "resetStreak", entity |-> k[1]]
<1>1. k \in Returns /\ old \in Rows /\ Exists(k) /\ TrailBacked(old) /\ r.fast \in BOOLEAN
  <2>1. k \in Returns /\ r.fast \in BOOLEAN
    BY RequestFields DEF IInv, FileReturn, At
  <2>2. Backed(r, ret)
    BY DEF IInv, RequestsBacked
  <2> QED BY <2>1, <2>2 DEF Backed, IInv, TypeOK, ReviewTrail, Exists, FileReturn, At
<1>2. PICK next : req' = [req EXCEPT ![s] = next] /\ next \in {Idle, reset}
  BY DEF FileReturn, Finish, Continue
<1>3. Backed(next, ret) /\ Backed(next, ret')
  BY <1>2, IdleBacked
<1>4. CASE UNCHANGED ret
  BY <1>2, <1>3, <1>4, ReadStep
<1>5. CASE EditRow(k, row)
  <2>1. /\ row.status = "SUBMITTED" /\ row.locked = old.locked /\ row.trail = old.trail
        /\ row.stage = (IF r.fast THEN "VERIFIER" ELSE "CHECKER")
        /\ row.fast = (old.fast \/ r.fast)
    BY <1>1 DEF Rows
  <2> HIDE DEF row
  <2>2. Extends(row, old)
    BY <1>1, <2>1 DEF Extends
  <2>3. row.stage # "none" => MayReach(row, row.stage)
    BY <1>1, <2>1 DEF MayReach
  <2>4. row.locked => MayReach(row, "APPROVER") /\ OnRecord(row, "APPROVER", "APPROVE")
    BY <1>1, <2>1, <2>2, RecordKept DEF TrailBacked
  <2>5. TrailBacked(row)
    BY <2>1, <2>3, <2>4 DEF TrailBacked
  <2> QED BY <1>1, <1>2, <1>3, <1>5, <2>1, <2>2, <2>5, WriteStep
<1> QED BY <1>4, <1>5 DEF FileReturn

-----------------------------------------------------------------------------
(* The steps of a reviewer's request.                                      *)

LEMMA DecideKeeps ==
  ASSUME IInv, TypeOK', NEW s \in Slots, NEW u \in Reviewers, NEW stage \in Stages,
         NEW k \in Returns, NEW decision \in Decisions, Decide(s, u, stage, k, decision)
  PROVE  IInv' /\ HistoryGrows
<1> DEFINE r == [pc |-> "recordStep", ret |-> k, stage |-> stage, decision |-> decision,
                 actor |-> u, late |-> ret[k].late]
<1>1. ret[k].status # "ABSENT" /\ ret[k].stage = stage /\ stage # "none"
  BY DEF Decide, Awaiting, Live, Exists, Stages
<1>2. MayReach(ret[k], stage)
  BY <1>1 DEF IInv, ReviewTrail, TrailBacked
<1>3. Backed(r, ret)
  BY <1>1, <1>2 DEF Backed
<1>4. req' = [req EXCEPT ![s] = r] /\ UNCHANGED ret
  BY DEF Decide, Begin
<1> HIDE DEF r
<1> QED BY <1>3, <1>4, ReadStep

LEMMA Recording ==
  ASSUME IInv, TypeOK', NEW s \in Slots, RecordStep(s)
  PROVE  IInv' /\ HistoryGrows
<1> DEFINE r == req[s]
           k == r.ret
           old == ret[k]
           step == [stage |-> r.stage, decision |-> r.decision, actor |-> r.actor]
           row == [old EXCEPT !.trail = Append(@, step)]
           next == [r EXCEPT !.pc = "applyDecision"]
<1>1. /\ k \in Returns /\ r.stage \in Stages /\ r.decision \in Decisions
      /\ r \in [pc : {"recordStep", "applyDecision"}, ret : Returns, stage : Stages,
                decision : Decisions, actor : Reviewers, late : BOOLEAN]
      /\ step \in Steps
  BY RequestFields DEF IInv, RecordStep, At, Steps
<1>2. old \in Rows /\ TrailBacked(old) /\ Exists(k) /\ MayReach(old, r.stage)
  <2>1. Backed(r, ret)
    BY DEF IInv, RequestsBacked
  <2> QED BY <1>1, <2>1 DEF Backed, IInv, TypeOK, ReviewTrail, Exists, RecordStep, At
<1>3. /\ row.trail = Append(old.trail, step) /\ row.fast = old.fast /\ row.stage = old.stage
      /\ row.locked = old.locked /\ row.status = old.status
  BY <1>2 DEF Rows
<1>4. /\ next.pc = "applyDecision" /\ next.ret = k /\ next.stage = r.stage
      /\ next.decision = r.decision
  BY <1>1
<1>5. EditRow(k, row) /\ req' = [req EXCEPT ![s] = next]
  BY DEF RecordStep, Continue
<1>6. ret'[k] = row
  BY <1>1, <1>5 DEF EditRow, IInv, TypeOK
<1> HIDE DEF row, next
<1>7. old.trail \in Seq(Steps) /\ row.trail = Append(old.trail, step)
  BY <1>2, <1>3 DEF Rows
<1>8. Extends(row, old) /\ OnRecord(row, r.stage, r.decision)
  <2>1. Len(row.trail) = Len(old.trail) + 1 /\ DOMAIN row.trail = 1..Len(row.trail)
        /\ DOMAIN old.trail = 1..Len(old.trail) /\ Len(old.trail) \in Nat
    BY <1>1, <1>7
  <2>2. \A i \in 1..Len(old.trail) : row.trail[i] = old.trail[i]
    BY <1>1, <1>7
  <2>3. row.trail[Len(row.trail)] = step
    BY <1>1, <1>7, <2>1
  <2>4. Extends(row, old)
    <3>1. \A i \in DOMAIN old.trail : i \in DOMAIN row.trail
      BY <2>1
    <3>2. \A i \in DOMAIN old.trail : row.trail[i] = old.trail[i]
      BY <2>1, <2>2
    <3>3. row.status = old.status /\ row.fast = old.fast
      BY <1>3
    <3> HIDE DEF step, old
    <3> QED BY <3>1, <3>2, <3>3 DEF Extends
  <2>5. OnRecord(row, r.stage, r.decision)
    BY <2>1, <2>3 DEF OnRecord
  <2> QED BY <2>4, <2>5
<1>9. TrailBacked(row)
  BY <1>2, <1>3, <1>8, SameReview
<1>10. Backed(next, ret')
  BY <1>2, <1>3, <1>4, <1>6, <1>8, RecordKept DEF Backed, Exists
<1> QED BY <1>1, <1>2, <1>3, <1>5, <1>8, <1>9, <1>10, WriteStep DEF Exists

LEMMA Applying ==
  ASSUME IInv, TypeOK', NEW s \in Slots, Reject(s) \/ Advance(s) \/ SignOff(s)
  PROVE  IInv' /\ HistoryGrows
<1> DEFINE r == req[s]
           k == r.ret
           old == ret[k]
<1>1. /\ k \in Returns /\ r.stage \in Stages /\ old \in Rows /\ TrailBacked(old) /\ Exists(k)
      /\ MayReach(old, r.stage) /\ OnRecord(old, r.stage, r.decision)
  <2>1. Backed(r, ret)
    BY DEF IInv, RequestsBacked
  <2>2. k \in Returns /\ r.stage \in Stages
    BY RequestFields DEF IInv, Reject, Advance, SignOff, At
  <2> QED BY <2>1, <2>2 DEF Backed, IInv, TypeOK, ReviewTrail, Exists,
                            Reject, Advance, SignOff, At
<1>2. PICK next : req' = [req EXCEPT ![s] = next] /\ Backed(next, ret')
  <2>1. \E next \in {Idle, [pc |-> "resetStreak", entity |-> k[1]],
                     [pc |-> "incrementStreak", entity |-> k[1]]} :
          req' = [req EXCEPT ![s] = next]
    BY DEF Reject, Advance, SignOff, Finish, Continue
  <2> QED BY <2>1, IdleBacked
<1>3. PICK row :
        /\ EditRow(k, row) /\ row.trail = old.trail /\ row.fast = old.fast
        /\ row.status # "ABSENT" /\ TrailBacked(row)
  <2>1. CASE Reject(s)
    <3> DEFINE row == [old EXCEPT !.status = "REJECTED", !.stage = "none"]
    <3>1. /\ row.status = "REJECTED" /\ row.stage = "none" /\ row.trail = old.trail
          /\ row.fast = old.fast /\ row.locked = old.locked
      BY <1>1 DEF Rows
    <3>2. EditRow(k, row) /\ r.decision = "REJECT"
      BY <2>1 DEF Reject
    <3> HIDE DEF row
    <3>3. Extends(row, old)
      BY <3>1 DEF Extends
    <3>4. SentBack(row)
      BY <1>1, <3>2, <3>3, RecordKept DEF SentBack
    <3>5. TrailBacked(row)
      BY <1>1, <3>1, <3>3, <3>4, RecordKept DEF TrailBacked
    <3> QED BY <3>1, <3>2, <3>5
  <2>2. CASE Advance(s)
    <3> DEFINE row == [old EXCEPT !.status = "UNDER_REVIEW", !.stage = NextStage[r.stage]]
    <3>1. /\ row.status = "UNDER_REVIEW" /\ row.stage = NextStage[r.stage]
          /\ row.trail = old.trail /\ row.fast = old.fast /\ row.locked = old.locked
      BY <1>1 DEF Rows
    <3>2. EditRow(k, row) /\ r.decision = "APPROVE" /\ r.stage \in {"CHECKER", "VERIFIER"}
      BY <1>1, <2>2 DEF Advance, Stages
    <3> HIDE DEF row
    <3>3. Extends(row, old)
      BY <3>1 DEF Extends
    <3>4. MayReach(row, NextStage[r.stage])
      <4>1. MayReach(row, r.stage) /\ OnRecord(row, r.stage, "APPROVE")
        BY <1>1, <3>2, <3>3, RecordKept
      <4> QED BY <3>2, <4>1 DEF MayReach, NextStage
    <3>5. TrailBacked(row)
      BY <1>1, <3>1, <3>3, <3>4, RecordKept DEF TrailBacked
    <3> QED BY <3>1, <3>2, <3>5
  <2>3. CASE SignOff(s)
    <3> DEFINE row == [old EXCEPT !.status = "APPROVED", !.stage = "none", !.locked = TRUE]
    <3>1. /\ row.status = "APPROVED" /\ row.stage = "none" /\ row.trail = old.trail
          /\ row.fast = old.fast
      BY <1>1 DEF Rows
    <3>2. EditRow(k, row) /\ r.decision = "APPROVE" /\ r.stage = "APPROVER"
      BY <2>3 DEF SignOff
    <3> HIDE DEF row
    <3>3. Extends(row, old)
      BY <3>1 DEF Extends
    <3>4. MayReach(row, "APPROVER") /\ OnRecord(row, "APPROVER", "APPROVE")
      BY <1>1, <3>2, <3>3, RecordKept
    <3>5. TrailBacked(row)
      BY <3>1, <3>4 DEF TrailBacked
    <3> QED BY <3>1, <3>2, <3>5
  <2> QED BY <2>1, <2>2, <2>3
<1>4. Extends(row, old)
  BY <1>3 DEF Extends
<1> QED BY <1>1, <1>2, <1>3, <1>4, WriteStep

-----------------------------------------------------------------------------
LEMMA OperatorKeeps ==
  ASSUME IInv, TypeOK', NEW s \in Slots, OperatorStep(s)
  PROVE  IInv' /\ HistoryGrows
  BY OperatorReads, DraftWrites, Creations, Filings DEF OperatorStep

LEMMA StreakKeeps ==
  ASSUME IInv, TypeOK', NEW s \in Slots, ResetStreak(s) \/ IncrementStreak(s) \/ Abandon(s)
  PROVE  IInv' /\ HistoryGrows
<1>1. req' = [req EXCEPT ![s] = Idle] /\ UNCHANGED ret
  BY DEF ResetStreak, IncrementStreak, Abandon, Finish, Continue
<1> QED BY <1>1, IdleBacked, ReadStep

LEMMA AuthorityKeeps ==
  ASSUME IInv, TypeOK', AuthorityStep
  PROVE  IInv' /\ HistoryGrows
<1>1. CASE UNCHANGED <<ret, req>>
  <2>1. HistoryGrows
    BY <1>1 DEF HistoryGrows, Extends
  <2> QED BY <1>1, <2>1 DEF IInv, AbsentRowsBlank, RequestsBacked, ReviewTrail, VersionChain, Exists
<1>2. ASSUME NEW s \in Slots, NEW p \in Periods, RemovePeriod(s, p)
      PROVE  IInv' /\ HistoryGrows
  <2>1. req' = [req EXCEPT ![s] = [pc |-> "deletePeriod", period |-> p]] /\ UNCHANGED ret
    BY <1>2 DEF RemovePeriod, Begin
  <2> QED BY <2>1, IdleBacked, ReadStep
<1>3. ASSUME NEW s \in Slots, DeletePeriod(s)
      PROVE  IInv' /\ HistoryGrows
  <2>1. req' = [req EXCEPT ![s] = Idle] /\ UNCHANGED ret
    BY <1>3 DEF DeletePeriod, Finish, Continue
  <2> QED BY <2>1, IdleBacked, ReadStep
<1> QED BY <1>1, <1>2, <1>3 DEF AuthorityStep, OpenPeriod, ClosePeriod, ChangeLicence, SetStatus

LEMMA InitInv == Init => IInv
<1> SUFFICES ASSUME Init PROVE IInv
  OBVIOUS
<1>1. \A k \in Returns : ret[k] = Absent
  BY DEF Init
<1>2. AbsentRowsBlank
  BY <1>1 DEF AbsentRowsBlank
<1>3. \A k \in Returns : ~Exists(k)
  BY <1>1 DEF Exists, Absent
<1>4. VersionChain
  BY <1>3 DEF VersionChain
<1>5. ReviewTrail
  BY <1>1 DEF ReviewTrail, TrailBacked, Absent
<1>6. RequestsBacked
  BY IdleBacked DEF Init, RequestsBacked
<1>7. TypeOK
  BY InitType
<1> QED BY <1>2, <1>4, <1>5, <1>6, <1>7 DEF IInv

LEMMA StepInv == IInv /\ [Next]_vars => IInv' /\ HistoryGrows
<1> SUFFICES ASSUME IInv, [Next]_vars PROVE IInv' /\ HistoryGrows
  OBVIOUS
<1>1. TypeOK'
  BY StepType DEF IInv
<1>2. CASE UNCHANGED vars
  <2>1. HistoryGrows
    BY <1>2 DEF vars, HistoryGrows, Extends
  <2> QED BY <1>1, <1>2, <2>1
          DEF vars, IInv, AbsentRowsBlank, RequestsBacked, ReviewTrail, VersionChain, Exists
<1>3. ASSUME NEW s \in Slots, ReviewStep(s)
      PROVE  IInv' /\ HistoryGrows
  BY <1>1, <1>3, DecideKeeps, Recording, Applying, StreakKeeps DEF ReviewStep
<1> QED BY <1>1, <1>2, <1>3, OperatorKeeps, StreakKeeps, AuthorityKeeps DEF Next

LEMMA Invariance == Spec => []IInv
<1>1. IInv /\ [Next]_vars => IInv'
  BY StepInv
<1> QED BY <1>1, InitInv, PTL DEF Spec

(* No return waits at a stage, is locked or is rejected without the        *)
(* decisions that put it there, for any number of reviewers deciding at    *)
(* once (WorkflowService.decide).                                          *)
THEOREM ReviewTrailHolds == Spec => []ReviewTrail
<1>1. IInv => ReviewTrail
  BY DEF IInv
<1> QED BY <1>1, Invariance, PTL

(* No version exists without a rejection of the one it supersedes.         *)
THEOREM VersionChainHolds == Spec => []VersionChain
<1>1. IInv => VersionChain
  BY DEF IInv
<1> QED BY <1>1, Invariance, PTL

(* What a handler read is still on record when it writes.                  *)
THEOREM RequestsBackedHolds == Spec => []RequestsBacked
<1>1. IInv => RequestsBacked
  BY DEF IInv
<1> QED BY <1>1, Invariance, PTL

-----------------------------------------------------------------------------
(* No step replaces the signature or the lateness of a return that has     *)
(* left DRAFT.                                                             *)
FiledOnceStep ==
  \A k \in Returns :
    Filed(k) /\ ret[k].status # "DRAFT"
      => ret'[k].signed = ret[k].signed /\ ret'[k].late = ret[k].late

(* Two submits of one draft cannot both win, for any number of them        *)
(* (SubmissionsService.submit's conditional update).                       *)
THEOREM FiledOnceHolds == Spec => FiledOnce
<1>1. IInv /\ [Next]_vars => [FiledOnceStep]_vars
  <2> SUFFICES ASSUME IInv, [Next]_vars PROVE [FiledOnceStep]_vars
    OBVIOUS
  <2>1. ASSUME NEW k \in Returns, NEW row, EditRow(k, row),
               row.signed = ret[k].signed, row.late = ret[k].late
        PROVE  FiledOnceStep
    BY <2>1 DEF EditRow, FiledOnceStep, IInv, TypeOK
  <2>2. CASE UNCHANGED ret
    BY <2>2 DEF FiledOnceStep
  <2>3. ASSUME NEW s \in Slots,
               ReviveDraft(s) \/ WriteValues(s) \/ ReviveRevision(s) \/ DeleteDraft(s)
                 \/ RecordStep(s) \/ Reject(s) \/ Advance(s) \/ SignOff(s)
        PROVE  FiledOnceStep
    <3> DEFINE k == req[s].ret
    <3>1. k \in Returns /\ ret[k] \in Rows
      BY <2>3, RequestFields DEF IInv, TypeOK, ReviveDraft, WriteValues, ReviveRevision,
                             DeleteDraft, RecordStep, Reject, Advance, SignOff, At
    <3>2. CASE ReviveDraft(s) \/ ReviveRevision(s)
      BY <2>1, <3>1, <3>2 DEF ReviveDraft, ReviveRevision, Cleared, Rows
    <3>3. CASE WriteValues(s)
      BY <2>1, <3>1, <3>3 DEF WriteValues, Rows
    <3>4. CASE DeleteDraft(s)
      BY <2>1, <3>1, <3>4 DEF DeleteDraft, Rows
    <3>5. CASE RecordStep(s)
      BY <2>1, <3>1, <3>5 DEF RecordStep, Rows
    <3>6. CASE Reject(s) \/ Advance(s) \/ SignOff(s)
      BY <2>1, <3>1, <3>6 DEF Reject, Advance, SignOff, Rows
    <3> QED BY <2>3, <3>2, <3>3, <3>4, <3>5, <3>6
  <2>4. ASSUME NEW s \in Slots, FileReturn(s)
        PROVE  FiledOnceStep
    BY <2>2, <2>4, RequestFields DEF FileReturn, At, StillDraft, EditRow, FiledOnceStep, IInv, TypeOK
  <2>5. ASSUME NEW s \in Slots, CreateDraft(s) \/ CreateRevision(s)
        PROVE  FiledOnceStep
    <3>1. req[s].ret \in Returns
      BY <2>5, RequestFields DEF CreateDraft, CreateRevision, At, IInv
    <3> QED BY <2>5, <3>1 DEF CreateDraft, CreateRevision, Exists, Filed, Absent,
                              IInv, TypeOK, AbsentRowsBlank, FiledOnceStep
  <2> QED BY <2>2, <2>3, <2>4, <2>5
          DEF Next, vars, OperatorStep, ReviewStep, AuthorityStep, OpenDraft, SaveValues, Submit,
              Revise, Remove, Decide, ResetStreak, IncrementStreak, OpenPeriod, ClosePeriod,
              RemovePeriod, DeletePeriod, SetStatus, ChangeLicence, Abandon
<1> QED BY <1>1, Invariance, PTL DEF Spec, FiledOnce, FiledOnceStep

-----------------------------------------------------------------------------
(* What a step may start, and what it may write: the guards of every       *)
(* handler beside its statements.                                          *)

(* What has been read of the tables when slot s moves on to request r.     *)
Started(s, r) ==
  \/ r.pc \in {"idle", "resetStreak", "incrementStreak", "deletePeriod"}
  \/ r.pc \in {"createDraft", "reviveDraft"} /\ Accepts(r.ret[2]) /\ ~Live(r.ret)
  \/ r.pc \in {"writeValues", "file", "deleteDraft"} /\ MayEdit(r.ret)
  \/ /\ r.pc \in {"createRevision", "reviveRevision"}
     /\ \E k \in Returns : Live(k) /\ r.ret = Later(k) /\ ~Live(Later(k))
  \/ r.pc = "recordStep" /\ Live(r.ret) /\ InReview(r.ret)
  \/ r.pc = "applyDecision" /\ req[s].pc = "recordStep" /\ r.ret = req[s].ret

LEMMA Starting ==
  ASSUME IInv, [Next]_vars
  PROVE  \/ UNCHANGED req
         \/ \E s \in Slots, r \in Requests : req' = [req EXCEPT ![s] = r] /\ Started(s, r)
<1> DEFINE Goal == \/ UNCHANGED req
                   \/ \E s \in Slots, r \in Requests :
                        req' = [req EXCEPT ![s] = r] /\ Started(s, r)
<1>1. ASSUME NEW s \in Slots, NEW r, req' = [req EXCEPT ![s] = r], Started(s, r)
      PROVE  Goal
  <2>1. req'[s] = r /\ req'[s] \in Requests
    BY <1>1, StepType DEF IInv, TypeOK
  <2> QED BY <1>1, <2>1
<1>2. ASSUME NEW s \in Slots,
             \/ req' = [req EXCEPT ![s] = Idle]
             \/ \E e \in Entities : \/ req' = [req EXCEPT ![s] = [pc |-> "resetStreak", entity |-> e]]
                                   \/ req' = [req EXCEPT ![s] = [pc |-> "incrementStreak", entity |-> e]]
             \/ \E p \in Periods : req' = [req EXCEPT ![s] = [pc |-> "deletePeriod", period |-> p]]
      PROVE  Goal
  <2>1. Started(s, Idle)
    BY DEF Started, Idle
  <2>2. \A e : /\ Started(s, [pc |-> "resetStreak", entity |-> e])
               /\ Started(s, [pc |-> "incrementStreak", entity |-> e])
    BY DEF Started
  <2>3. \A p : Started(s, [pc |-> "deletePeriod", period |-> p])
    BY DEF Started
  <2> HIDE DEF Goal
  <2> QED BY <1>1, <1>2, <2>1, <2>2, <2>3
<1>3. ASSUME NEW s \in Slots, OperatorStep(s)
      PROVE  Goal
  <2>1. ASSUME NEW e \in Entities, NEW p \in Periods, OpenDraft(s, e, p)
        PROVE  Goal
    <3> DEFINE k == <<e, p, 1>>
               r == [pc |-> IF ret[k].deleted /\ ret[k].status = "DRAFT"
                              THEN "reviveDraft" ELSE "createDraft",
                     ret |-> k]
    <3>1. k \in Of(e, p) /\ k[2] = p
      BY FirstVersion DEF Of
    <3>2. req' = [req EXCEPT ![s] = r] /\ ~Live(k) /\ Accepts(k[2])
      BY <2>1, <3>1 DEF OpenDraft, Begin
    <3>3. r.pc \in {"createDraft", "reviveDraft"} /\ r.ret = k
      OBVIOUS
    <3>4. Started(s, r)
      BY <3>2, <3>3 DEF Started
    <3> HIDE DEF r, k
    <3> QED BY <1>1, <3>2, <3>4
  <2>2. ASSUME NEW k \in Returns, Submit(s, k)
        PROVE  Goal
    <3>1. PICK late \in BOOLEAN, changed \in BOOLEAN :
            Begin(s, [pc |-> "file", ret |-> k, signed |-> ret[k].answers, late |-> late,
                      fast |-> ~late /\ ~changed /\ streak[k[1]] >= FastTrackStreak,
                      changed |-> changed])
      BY <2>2 DEF Submit
    <3> DEFINE r == [pc |-> "file", ret |-> k, signed |-> ret[k].answers, late |-> late,
                     fast |-> ~late /\ ~changed /\ streak[k[1]] >= FastTrackStreak,
                     changed |-> changed]
    <3>2. req' = [req EXCEPT ![s] = r]
      BY <3>1 DEF Begin
    <3>3. MayEdit(k) /\ r.pc = "file" /\ r.ret = k
      BY <2>2 DEF Submit
    <3> HIDE DEF r
    <3>4. Started(s, r)
      BY <3>3 DEF Started
    <3> QED BY <1>1, <3>2, <3>4
  <2>3. ASSUME NEW k \in Returns, Revise(s, k)
        PROVE  Goal
    <3> DEFINE create == [pc |-> "createRevision", ret |-> Later(k), answers |-> ret[k].answers]
               revive == [pc |-> "reviveRevision", ret |-> Later(k)]
    <3>1. req' = [req EXCEPT ![s] = create] \/ req' = [req EXCEPT ![s] = revive]
      BY <2>3 DEF Revise, Begin
    <3>2. Live(k) /\ ~Live(Later(k))
      BY <2>3 DEF Revise, MayRevise, Reclaimable, Live
    <3>3. /\ create.pc = "createRevision" /\ create.ret = Later(k)
          /\ revive.pc = "reviveRevision" /\ revive.ret = Later(k)
      OBVIOUS
    <3> HIDE DEF create, revive
    <3>4. Started(s, create) /\ Started(s, revive)
      BY <3>2, <3>3 DEF Started
    <3> QED BY <1>1, <3>1, <3>4
  <2>4. ASSUME NEW k \in Returns, Remove(s, k)
        PROVE  Goal
    <3> DEFINE r == [pc |-> "deleteDraft", ret |-> k]
    <3>1. req' = [req EXCEPT ![s] = r] /\ MayEdit(k)
      BY <2>4 DEF Remove, Begin
    <3>2. Started(s, r)
      BY <3>1 DEF Started
    <3> QED BY <1>1, <3>1, <3>2
  <2>5. ASSUME NEW k \in Returns, NEW content \in Content, SaveValues(s, k, content)
        PROVE  Goal
    <3> DEFINE r == [pc |-> "writeValues", ret |-> k, answers |-> content]
    <3>1. req' = [req EXCEPT ![s] = r] /\ MayEdit(k)
      BY <2>5 DEF SaveValues, Begin
    <3>2. Started(s, r)
      BY <3>1 DEF Started
    <3> QED BY <1>1, <3>1, <3>2
  <2>6. CASE ReviveDraft(s) \/ CreateDraft(s) \/ WriteValues(s) \/ CreateRevision(s)
               \/ ReviveRevision(s) \/ DeleteDraft(s)
    BY <1>2, <2>6 DEF ReviveDraft, CreateDraft, WriteValues, CreateRevision, ReviveRevision,
                      DeleteDraft, Finish, Continue
  <2>7. CASE FileReturn(s)
    <3>1. req[s].ret[1] \in Entities
      BY <2>7, RequestFields DEF FileReturn, At, Returns, IInv
    <3>2. \/ req' = [req EXCEPT ![s] = Idle]
          \/ req' = [req EXCEPT ![s] = [pc |-> "resetStreak", entity |-> req[s].ret[1]]]
      BY <2>7 DEF FileReturn, Finish, Continue
    <3> QED BY <1>2, <3>1, <3>2
  <2> QED BY <1>3, <2>1, <2>2, <2>3, <2>4, <2>5, <2>6, <2>7 DEF OperatorStep
<1>4. ASSUME NEW s \in Slots, ReviewStep(s)
      PROVE  Goal
  <2>1. ASSUME NEW u \in Reviewers, NEW stage \in Stages, NEW k \in Returns,
               NEW decision \in Decisions, Decide(s, u, stage, k, decision)
        PROVE  Goal
    <3> DEFINE r == [pc |-> "recordStep", ret |-> k, stage |-> stage, decision |-> decision,
                     actor |-> u, late |-> ret[k].late]
    <3>1. req' = [req EXCEPT ![s] = r]
      BY <2>1 DEF Decide, Begin
    <3>2. Live(k) /\ InReview(k) /\ r.pc = "recordStep" /\ r.ret = k
      BY <2>1 DEF Decide, Awaiting
    <3> HIDE DEF r
    <3>3. Started(s, r)
      BY <3>2 DEF Started
    <3> QED BY <1>1, <3>1, <3>3
  <2>2. CASE RecordStep(s)
    <3> DEFINE r == [req[s] EXCEPT !.pc = "applyDecision"]
    <3>1. req[s].pc = "recordStep" /\ req' = [req EXCEPT ![s] = r]
      BY <2>2 DEF RecordStep, At, Continue
    <3>2. r.pc = "applyDecision" /\ r.ret = req[s].ret
      BY <3>1, RequestFields DEF IInv
    <3> HIDE DEF r
    <3> QED BY <1>1, <3>1, <3>2 DEF Started
  <2>3. CASE Reject(s) \/ Advance(s) \/ SignOff(s) \/ ResetStreak(s) \/ IncrementStreak(s)
    <3>1. Reject(s) \/ SignOff(s) => req[s].ret[1] \in Entities
      BY RequestFields DEF Reject, SignOff, At, Returns, IInv
    <3>2. \/ req' = [req EXCEPT ![s] = Idle]
          \/ /\ Reject(s)
             /\ req' = [req EXCEPT ![s] = [pc |-> "resetStreak", entity |-> req[s].ret[1]]]
          \/ /\ SignOff(s)
             /\ req' = [req EXCEPT ![s] = [pc |-> "incrementStreak", entity |-> req[s].ret[1]]]
      BY <2>3 DEF Reject, Advance, SignOff, ResetStreak, IncrementStreak, Finish, Continue
    <3> QED BY <1>2, <3>1, <3>2
  <2> QED BY <1>4, <2>1, <2>2, <2>3 DEF ReviewStep
<1>5. CASE AuthorityStep
  <2>1. ASSUME NEW s \in Slots, (\E p \in Periods : RemovePeriod(s, p)) \/ DeletePeriod(s)
        PROVE  Goal
    BY <1>2, <2>1 DEF RemovePeriod, DeletePeriod, Begin, Finish, Continue
  <2> QED BY <1>5, <2>1 DEF AuthorityStep, OpenPeriod, ClosePeriod, ChangeLicence, SetStatus
<1>6. ASSUME NEW s \in Slots, Abandon(s)
      PROVE  Goal
  BY <1>2, <1>6 DEF Abandon, Finish, Continue
<1> QED BY <1>3, <1>4, <1>5, <1>6 DEF Next, vars

(* What the write slot s makes does to the row of k.                       *)
Written(s, k) ==
  /\ req[s].ret = k
  /\ \/ req[s].pc \in {"createDraft", "createRevision"} /\ ~Exists(k)
     \/ req[s].pc \in {"reviveDraft", "reviveRevision"}
     \/ req[s].pc \in {"writeValues", "deleteDraft"} /\ (Live(k)' => Live(k))
     \/ req[s].pc = "file" /\ StillDraft(k) /\ (Live(k)' => Live(k))
     \/ /\ req[s].pc \in {"recordStep", "applyDecision"}
        /\ Live(k)' <=> Live(k)
        /\ ret'[k].status \in {ret[k].status, "REJECTED", "UNDER_REVIEW", "APPROVED"}
        /\ ret'[k].answers = ret[k].answers
        /\ ret'[k].signed = ret[k].signed /\ ret'[k].late = ret[k].late

LEMMA Writing ==
  ASSUME IInv, [Next]_vars, NEW k \in Returns
  PROVE  ret'[k] = ret[k] \/ \E s \in Slots : Written(s, k)
<1> DEFINE Goal == ret'[k] = ret[k] \/ \E s \in Slots : Written(s, k)
<1>1. ASSUME NEW j, NEW row, EditRow(j, row)
      PROVE  ret'[k] = IF k = j THEN row ELSE ret[k]
  BY <1>1 DEF EditRow, IInv, TypeOK
<1>2. ret[k] \in Rows
  BY DEF IInv, TypeOK
<1>3. ASSUME NEW s \in Slots,
             CreateDraft(s) \/ CreateRevision(s) \/ ReviveDraft(s) \/ ReviveRevision(s)
      PROVE  Goal
  <2>1. CASE CreateDraft(s) \/ CreateRevision(s)
    BY <2>1 DEF CreateDraft, CreateRevision, At, Written, IInv, TypeOK
  <2>2. CASE ReviveDraft(s) \/ ReviveRevision(s)
    BY <1>1, <2>2 DEF ReviveDraft, ReviveRevision, At, Written
  <2> QED BY <1>3, <2>1, <2>2
<1>4. ASSUME NEW s \in Slots, WriteValues(s) \/ DeleteDraft(s)
      PROVE  Goal
  <2>1. CASE WriteValues(s)
    BY <1>1, <1>2, <2>1 DEF WriteValues, At, Written, Live, Exists, Rows
  <2>2. CASE DeleteDraft(s)
    BY <1>1, <1>2, <2>2 DEF DeleteDraft, At, Written, Live, Exists, Rows
  <2> QED BY <1>4, <2>1, <2>2
<1>5. ASSUME NEW s \in Slots, FileReturn(s)
      PROVE  Goal
  <2>1. CASE UNCHANGED ret
    BY <2>1
  <2>2. CASE ret' # ret
    <3> DEFINE r == req[s]
               row == [ret[r.ret] EXCEPT !.status = "SUBMITTED",
                                         !.stage  = IF r.fast THEN "VERIFIER" ELSE "CHECKER",
                                         !.late   = r.late,
                                         !.fast   = @ \/ r.fast,
                                         !.signed = r.signed]
    <3>1. r.pc = "file" /\ StillDraft(r.ret) /\ EditRow(r.ret, row)
      BY <1>5, <2>2 DEF FileReturn, At
    <3>2. k = r.ret => row.deleted = ret[k].deleted
      BY <1>2 DEF Rows
    <3> HIDE DEF row
    <3> QED BY <1>1, <3>1, <3>2 DEF Written, StillDraft, Live, Exists
  <2> QED BY <2>1, <2>2
<1>6. ASSUME NEW s \in Slots, RecordStep(s) \/ Reject(s) \/ Advance(s) \/ SignOff(s)
      PROVE  Goal
  <2> DEFINE r == req[s]
  <2>1. r.pc \in {"recordStep", "applyDecision"} /\ Exists(r.ret)
    BY <1>6 DEF RecordStep, Reject, Advance, SignOff, At, IInv, RequestsBacked, Backed, Exists
  <2>2. ASSUME NEW row, EditRow(r.ret, row),
               k = r.ret => /\ row.deleted = ret[k].deleted /\ row.answers = ret[k].answers
                            /\ row.signed = ret[k].signed /\ row.late = ret[k].late
                            /\ row.status \in {ret[k].status, "REJECTED", "UNDER_REVIEW", "APPROVED"}
        PROVE  Goal
    <3>1. CASE k # r.ret
      BY <1>1, <2>2, <3>1
    <3>2. CASE k = r.ret
      <4>1. ret'[k] = row
        BY <1>1, <2>2, <3>2
      <4>2. Live(k)' <=> Live(k)
        BY <2>1, <2>2, <3>2, <4>1 DEF Live, Exists
      <4> QED BY <2>1, <2>2, <3>2, <4>1, <4>2 DEF Written
    <3> QED BY <3>1, <3>2
  <2>3. CASE RecordStep(s)
    BY <1>2, <2>2, <2>3 DEF RecordStep, Rows
  <2>4. CASE Reject(s)
    BY <1>2, <2>2, <2>4 DEF Reject, Rows
  <2>5. CASE Advance(s)
    BY <1>2, <2>2, <2>5 DEF Advance, Rows
  <2>6. CASE SignOff(s)
    BY <1>2, <2>2, <2>6 DEF SignOff, Rows
  <2> QED BY <1>6, <2>3, <2>4, <2>5, <2>6
<1>7. CASE UNCHANGED ret
  BY <1>7
<1> QED BY <1>3, <1>4, <1>5, <1>6, <1>7
        DEF Next, vars, OperatorStep, ReviewStep, AuthorityStep, OpenDraft, SaveValues, Submit,
            Revise, Remove, Decide, ResetStreak, IncrementStreak, OpenPeriod, ClosePeriod,
            RemovePeriod, DeletePeriod, SetStatus, ChangeLicence, Abandon

(* A live return that has left DRAFT gets no new edits: the four requests  *)
(* that could undo its filing look for a draft or for a deleted row.       *)
LEMMA NoNewEdit ==
  ASSUME IInv, [Next]_vars, NEW k \in Returns,
         Live(k), ret[k].status # "DRAFT", ~Editing(k)
  PROVE  ~Editing(k)'
<1>1. CASE UNCHANGED req
  BY <1>1 DEF Editing
<1>2. ASSUME NEW s \in Slots, NEW r \in Requests, req' = [req EXCEPT ![s] = r], Started(s, r)
      PROVE  ~Editing(k)'
  <2>1. ~(/\ r.pc \in {"writeValues", "deleteDraft", "reviveDraft", "reviveRevision"}
          /\ r.ret = k)
    BY <1>2 DEF Started, MayEdit
  <2>2. \A t \in Slots : req'[t] = IF t = s THEN r ELSE req[t]
    BY <1>2 DEF IInv, TypeOK
  <2> QED BY <2>1, <2>2 DEF Editing
<1> QED BY <1>1, <1>2, Starting

LEMMA SealKept ==
  ASSUME IInv, [Next]_vars, NEW k \in Returns, Sealed(k)
  PROVE  /\ Sealed(k)'
         /\ ret'[k].answers = ret[k].answers /\ ret'[k].signed = ret[k].signed
         /\ ret'[k].late = ret[k].late
         /\ ret'[k] = ret[k] \/ Deciding(k)
<1>1. /\ Live(k) /\ Exists(k) /\ Filed(k) /\ ret[k].status # "DRAFT"
      /\ ~Editing(k) /\ ~StillDraft(k)
  BY DEF Sealed, Live, StillDraft
<1>2. ~Editing(k)'
  BY <1>1, NoNewEdit
<1>3. CASE ret'[k] = ret[k]
  BY <1>1, <1>2, <1>3 DEF Sealed, Live, Exists, Filed
<1>4. ASSUME NEW s \in Slots, Written(s, k)
      PROVE  /\ Deciding(k) /\ Live(k)' /\ ret'[k].status # "DRAFT"
             /\ ret'[k].answers = ret[k].answers
             /\ ret'[k].signed = ret[k].signed /\ ret'[k].late = ret[k].late
  <2>1. req[s].pc \in {"recordStep", "applyDecision"}
    BY <1>1, <1>4 DEF Written, Editing
  <2> QED BY <1>1, <1>4, <2>1 DEF Written, Deciding
<1>5. CASE \E s \in Slots : Written(s, k)
  BY <1>1, <1>2, <1>4, <1>5 DEF Sealed, Filed
<1> QED BY <1>3, <1>5, Writing

(* A filed return stays filed, with its answers and its signature, once    *)
(* the edits under way have ended, for any number of requests and          *)
(* versions (the guards of saveValues, submit, remove, revise and          *)
(* getOrCreateDraft).                                                      *)
THEOREM FiledForGood == Spec => FiledStaysFiled
<1> DEFINE Kept == \A k \in Returns :
             Sealed(k) => /\ Sealed(k)'
                          /\ ret'[k].answers = ret[k].answers /\ ret'[k].signed = ret[k].signed
                          /\ ret'[k].late = ret[k].late
<1>1. IInv /\ [Next]_vars => Kept
  BY SealKept
<1>2. IInv /\ [Next]_vars => [Kept]_vars
  BY <1>1
<1> HIDE DEF Kept
<1>3. Spec => [][Kept]_vars
  BY <1>2, Invariance, PTL DEF Spec
<1> QED BY <1>3 DEF FiledStaysFiled, Kept

(* An approved return is never written again once what was under way has   *)
(* ended, for any number of reviewers and operators trying                 *)
(* (WorkflowService.decide, SubmissionsService).                           *)
THEOREM LockedForGood == Spec => LockedStaysLocked
<1> DEFINE Kept == \A k \in Returns : Closed(k) => Closed(k)' /\ ret'[k] = ret[k]
<1>1. ASSUME IInv, [Next]_vars, NEW k \in Returns, Closed(k)
      PROVE  Closed(k)' /\ ret'[k] = ret[k]
  <2>1. Sealed(k) /\ ret[k].status = "APPROVED" /\ ~Deciding(k)
    BY <1>1 DEF Closed
  <2>2. Sealed(k)' /\ ret'[k] = ret[k]
    BY <1>1, <2>1, SealKept
  <2>3. ~Deciding(k)'
    <3>1. CASE UNCHANGED req
      BY <2>1, <3>1 DEF Deciding
    <3>2. ASSUME NEW s \in Slots, NEW r \in Requests, req' = [req EXCEPT ![s] = r], Started(s, r)
          PROVE  ~Deciding(k)'
      <4>1. ~(r.pc \in {"recordStep", "applyDecision"} /\ r.ret = k)
        BY <2>1, <3>2 DEF Started, InReview, Deciding
      <4>2. \A t \in Slots : req'[t] = IF t = s THEN r ELSE req[t]
        BY <1>1, <3>2 DEF IInv, TypeOK
      <4> QED BY <2>1, <4>1, <4>2 DEF Deciding
    <3> QED BY <1>1, <3>1, <3>2, Starting
  <2> QED BY <2>1, <2>2, <2>3 DEF Closed
<1>2. IInv /\ [Next]_vars => [Kept]_vars
  BY <1>1
<1> HIDE DEF Kept
<1>3. Spec => [][Kept]_vars
  BY <1>2, Invariance, PTL DEF Spec
<1> QED BY <1>3 DEF LockedStaysLocked, Kept

(* A deleted period that holds no live return, with no request under way   *)
(* to open one, never holds one again, for any number of requests          *)
(* (getOrCreateDraft, revise and ReportingPeriodsService).                 *)
THEOREM DeletedForGood == Spec => DeletedStaysEmpty
<1> DEFINE Kept == \A p \in Periods : Emptied(p) => Emptied(p)'
<1>1. ASSUME IInv, [Next]_vars, NEW p \in Periods, Emptied(p)
      PROVE  Emptied(p)'
  <2>1. period[p].deleted /\ ~Opening(p) /\ \A k \in Returns : k[2] = p => ~Live(k)
    BY <1>1 DEF Emptied, LiveIn
  <2>2. period'[p].deleted
    <3>1. ASSUME NEW q \in Periods, OpenPeriod(q) \/ ClosePeriod(q)
          PROVE  period'[p].deleted
      BY <1>1, <2>1, <3>1 DEF OpenPeriod, ClosePeriod, IInv, TypeOK, PeriodRows
    <3>2. ASSUME NEW s \in Slots, DeletePeriod(s)
          PROVE  period'[p].deleted
      BY <1>1, <2>1, <3>2 DEF DeletePeriod, IInv, TypeOK, PeriodRows
    <3>3. CASE UNCHANGED period
      BY <2>1, <3>3
    <3> QED BY <1>1, <3>1, <3>2, <3>3
            DEF Next, vars, OperatorStep, ReviewStep, AuthorityStep, OpenDraft, SaveValues,
                Submit, Revise, Remove, Decide, ReviveDraft, CreateDraft, WriteValues,
                FileReturn, CreateRevision, ReviveRevision, DeleteDraft, RecordStep, Reject,
                Advance, SignOff, ResetStreak, IncrementStreak, RemovePeriod, SetStatus,
                ChangeLicence, Abandon
  <2>3. ASSUME NEW k \in Returns, k[2] = p
        PROVE  ~Live(k)'
    <3>1. CASE ret'[k] = ret[k]
      BY <2>1, <2>3, <3>1 DEF Live, Exists
    <3>2. ASSUME NEW s \in Slots, Written(s, k)
          PROVE  ~Live(k)'
      <4>1. ~(req[s].pc \in {"createDraft", "reviveDraft", "createRevision", "reviveRevision"})
        BY <2>1, <2>3, <3>2 DEF Opening, Written
      <4> QED BY <2>1, <2>3, <3>2, <4>1 DEF Written
    <3> QED BY <1>1, <3>1, <3>2, Writing
  <2>4. ~Opening(p)'
    <3>1. CASE UNCHANGED req
      BY <2>1, <3>1 DEF Opening
    <3>2. ASSUME NEW s \in Slots, NEW r \in Requests, req' = [req EXCEPT ![s] = r], Started(s, r)
          PROVE  ~Opening(p)'
      <4>1. ~(/\ r.pc \in {"createDraft", "reviveDraft", "createRevision", "reviveRevision"}
              /\ r.ret[2] = p)
        <5>1. \A k \in Returns : Later(k)[2] = k[2]
          BY DEF Later
        <5> QED BY <2>1, <3>2, <5>1 DEF Started, Accepts
      <4>2. \A t \in Slots : req'[t] = IF t = s THEN r ELSE req[t]
        BY <1>1, <3>2 DEF IInv, TypeOK
      <4> QED BY <2>1, <4>1, <4>2 DEF Opening
    <3> QED BY <1>1, <3>1, <3>2, Starting
  <2> QED BY <2>2, <2>3, <2>4 DEF Emptied, LiveIn, Live, Exists
<1>2. IInv /\ [Next]_vars => [Kept]_vars
  BY <1>1
<1> HIDE DEF Kept
<1>3. Spec => [][Kept]_vars
  BY <1>2, Invariance, PTL DEF Spec
<1> QED BY <1>3 DEF DeletedStaysEmpty, Kept
=============================================================================
