------------------------- MODULE FilingSerialProofs -------------------------
(***************************************************************************)
(* What holds of Filing while no two requests in flight are about the same *)
(* return, for any number of requests, operators, periods, versions and    *)
(* reviewers: the properties of a return's rows and versions, the streak   *)
(* behind the fast track, and the review lifecycle they implement.  A      *)
(* request may be abandoned between any two of its writes, and requests on *)
(* other returns and the administrators' statements fall between them.     *)
(***************************************************************************)
EXTENDS FilingProofs, FilingRefinement, FiniteSetTheorems

(* The columns of a row agree with one another.                            *)
RowSound(row) ==
  /\ row.signed = Unsigned <=> row.status \in {"ABSENT", "DRAFT"}
  /\ row.stage = "none" <=> row.status \notin {"SUBMITTED", "UNDER_REVIEW"}
  /\ row.locked => row.status = "APPROVED"
  /\ row.deleted => row.status = "DRAFT"
  /\ row.signed # Unsigned => row.answers = row.signed
  /\ \A i, j \in DOMAIN row.trail : i # j => row.trail[i].actor # row.trail[j].actor

RowsSound == \A k \in Returns : RowSound(ret[k])

SameReturn(j, k) == j[1] = k[1] /\ j[2] = k[2]

(* All versions of a return but the last were rejected.                    *)
VersionsInOrder ==
  \A j, k \in Returns :
    SameReturn(j, k) /\ j[3] < k[3] /\ Exists(k) => ret[j].status = "REJECTED"

LiveRow(row) == row.status # "ABSENT" /\ ~row.deleted

(* What a handler found when it read is still so when it writes.           *)
Ready(r, rows, periods) ==
  /\ r.pc \in {"createDraft", "createRevision"} => rows[r.ret].status = "ABSENT"
  /\ r.pc \in {"reviveDraft", "reviveRevision"} => rows[r.ret].deleted
  /\ r.pc \in {"createDraft", "reviveDraft"} => r.ret[3] = 1 /\ ~periods[r.ret[2]].deleted
  /\ r.pc \in {"createRevision", "reviveRevision"}
       => r.ret[3] > 1 /\ LiveRow(rows[Prev(r.ret)]) /\ rows[Prev(r.ret)].status = "REJECTED"
  /\ r.pc \in {"writeValues", "deleteDraft", "file"}
       => LiveRow(rows[r.ret]) /\ rows[r.ret].status = "DRAFT"
  /\ r.pc = "file" => rows[r.ret].answers = r.signed
  /\ r.pc \in {"recordStep", "applyDecision"}
       => /\ rows[r.ret].stage = r.stage /\ rows[r.ret].late = r.late
          /\ LiveRow(rows[r.ret]) /\ rows[r.ret].status \in {"SUBMITTED", "UNDER_REVIEW"}
  /\ r.pc = "recordStep"
       => \A i \in DOMAIN rows[r.ret].trail : rows[r.ret].trail[i].actor # r.actor
  /\ r.pc = "deletePeriod" => \A k \in Returns : k[2] = r.period => ~LiveRow(rows[k])

RequestsReady == \A s \in Slots : Ready(req[s], ret, period)

(* A request about a return, in any of its versions, and the deletion of a *)
(* period it is owed for.  What follows a return's last write, the update  *)
(* of a streak, is about no return.                                        *)
Touches(r, k) ==
  \/ /\ r.pc \notin {"idle", "resetStreak", "incrementStreak", "deletePeriod"}
     /\ SameReturn(r.ret, k)
  \/ r.pc = "deletePeriod" /\ r.period = k[2]

(* No two requests are about one return: what a lock on the return, held   *)
(* from a handler's first read to its last write of it, would see to.  The *)
(* code takes no such lock.  What the theorems below say of it is that the *)
(* handlers are right one at a time, steps that fail included; what holds  *)
(* when they race is in FilingProofs.                                      *)
Apart ==
  \A s, t \in Slots : s # t =>
    \A k \in Returns : ~(Touches(req[s], k) /\ Touches(req[t], k))

SerialInv == IInv /\ RowsSound /\ VersionsInOrder /\ NoStrandedReturn /\ RequestsReady

(* One request at a time is one way to keep them apart.                    *)
LEMMA OneAtATime == ASSUME \A s, t \in Slots : s = t PROVE Apart
  BY DEF Apart

(* A step of one request leaves the others where they are.                 *)
LEMMA OthersServed ==
  ASSUME TypeOK, NEW s \in Slots, NEW r, req' = [req EXCEPT ![s] = r]
  PROVE  \A t \in Slots : req'[t] = IF t = s THEN r ELSE req[t]
  BY DEF TypeOK

(* A request that has nothing to rely on.                                  *)
LEMMA IdleReady ==
  ASSUME NEW rows, NEW periods
  PROVE  /\ Ready(Idle, rows, periods)
         /\ \A e : /\ Ready([pc |-> "resetStreak", entity |-> e], rows, periods)
                   /\ Ready([pc |-> "incrementStreak", entity |-> e], rows, periods)
  BY DEF Ready, Idle

(* A write to a return a request is not about leaves it ready.             *)
LEMMA ReadyElsewhere ==
  ASSUME TypeOK, NEW t \in Slots, Ready(req[t], ret, period),
         NEW k \in Returns, ~Touches(req[t], k),
         \A j \in Returns : ret'[j] = ret[j] \/ (j = k), UNCHANGED period
  PROVE  Ready(req[t], ret', period')
<1> DEFINE q == req[t]
<1>1. CASE q.pc \in {"idle", "resetStreak", "incrementStreak"}
  BY <1>1 DEF Ready
<1>2. CASE q.pc = "deletePeriod"
  BY <1>2 DEF Ready, Touches
<1>3. CASE q.pc \in {"createRevision", "reviveRevision"}
  <2>1. /\ q.ret \in Returns /\ Prev(q.ret) \in Returns
        /\ ~SameReturn(q.ret, k) /\ ~SameReturn(Prev(q.ret), k)
    BY <1>3, RequestFields, PrevVersion DEF Touches, SameReturn, Prev, Ready
  <2>2. q.ret # k /\ Prev(q.ret) # k
    BY <2>1 DEF SameReturn
  <2>3. ret'[q.ret] = ret[q.ret] /\ ret'[Prev(q.ret)] = ret[Prev(q.ret)]
    BY <2>1, <2>2
  <2> QED BY <1>3, <2>3 DEF Ready
<1>4. CASE q.pc \in {"createDraft", "reviveDraft", "deleteDraft", "writeValues", "file",
                    "recordStep", "applyDecision"}
  <2>1. q.ret \in Returns /\ ~SameReturn(q.ret, k)
    BY <1>4, RequestFields DEF Touches
  <2>2. ret'[q.ret] = ret[q.ret]
    BY <2>1 DEF SameReturn
  <2> QED BY <1>4, <2>2 DEF Ready
<1>5. q.pc \in {"idle", "resetStreak", "incrementStreak", "deletePeriod", "createRevision",
                "reviveRevision", "createDraft", "reviveDraft", "deleteDraft", "writeValues",
                "file", "recordStep", "applyDecision"}
  <2>1. q \in Requests
    BY RequestFields
  <2> HIDE DEF q
  <2> QED BY <2>1 DEF Requests, Idle
<1> QED BY <1>1, <1>2, <1>3, <1>4, <1>5

(* A step that leaves the tables alone.                                    *)
LEMMA SerialRead ==
  ASSUME SerialInv, IInv', UNCHANGED <<ret, period>>,
         NEW s \in Slots, NEW r, req' = [req EXCEPT ![s] = r], Ready(r, ret, period)
  PROVE  SerialInv'
<1>1. RequestsReady'
  BY OthersServed DEF SerialInv, IInv, RequestsReady
<1>2. RowsSound' /\ VersionsInOrder' /\ NoStrandedReturn'
  BY DEF SerialInv, RowsSound, VersionsInOrder, NoStrandedReturn, Exists, Live
<1> QED BY <1>1, <1>2 DEF SerialInv

(* A step that writes one row.  The row was not rejected, so no version    *)
(* after it exists; if it is new, the one before it was rejected; and it   *)
(* does not come to life in a deleted period.                              *)
LEMMA SerialWrite ==
  ASSUME Apart, SerialInv, IInv', UNCHANGED period,
         NEW k \in Returns, NEW row, EditRow(k, row),
         RowSound(row), row.status # "ABSENT", ret[k].status # "REJECTED",
         Exists(k) \/ k[3] = 1 \/ ret[Prev(k)].status = "REJECTED",
         row.deleted \/ Live(k) \/ ~period[k[2]].deleted,
         NEW s \in Slots, Touches(req[s], k),
         NEW r, req' = [req EXCEPT ![s] = r], Ready(r, ret', period')
  PROVE  SerialInv'
<1>1. \A j \in Returns : ret'[j] = IF j = k THEN row ELSE ret[j]
  BY DEF EditRow, SerialInv, IInv, TypeOK
<1>2. RequestsReady'
  <2>1. \A t \in Slots : req'[t] = IF t = s THEN r ELSE req[t]
    <3>1. req \in [Slots -> Requests]
      BY DEF SerialInv, IInv, TypeOK
    <3> QED BY <3>1
  <2>2. ASSUME NEW t \in Slots, t # s PROVE Ready(req[t], ret', period')
    <3>1. ~Touches(req[t], k)
      BY <2>2 DEF Apart
    <3> QED BY <1>1, <3>1, ReadyElsewhere DEF SerialInv, IInv, RequestsReady
  <2> QED BY <2>1, <2>2 DEF RequestsReady
<1>3. RowsSound'
  BY <1>1 DEF SerialInv, RowsSound
<1>4. NoStrandedReturn'
  BY <1>1 DEF SerialInv, NoStrandedReturn, Live, Exists
<1>5. VersionsInOrder'
  <2> SUFFICES ASSUME NEW i \in Returns, NEW j \in Returns,
                      SameReturn(i, j), i[3] < j[3], Exists(j)'
               PROVE  ret'[i].status = "REJECTED"
    BY DEF VersionsInOrder
  <2>1. CASE j # k
    <3>1. Exists(j) /\ ret[i].status = "REJECTED"
      BY <1>1, <2>1 DEF Exists, SerialInv, VersionsInOrder
    <3> QED BY <1>1, <3>1
  <2>2. CASE j = k
    <3>1. ret'[i] = ret[i]
      BY <1>1, <2>2 DEF Returns, Versions
    <3>2. CASE Exists(k)
      BY <2>2, <3>1, <3>2 DEF SerialInv, VersionsInOrder
    <3>3. CASE k[3] = 1
      BY <2>2, <3>3 DEF Returns, Versions
    <3>4. CASE k[3] > 1 /\ ret[Prev(k)].status = "REJECTED"
      <4>1. Prev(k) \in Returns /\ SameReturn(i, Prev(k)) /\ Exists(Prev(k))
        BY <2>2, <3>4, PrevVersion DEF Exists, SameReturn, Prev
      <4>2. i = Prev(k) \/ i[3] < Prev(k)[3]
        BY <2>2, <3>4 DEF Returns, Versions, Prev, SameReturn
      <4> QED BY <3>1, <3>4, <4>1, <4>2 DEF SerialInv, VersionsInOrder
    <3>5. k[3] = 1 \/ k[3] > 1
      BY DEF Returns, Versions
    <3> QED BY <3>2, <3>3, <3>4, <3>5
  <2> QED BY <2>1, <2>2
<1> QED BY <1>2, <1>3, <1>4, <1>5 DEF SerialInv

-----------------------------------------------------------------------------
(* What the requests read.                                                 *)

LEMMA SerialReads ==
  ASSUME SerialInv, IInv', NEW s \in Slots,
         \/ \E e \in Entities, p \in Periods : OpenDraft(s, e, p)
         \/ \E k \in Returns : Submit(s, k) \/ Revise(s, k) \/ Remove(s, k)
         \/ \E k \in Returns, content \in Content : SaveValues(s, k, content)
         \/ \E u \in Reviewers, stage \in Stages, k \in Returns, decision \in Decisions :
              Decide(s, u, stage, k, decision)
         \/ \E p \in Periods : RemovePeriod(s, p)
  PROVE  SerialInv'
<1>1. ASSUME NEW e \in Entities, NEW p \in Periods, OpenDraft(s, e, p)
      PROVE  SerialInv'
  <2> DEFINE k == <<e, p, 1>>
             next == IF ret[k].deleted /\ ret[k].status = "DRAFT" THEN "reviveDraft" ELSE "createDraft"
             r == [pc |-> next, ret |-> k]
  <2>1. k \in Returns /\ k \in Of(e, p) /\ k[3] = 1 /\ k[2] = p
    BY FirstVersion DEF Of
  <2>2. RowSound(ret[k]) /\ ~Live(k) /\ ~period[p].deleted
    BY <1>1, <2>1 DEF OpenDraft, Accepts, SerialInv, RowsSound
  <2>3. r.pc = next /\ r.ret = k /\ next \in {"createDraft", "reviveDraft"}
    OBVIOUS
  <2>4. /\ next = "createDraft" => ret[k].status = "ABSENT"
        /\ next = "reviveDraft" => ret[k].deleted
    BY <2>2 DEF RowSound, Live, Exists
  <2>5. req' = [req EXCEPT ![s] = r] /\ UNCHANGED <<ret, period>>
    BY <1>1 DEF OpenDraft, Begin
  <2> HIDE DEF r, next, k
  <2>6. Ready(r, ret, period)
    BY <2>1, <2>2, <2>3, <2>4 DEF Ready
  <2> QED BY <2>5, <2>6, SerialRead
<1>2. ASSUME NEW k \in Returns, Submit(s, k)
      PROVE  SerialInv'
  <2>1. PICK late \in BOOLEAN, changed \in BOOLEAN :
          Begin(s, [pc |-> "file", ret |-> k, signed |-> ret[k].answers, late |-> late,
                    fast |-> ~late /\ ~changed /\ streak[k[1]] >= FastTrackStreak,
                    changed |-> changed])
    BY <1>2 DEF Submit
  <2> DEFINE r == [pc |-> "file", ret |-> k, signed |-> ret[k].answers, late |-> late,
                   fast |-> ~late /\ ~changed /\ streak[k[1]] >= FastTrackStreak,
                   changed |-> changed]
  <2>2. Ready(r, ret, period)
    BY <1>2 DEF Ready, Submit, MayEdit, Live, LiveRow, Exists
  <2>3. req' = [req EXCEPT ![s] = r] /\ UNCHANGED <<ret, period>>
    BY <1>2, <2>1 DEF Submit, Begin
  <2> HIDE DEF r
  <2> QED BY <2>2, <2>3, SerialRead
<1>3. ASSUME NEW k \in Returns, Revise(s, k)
      PROVE  SerialInv'
  <2>1. Later(k) \in Returns /\ Prev(Later(k)) = k /\ Later(k)[3] > 1
    BY <1>3, LaterVersion, MaxVersionAssumption DEF Revise, Later, Returns, Versions
  <2>2. LiveRow(ret[k]) /\ ret[k].status = "REJECTED"
    BY <1>3 DEF Revise, MayRevise, Live, LiveRow, Exists
  <2>3. CASE ~Exists(Later(k)) /\ Begin(s, [pc |-> "createRevision", ret |-> Later(k), answers |-> ret[k].answers])
    <3> DEFINE r == [pc |-> "createRevision", ret |-> Later(k), answers |-> ret[k].answers]
    <3>1. Ready(r, ret, period)
      BY <2>1, <2>2, <2>3 DEF Ready, Exists
    <3>2. req' = [req EXCEPT ![s] = r] /\ UNCHANGED <<ret, period>>
      BY <1>3, <2>3 DEF Revise, Begin
    <3> HIDE DEF r
    <3> QED BY <3>1, <3>2, SerialRead
  <2>4. CASE Reclaimable(Later(k)) /\ Begin(s, [pc |-> "reviveRevision", ret |-> Later(k)])
    <3> DEFINE r == [pc |-> "reviveRevision", ret |-> Later(k)]
    <3>1. Ready(r, ret, period)
      BY <2>1, <2>2, <2>4 DEF Ready, Reclaimable
    <3>2. req' = [req EXCEPT ![s] = r] /\ UNCHANGED <<ret, period>>
      BY <1>3, <2>4 DEF Revise, Begin
    <3> HIDE DEF r
    <3> QED BY <3>1, <3>2, SerialRead
  <2> QED BY <1>3, <2>3, <2>4 DEF Revise
<1>4. ASSUME NEW k \in Returns, Remove(s, k)
      PROVE  SerialInv'
  <2> DEFINE r == [pc |-> "deleteDraft", ret |-> k]
  <2>1. Ready(r, ret, period)
    BY <1>4 DEF Ready, Remove, MayEdit, Live, LiveRow, Exists
  <2>2. req' = [req EXCEPT ![s] = r] /\ UNCHANGED <<ret, period>>
    BY <1>4 DEF Remove, Begin
  <2> HIDE DEF r
  <2> QED BY <2>1, <2>2, SerialRead
<1>5. ASSUME NEW k \in Returns, NEW content \in Content, SaveValues(s, k, content)
      PROVE  SerialInv'
  <2> DEFINE r == [pc |-> "writeValues", ret |-> k, answers |-> content]
  <2>1. Ready(r, ret, period)
    BY <1>5 DEF Ready, SaveValues, MayEdit, Live, LiveRow, Exists
  <2>2. req' = [req EXCEPT ![s] = r] /\ UNCHANGED <<ret, period>>
    BY <1>5 DEF SaveValues, Begin
  <2> HIDE DEF r
  <2> QED BY <2>1, <2>2, SerialRead
<1>6. ASSUME NEW u \in Reviewers, NEW stage \in Stages, NEW k \in Returns,
             NEW decision \in Decisions, Decide(s, u, stage, k, decision)
      PROVE  SerialInv'
  <2> DEFINE r == [pc |-> "recordStep", ret |-> k, stage |-> stage, decision |-> decision,
                   actor |-> u, late |-> ret[k].late]
  <2>1. Ready(r, ret, period)
    BY <1>6 DEF Ready, Decide, Awaiting, Reviewed, InReview, Live, LiveRow, Exists
  <2>2. req' = [req EXCEPT ![s] = r] /\ UNCHANGED <<ret, period>>
    BY <1>6 DEF Decide, Begin
  <2> HIDE DEF r
  <2> QED BY <2>1, <2>2, SerialRead
<1>7. ASSUME NEW p \in Periods, RemovePeriod(s, p)
      PROVE  SerialInv'
  <2> DEFINE r == [pc |-> "deletePeriod", period |-> p]
  <2>1. Ready(r, ret, period)
    BY <1>7 DEF Ready, RemovePeriod, LiveIn, Live, LiveRow, Exists
  <2>2. req' = [req EXCEPT ![s] = r] /\ UNCHANGED <<ret, period>>
    BY <1>7 DEF RemovePeriod, Begin
  <2> HIDE DEF r
  <2> QED BY <2>1, <2>2, SerialRead
<1> QED BY <1>1, <1>2, <1>3, <1>4, <1>5, <1>6, <1>7

-----------------------------------------------------------------------------
(* What the requests write.                                                *)

(* The columns that agree in a draft agree in another with the same ones.  *)
LEMMA DraftSound ==
  ASSUME NEW old, NEW row, RowSound(old), old.status = "DRAFT", row.status = "DRAFT",
         row.signed = old.signed, row.stage = old.stage, row.locked = old.locked,
         row.trail = old.trail
  PROVE  RowSound(row)
  BY DEF RowSound

(* A rejected return has a period to be revised in.                        *)
LEMMA RevisionPeriod ==
  ASSUME SerialInv, NEW k \in Returns, k[3] > 1, LiveRow(ret[Prev(k)])
  PROVE  Prev(k) \in Returns /\ ~period[k[2]].deleted
<1>1. Prev(k) \in Returns /\ Prev(k)[2] = k[2]
  BY PrevVersion DEF Prev
<1> QED BY <1>1 DEF SerialInv, NoStrandedReturn, Live, LiveRow, Exists

(* The writes to a draft that is there: reclaimed, answered or deleted.    *)
LEMMA SerialDrafts ==
  ASSUME Apart, SerialInv, IInv', NEW s \in Slots,
         ReviveDraft(s) \/ WriteValues(s) \/ ReviveRevision(s) \/ DeleteDraft(s)
  PROVE  SerialInv'
<1> DEFINE k == req[s].ret
           old == ret[k]
<1>1. k \in Returns /\ old \in Rows /\ RowSound(old) /\ Exists(k) /\ Ready(req[s], ret, period)
  <2>1. k \in Returns
    BY RequestFields DEF SerialInv, IInv, ReviveDraft, WriteValues, ReviveRevision, DeleteDraft, At
  <2>2. Backed(req[s], ret) /\ Ready(req[s], ret, period)
    BY DEF SerialInv, IInv, RequestsBacked, RequestsReady
  <2> QED BY <2>1, <2>2 DEF Backed, SerialInv, IInv, TypeOK, RowsSound, Exists,
                            ReviveDraft, WriteValues, ReviveRevision, DeleteDraft, At
<1>2. old.status = "DRAFT"
  BY <1>1 DEF Ready, RowSound, ReviveDraft, WriteValues, ReviveRevision, DeleteDraft, At
<1>3. PICK row :
        /\ EditRow(k, row) /\ row.status = "DRAFT"
        /\ row.signed = old.signed /\ row.stage = old.stage /\ row.locked = old.locked
        /\ row.trail = old.trail
        /\ row.deleted \/ Live(k) \/ ~period[k[2]].deleted
  <2>1. CASE ReviveDraft(s)
    <3>1. ~period[k[2]].deleted
      BY <1>1, <2>1 DEF Ready, ReviveDraft, At
    <3> DEFINE row == Cleared(old)
    <3>2. EditRow(k, row)
      BY <2>1 DEF ReviveDraft
    <3>3. /\ row.status = "DRAFT" /\ row.signed = old.signed /\ row.stage = old.stage
          /\ row.locked = old.locked /\ row.trail = old.trail
      BY <1>1, <1>2 DEF Cleared, Rows
    <3> HIDE DEF row
    <3> QED BY <3>1, <3>2, <3>3
  <2>2. CASE WriteValues(s)
    <3>1. Live(k)
      BY <1>1, <2>2 DEF Ready, WriteValues, At, Live, LiveRow, Exists
    <3> QED BY <1>1, <1>2, <2>2, <3>1 DEF WriteValues, Rows
  <2>3. CASE ReviveRevision(s)
    <3>1. ~period[k[2]].deleted
      BY <1>1, <2>3, RevisionPeriod DEF Ready, ReviveRevision, At
    <3> DEFINE row == [Cleared(old) EXCEPT !.status = "DRAFT"]
    <3>2. EditRow(k, row)
      BY <2>3 DEF ReviveRevision
    <3>3. /\ row.status = "DRAFT" /\ row.signed = old.signed /\ row.stage = old.stage
          /\ row.locked = old.locked /\ row.trail = old.trail
      BY <1>1, <1>2 DEF Cleared, Rows
    <3> HIDE DEF row
    <3> QED BY <3>1, <3>2, <3>3
  <2>4. CASE DeleteDraft(s)
    BY <1>1, <1>2, <2>4 DEF DeleteDraft, Rows
  <2> QED BY <2>1, <2>2, <2>3, <2>4
<1>4. RowSound(row)
  BY <1>1, <1>2, <1>3, DraftSound
<1>5. req' = [req EXCEPT ![s] = Idle] /\ UNCHANGED period /\ Ready(Idle, ret', period')
  BY IdleReady DEF ReviveDraft, WriteValues, ReviveRevision, DeleteDraft, Finish, Continue
<1>6. Touches(req[s], k)
  BY DEF Touches, SameReturn, ReviveDraft, WriteValues, ReviveRevision, DeleteDraft, At
<1> HIDE DEF k, old
<1> QED BY <1>1, <1>2, <1>3, <1>4, <1>5, <1>6, SerialWrite DEF old

(* The inserts, of a draft and of a revision.                              *)
LEMMA SerialCreations ==
  ASSUME Apart, SerialInv, IInv', NEW s \in Slots,
         CreateDraft(s) \/ CreateRevision(s)
  PROVE  SerialInv'
<1> DEFINE k == req[s].ret
<1>1. Ready(req[s], ret, period) /\ k \in Returns
  BY RequestFields DEF SerialInv, IInv, RequestsReady, CreateDraft, CreateRevision, At
<1>2. /\ ret[k].status = "ABSENT" /\ ~Exists(k)
      /\ k[3] = 1 \/ ret[Prev(k)].status = "REJECTED"
      /\ ~period[k[2]].deleted
  <2>1. CASE CreateDraft(s)
    BY <1>1, <2>1 DEF Ready, CreateDraft, At, Exists
  <2>2. CASE CreateRevision(s)
    BY <1>1, <2>2, RevisionPeriod DEF Ready, CreateRevision, At, Exists
  <2> QED BY <2>1, <2>2
<1>3. PICK content : EditRow(k, Draft(content))
  BY <1>2 DEF CreateDraft, CreateRevision, EditRow
<1>4. RowSound(Draft(content)) /\ Draft(content).status = "DRAFT"
  BY DEF RowSound, Draft, Absent
<1>5. req' = [req EXCEPT ![s] = Idle] /\ UNCHANGED period /\ Ready(Idle, ret', period')
  BY IdleReady DEF CreateDraft, CreateRevision, Finish, Continue
<1>6. Touches(req[s], k)
  BY DEF Touches, SameReturn, CreateDraft, CreateRevision, At
<1> HIDE DEF k
<1> QED BY <1>1, <1>2, <1>3, <1>4, <1>5, <1>6, SerialWrite

(* A draft that is filed.                                                  *)
LEMMA SerialFilings ==
  ASSUME Apart, SerialInv, IInv', NEW s \in Slots, FileReturn(s)
  PROVE  SerialInv'
<1> DEFINE r == req[s]
           k == r.ret
           old == ret[k]
           row == [old EXCEPT !.status = "SUBMITTED",
                              !.stage  = IF r.fast THEN "VERIFIER" ELSE "CHECKER",
                              !.late   = r.late,
                              !.fast   = @ \/ r.fast,
                              !.signed = r.signed]
           reset == [pc |-> "resetStreak", entity |-> k[1]]
<1>1. /\ k \in Returns /\ old \in Rows /\ r.fast \in BOOLEAN /\ r.signed \in Content
      /\ RowSound(old) /\ Ready(r, ret, period)
  <2>1. k \in Returns /\ r.fast \in BOOLEAN /\ r.signed \in Content
    BY RequestFields DEF SerialInv, IInv, FileReturn, At
  <2> QED BY <2>1 DEF SerialInv, IInv, TypeOK, RowsSound, RequestsReady
<1>2. old.status = "DRAFT" /\ Live(k) /\ Exists(k) /\ old.answers = r.signed
  BY <1>1 DEF Ready, FileReturn, At, Live, LiveRow, Exists
<1>3. EditRow(k, row) /\ UNCHANGED period
  BY <1>2 DEF FileReturn, StillDraft
<1>4. /\ row.status = "SUBMITTED" /\ row.stage # "none" /\ row.signed = r.signed
      /\ row.locked = old.locked /\ row.deleted = old.deleted /\ row.trail = old.trail
      /\ row.answers = old.answers
  BY <1>1 DEF Rows
<1>5. PICK next : req' = [req EXCEPT ![s] = next] /\ Ready(next, ret', period')
  <2>1. PICK next : req' = [req EXCEPT ![s] = next] /\ next \in {Idle, reset}
    BY DEF FileReturn, Finish, Continue
  <2> QED BY <2>1, IdleReady
<1> HIDE DEF row
<1>6. RowSound(row)
  BY <1>1, <1>2, <1>4, ContentAssumption DEF RowSound, Live
<1>7. Touches(req[s], k)
  BY DEF Touches, SameReturn, FileReturn, At
<1> HIDE DEF k, old
<1> QED BY <1>1, <1>2, <1>3, <1>4, <1>5, <1>6, <1>7, SerialWrite DEF old

(* A step of an actor the trail does not know keeps its actors apart.      *)
LEMMA ActorsApart ==
  ASSUME NEW trail \in Seq(Steps), NEW step \in Steps,
         \A i, j \in DOMAIN trail : i # j => trail[i].actor # trail[j].actor,
         \A i \in DOMAIN trail : trail[i].actor # step.actor
  PROVE  LET longer == Append(trail, step)
         IN  \A i, j \in DOMAIN longer : i # j => longer[i].actor # longer[j].actor
<1> DEFINE longer == Append(trail, step)
<1>1. /\ DOMAIN trail = 1..Len(trail) /\ Len(trail) \in Nat
      /\ DOMAIN longer = 1..(Len(trail) + 1)
      /\ \A i \in 1..Len(trail) : longer[i] = trail[i]
      /\ longer[Len(trail) + 1] = step
  OBVIOUS
<1> HIDE DEF longer
<1>2. \A i \in DOMAIN longer : i \in DOMAIN trail \/ i = Len(trail) + 1
  BY <1>1
<1>3. ASSUME NEW i \in DOMAIN longer, NEW j \in DOMAIN longer, i # j
      PROVE  longer[i].actor # longer[j].actor
  <2>1. CASE i \in DOMAIN trail /\ j \in DOMAIN trail
    BY <1>1, <1>3, <2>1
  <2>2. CASE i \in DOMAIN trail /\ j = Len(trail) + 1
    BY <1>1, <2>2
  <2>3. CASE i = Len(trail) + 1 /\ j \in DOMAIN trail
    BY <1>1, <2>3
  <2> QED BY <1>2, <1>3, <2>1, <2>2, <2>3
<1> QED BY <1>3 DEF longer

(* A decision that is put on the trail.                                    *)
LEMMA SerialRecording ==
  ASSUME Apart, SerialInv, IInv', NEW s \in Slots, RecordStep(s)
  PROVE  SerialInv'
<1> DEFINE r == req[s]
           k == r.ret
           old == ret[k]
           step == [stage |-> r.stage, decision |-> r.decision, actor |-> r.actor]
           row == [old EXCEPT !.trail = Append(@, step)]
           next == [r EXCEPT !.pc = "applyDecision"]
<1>1. /\ k \in Returns /\ step \in Steps
      /\ r \in [pc : {"recordStep", "applyDecision"}, ret : Returns, stage : Stages,
                decision : Decisions, actor : Reviewers, late : BOOLEAN]
  BY RequestFields DEF SerialInv, IInv, RecordStep, At, Steps
<1>2. /\ old \in Rows /\ RowSound(old)
      /\ old.stage = r.stage /\ old.late = r.late
      /\ LiveRow(old) /\ old.status \in {"SUBMITTED", "UNDER_REVIEW"}
      /\ \A i \in DOMAIN old.trail : old.trail[i].actor # r.actor
  BY <1>1 DEF SerialInv, IInv, TypeOK, RowsSound, RequestsReady, Ready, RecordStep, At
<1>3. /\ row.trail = Append(old.trail, step) /\ row.stage = old.stage /\ row.late = old.late
      /\ row.locked = old.locked /\ row.status = old.status /\ row.deleted = old.deleted
      /\ row.signed = old.signed /\ row.answers = old.answers
  BY <1>2 DEF Rows
<1>4. /\ next.pc = "applyDecision" /\ next.ret = k /\ next.stage = r.stage
      /\ next.late = r.late
  BY <1>1
<1>5. EditRow(k, row) /\ req' = [req EXCEPT ![s] = next] /\ UNCHANGED period
  BY DEF RecordStep, Continue
<1>6. ret'[k] = row
  BY <1>1, <1>5 DEF EditRow, SerialInv, IInv, TypeOK
<1> HIDE DEF row, next
<1>7. Ready(next, ret', period')
  BY <1>2, <1>3, <1>4, <1>6 DEF Ready, LiveRow
<1>8. RowSound(row)
  <2>1. old.trail \in Seq(Steps) /\ step.actor = r.actor
    BY <1>2 DEF Rows
  <2>2. \A i, j \in DOMAIN old.trail : i # j => old.trail[i].actor # old.trail[j].actor
    BY <1>2 DEF RowSound
  <2> HIDE DEF old, step
  <2>3. \A i, j \in DOMAIN row.trail : i # j => row.trail[i].actor # row.trail[j].actor
    BY <1>1, <1>2, <1>3, <2>1, <2>2, ActorsApart
  <2> QED BY <1>2, <1>3, <2>3 DEF RowSound
<1>9. Live(k) /\ Exists(k) /\ row.status # "ABSENT" /\ old.status # "REJECTED"
  BY <1>2, <1>3 DEF Live, LiveRow, Exists
<1>10. Touches(req[s], k)
  BY DEF Touches, SameReturn, RecordStep, At
<1> HIDE DEF k, old
<1> QED BY <1>1, <1>5, <1>7, <1>8, <1>9, <1>10, SerialWrite DEF old

(* A decision that is applied to the row.                                  *)
LEMMA SerialApplying ==
  ASSUME Apart, SerialInv, IInv', NEW s \in Slots,
         Reject(s) \/ Advance(s) \/ SignOff(s)
  PROVE  SerialInv'
<1> DEFINE r == req[s]
           k == r.ret
           old == ret[k]
<1>1. /\ k \in Returns /\ r.stage \in Stages /\ old \in Rows /\ RowSound(old)
      /\ LiveRow(old) /\ old.status \in {"SUBMITTED", "UNDER_REVIEW"}
  <2>1. k \in Returns /\ r.stage \in Stages
    BY RequestFields DEF SerialInv, IInv, Reject, Advance, SignOff, At
  <2> QED BY <2>1 DEF SerialInv, IInv, TypeOK, RowsSound, RequestsReady, Ready,
                      Reject, Advance, SignOff, At
<1>2. PICK next : req' = [req EXCEPT ![s] = next] /\ Ready(next, ret', period')
  <2>1. \E next \in {Idle, [pc |-> "resetStreak", entity |-> k[1]],
                     [pc |-> "incrementStreak", entity |-> k[1]]} :
          req' = [req EXCEPT ![s] = next]
    BY DEF Reject, Advance, SignOff, Finish, Continue
  <2> QED BY <2>1, IdleReady
<1>3. PICK row :
        /\ EditRow(k, row)
        /\ row.trail = old.trail /\ row.deleted = old.deleted
        /\ row.signed = old.signed /\ row.answers = old.answers
        /\ \/ row.status = "REJECTED" /\ row.stage = "none" /\ row.locked = old.locked
           \/ row.status = "UNDER_REVIEW" /\ row.stage # "none" /\ row.locked = old.locked
           \/ row.status = "APPROVED" /\ row.stage = "none"
  <2>1. CASE Reject(s)
    <3> DEFINE row == [old EXCEPT !.status = "REJECTED", !.stage = "none"]
    <3>1. EditRow(k, row)
      BY <2>1 DEF Reject
    <3>2. /\ row.trail = old.trail /\ row.deleted = old.deleted /\ row.signed = old.signed
          /\ row.answers = old.answers /\ row.locked = old.locked
          /\ row.status = "REJECTED" /\ row.stage = "none"
      BY <1>1 DEF Rows
    <3> HIDE DEF row
    <3> QED BY <3>1, <3>2
  <2>2. CASE Advance(s)
    <3> DEFINE row == [old EXCEPT !.status = "UNDER_REVIEW", !.stage = NextStage[r.stage]]
    <3>1. EditRow(k, row) /\ NextStage[r.stage] # "none"
      BY <1>1, <2>2 DEF Advance, NextStage, Stages
    <3>2. /\ row.trail = old.trail /\ row.deleted = old.deleted /\ row.signed = old.signed
          /\ row.answers = old.answers /\ row.locked = old.locked
          /\ row.status = "UNDER_REVIEW" /\ row.stage = NextStage[r.stage]
      BY <1>1 DEF Rows
    <3> HIDE DEF row
    <3> QED BY <3>1, <3>2
  <2>3. CASE SignOff(s)
    <3> DEFINE row == [old EXCEPT !.status = "APPROVED", !.stage = "none", !.locked = TRUE]
    <3>1. EditRow(k, row)
      BY <2>3 DEF SignOff
    <3>2. /\ row.trail = old.trail /\ row.deleted = old.deleted /\ row.signed = old.signed
          /\ row.answers = old.answers /\ row.status = "APPROVED" /\ row.stage = "none"
      BY <1>1 DEF Rows
    <3> HIDE DEF row
    <3> QED BY <3>1, <3>2
  <2> QED BY <2>1, <2>2, <2>3
<1>4. RowSound(row)
  BY <1>1, <1>3 DEF RowSound, LiveRow
<1>5. Live(k) /\ Exists(k) /\ row.status # "ABSENT" /\ old.status # "REJECTED"
  BY <1>1, <1>3 DEF Live, LiveRow, Exists
<1>6. UNCHANGED period /\ Touches(req[s], k)
  BY DEF Reject, Advance, SignOff, Touches, SameReturn, At
<1> HIDE DEF k, old
<1> QED BY <1>1, <1>2, <1>3, <1>4, <1>5, <1>6, SerialWrite DEF old

(* The administrators' statements, among them the deletion of a period.    *)
LEMMA SerialAuthority ==
  ASSUME Apart, SerialInv, IInv',
         \/ \E p \in Periods : OpenPeriod(p) \/ ClosePeriod(p)
         \/ \E s \in Slots : DeletePeriod(s)
         \/ \E e \in Entities : ChangeLicence(e) \/ (\E b \in BOOLEAN : SetStatus(e, b))
  PROVE  SerialInv'
<1>1. period \in [Periods -> PeriodRows] /\ \A k \in Returns : k[2] \in Periods
  BY DEF SerialInv, IInv, TypeOK, Returns
<1>2. CASE UNCHANGED <<ret, req>> /\ \A p \in Periods : period'[p].deleted = period[p].deleted
  <2>1. RowsSound' /\ VersionsInOrder' /\ NoStrandedReturn'
    BY <1>1, <1>2 DEF SerialInv, RowsSound, VersionsInOrder, NoStrandedReturn, Live, Exists
  <2>2. ASSUME NEW s \in Slots
        PROVE  Ready(req'[s], ret', period')
    <3>1. req[s].pc \in {"createDraft", "reviveDraft"} => req[s].ret \in Returns
      BY RequestFields DEF SerialInv, IInv
    <3> QED BY <1>1, <1>2, <3>1 DEF SerialInv, RequestsReady, Ready
  <2> QED BY <2>1, <2>2 DEF SerialInv, RequestsReady
<1>3. ASSUME NEW s \in Slots, DeletePeriod(s)
      PROVE  SerialInv'
  <2> DEFINE p == req[s].period
  <2>1. p \in Periods /\ \A k \in Returns : k[2] = p => ~Live(k)
    BY <1>3, RequestFields DEF DeletePeriod, At, SerialInv, IInv, RequestsReady, Ready, Live, LiveRow, Exists
  <2>2. UNCHANGED ret /\ \A q \in Periods : q # p => period'[q] = period[q]
    BY <1>1, <1>3 DEF DeletePeriod
  <2>3. NoStrandedReturn'
    BY <1>1, <2>1, <2>2 DEF SerialInv, NoStrandedReturn, Live, Exists
  <2>4. RequestsReady'
    <3>1. req' = [req EXCEPT ![s] = Idle] /\ Ready(Idle, ret', period')
      BY <1>3, IdleReady DEF DeletePeriod, Finish, Continue
    <3>2. ASSUME NEW t \in Slots, t # s PROVE Ready(req[t], ret', period')
      <4>1. ASSUME req[t].pc \in {"createDraft", "reviveDraft"}
            PROVE  period'[req[t].ret[2]] = period[req[t].ret[2]]
        <5>1. req[t].ret \in Returns /\ Touches(req[t], req[t].ret)
          BY <4>1, RequestFields DEF SerialInv, IInv, Touches, SameReturn
        <5>2. ~Touches(req[s], req[t].ret)
          BY <3>2, <5>1 DEF Apart
        <5>3. req[t].ret[2] # p
          BY <1>3, <5>2 DEF Touches, DeletePeriod, At
        <5> QED BY <1>1, <2>2, <5>1, <5>3
      <4>2. Ready(req[t], ret, period) /\ ret' = ret
        BY <2>2 DEF SerialInv, RequestsReady
      <4> QED BY <4>1, <4>2 DEF Ready
    <3>3. \A t \in Slots : req'[t] = IF t = s THEN Idle ELSE req[t]
      <4>1. TypeOK
        BY DEF SerialInv, IInv
      <4> QED BY <3>1, <4>1, OthersServed
    <3> QED BY <3>1, <3>2, <3>3 DEF RequestsReady
  <2> QED BY <2>2, <2>3, <2>4 DEF SerialInv, RowsSound, VersionsInOrder, Exists
<1>4. ASSUME NEW p \in Periods, OpenPeriod(p) \/ ClosePeriod(p)
      PROVE  \A q \in Periods : period'[q].deleted = period[q].deleted
  BY <1>1, <1>4 DEF OpenPeriod, ClosePeriod, PeriodRows
<1> QED BY <1>2, <1>3, <1>4 DEF OpenPeriod, ClosePeriod, ChangeLicence, SetStatus

(* Every step preserves the invariant while requests are kept apart.       *)
LEMMA SerialStep ==
  ASSUME Apart, SerialInv, [Next]_vars
  PROVE  SerialInv'
<1>1. IInv'
  BY StepInv DEF SerialInv
<1>2. CASE UNCHANGED vars
  BY <1>1, <1>2 DEF vars, SerialInv, RowsSound, VersionsInOrder, NoStrandedReturn, RequestsReady,
                    Exists, Live
<1>3. ASSUME NEW s \in Slots, ResetStreak(s) \/ IncrementStreak(s) \/ Abandon(s)
      PROVE  SerialInv'
  <2>1. req' = [req EXCEPT ![s] = Idle] /\ UNCHANGED <<ret, period>>
    BY <1>3 DEF ResetStreak, IncrementStreak, Abandon, Finish, Continue
  <2> QED BY <1>1, <2>1, IdleReady, SerialRead
<1>4. ASSUME NEW s \in Slots, OperatorStep(s)
      PROVE  SerialInv'
  BY <1>1, <1>4, SerialReads, SerialDrafts, SerialCreations, SerialFilings DEF OperatorStep
<1>5. ASSUME NEW s \in Slots, ReviewStep(s)
      PROVE  SerialInv'
  BY <1>1, <1>3, <1>5, SerialReads, SerialRecording, SerialApplying DEF ReviewStep
<1>6. CASE AuthorityStep
  BY <1>1, <1>6, SerialReads, SerialAuthority DEF AuthorityStep
<1> QED BY <1>2, <1>3, <1>4, <1>5, <1>6 DEF Next

(* It holds when nothing was filed yet.                                    *)
LEMMA SerialInit == Init => SerialInv
<1> SUFFICES ASSUME Init PROVE SerialInv
  OBVIOUS
<1>1. IInv
  BY InitInv
<1>2. \A k \in Returns : ret[k] = Absent /\ ~Exists(k)
  BY DEF Init, Exists, Absent
<1>3. RowSound(Absent)
  BY DEF RowSound, Absent
<1>4. RowsSound /\ VersionsInOrder /\ NoStrandedReturn
  BY <1>2, <1>3 DEF RowsSound, VersionsInOrder, NoStrandedReturn, Live
<1>5. RequestsReady
  BY IdleReady DEF Init, RequestsReady
<1> QED BY <1>1, <1>4, <1>5 DEF SerialInv

(* So it holds always.                                                     *)
LEMMA SerialInvariance == Spec /\ []Apart => []SerialInv
<1>1. SerialInv /\ Apart /\ [Next]_vars => SerialInv'
  BY SerialStep
<1> QED BY <1>1, SerialInit, PTL DEF Spec

-----------------------------------------------------------------------------
(* What follows for the properties of a return.                            *)

(* A version that exists and was not rejected is the last of its return,   *)
(* and every other one was rejected.                                       *)
LEMMA OthersRejected ==
  ASSUME SerialInv, NEW j \in Returns, NEW k \in Returns, SameReturn(j, k), j # k,
         Exists(k), ret[k].status # "REJECTED", Exists(j)
  PROVE  ret[j].status = "REJECTED"
<1>1. j[3] < k[3] \/ k[3] < j[3]
  BY DEF Returns, Versions, SameReturn
<1> QED BY <1>1 DEF SerialInv, VersionsInOrder, SameReturn

(* A set of equals has at most one element.                                *)
LEMMA AtMostOne ==
  ASSUME NEW S, \A j, k \in S : j = k
  PROVE  IsFiniteSet(S) /\ Cardinality(S) <= 1
<1>1. CASE S = {}
  BY <1>1, FS_EmptySet
<1>2. CASE S # {}
  <2>1. PICK k : S = {k}
    BY <1>2
  <2> QED BY <2>1, FS_Singleton
<1> QED BY <1>1, <1>2

(* Of the versions of a return at most one is the current one, while no    *)
(* two requests are about one return (the unique key and revise's guards). *)
THEOREM OneCurrentHolds == Spec /\ []Apart => []OneCurrentReturn
<1>1. SerialInv => OneCurrentReturn
  <2> SUFFICES ASSUME SerialInv, NEW e \in Entities, NEW p \in Periods
               PROVE  Cardinality({k \in Of(e, p) : Live(k) /\ ret[k].status # "REJECTED"}) <= 1
    BY DEF OneCurrentReturn
  <2> DEFINE held == {k \in Of(e, p) : Live(k) /\ ret[k].status # "REJECTED"}
  <2>1. \A j, k \in held : j = k
    BY OthersRejected DEF Of, SameReturn, Live
  <2> QED BY <2>1, AtMostOne
<1> QED BY <1>1, SerialInvariance, PTL

(* Nobody decides on a return twice, while no two requests are about one   *)
(* return (decide's look through the review steps).                        *)
THEOREM DutiesSeparated == Spec /\ []Apart => []SeparationOfDuties
<1>1. SerialInv => SeparationOfDuties
  BY DEF SerialInv, RowsSound, RowSound, SeparationOfDuties
<1> QED BY <1>1, SerialInvariance, PTL

(* What startablePeriods offers can be started, while no two requests are  *)
(* about one return (the first version's slot is free or holds a deleted   *)
(* draft).                                                                 *)
THEOREM OffersHold == Spec /\ []Apart => []OfferedCanStart
<1>1. SerialInv => OfferedCanStart
  <2> SUFFICES ASSUME SerialInv, NEW e \in Entities, NEW p \in Periods,
                      \A k \in Of(e, p) : ~Live(k)
               PROVE  ret[<<e, p, 1>>].status \in {"ABSENT", "DRAFT"}
    BY DEF OfferedCanStart
  <2>1. <<e, p, 1>> \in Returns /\ <<e, p, 1>> \in Of(e, p)
    BY FirstVersion DEF Of
  <2> QED BY <2>1 DEF SerialInv, RowsSound, RowSound, Live, Exists
<1> QED BY <1>1, SerialInvariance, PTL

-----------------------------------------------------------------------------
(* The streak behind the fast track.                                       *)

(* The increments that sign-offs have still to make.                       *)
Counting(r, e) == IF r.pc = "incrementStreak" /\ r.entity = e THEN 1 ELSE 0
OwedBy(e)      == {s \in Slots : req[s].pc = "incrementStreak" /\ req[s].entity = e}
Owed(e)        == Cardinality(OwedBy(e))

(* Filed on the fast track, or about to be.                                *)
FastTracked(k) ==
  ret[k].fast \/ \E s \in Slots : req[s].pc = "file" /\ req[s].ret = k /\ req[s].fast

StreakEarned ==
  \A e \in Entities :
    /\ IsFiniteSet(OnTimeApprovals(e)) /\ IsFiniteSet(OwedBy(e))
    /\ streak[e] + Owed(e) <= PriorStreak[e] + Cardinality(OnTimeApprovals(e))
    /\ \A k \in Returns :
         k[1] = e /\ FastTracked(k)
           => PriorStreak[e] + Cardinality(OnTimeApprovals(e) \ {k}) >= FastTrackStreak

EarnedInv == SerialInv /\ StreakEarned

(* What a step of one request makes of either.                             *)
LEMMA OwedNext ==
  ASSUME TypeOK, StreakEarned, NEW s \in Slots, NEW r, req' = [req EXCEPT ![s] = r]
  PROVE  /\ \A e \in Entities :
              /\ IsFiniteSet(OwedBy(e)') /\ Owed(e) \in Nat
              /\ Owed(e)' = Owed(e) + Counting(r, e) - Counting(req[s], e)
         /\ \A k \in Returns :
              FastTracked(k)' => \/ ret'[k].fast \/ FastTracked(k)
                                 \/ r.pc = "file" /\ r.ret = k /\ r.fast
<1>1. \A t \in Slots : req'[t] = IF t = s THEN r ELSE req[t]
  BY OthersServed
<1>2. ASSUME NEW e \in Entities
      PROVE  /\ IsFiniteSet(OwedBy(e)') /\ Owed(e) \in Nat
             /\ Owed(e)' = Owed(e) + Counting(r, e) - Counting(req[s], e)
  <2> DEFINE A == OwedBy(e)
             B == OwedBy(e)'
             rest == A \ {s}
  <2>1. /\ s \in A <=> Counting(req[s], e) = 1
        /\ s \in B <=> Counting(r, e) = 1
        /\ Counting(req[s], e) \in {0, 1} /\ Counting(r, e) \in {0, 1}
    BY <1>1 DEF OwedBy, Counting
  <2>2. B = IF s \in B THEN rest \cup {s} ELSE rest
    BY <1>1 DEF OwedBy
  <2>3. IsFiniteSet(A) /\ IsFiniteSet(rest)
    BY FS_Subset DEF StreakEarned
  <2>4. Cardinality(A) \in Nat /\ Cardinality(rest) \in Nat
    BY <2>3, FS_CardinalityType
  <2>5. Cardinality(A) = Cardinality(rest) + Counting(req[s], e)
    <3>1. CASE s \in A
      BY <2>1, <2>3, <2>4, <3>1, FS_RemoveElement
    <3>2. CASE s \notin A
      <4>1. rest = A
        BY <3>2
      <4> QED BY <2>1, <2>4, <3>2, <4>1
    <3> QED BY <3>1, <3>2
  <2>6. IsFiniteSet(B) /\ Cardinality(B) = Cardinality(rest) + Counting(r, e)
    <3>1. CASE s \in B
      <4>1. B = rest \cup {s} /\ s \notin rest
        BY <2>2, <3>1
      <4>2. IsFiniteSet(rest \cup {s}) /\ Cardinality(rest \cup {s}) = Cardinality(rest) + 1
        BY <2>3, <4>1, FS_AddElement
      <4> HIDE DEF rest, B
      <4> QED BY <2>1, <3>1, <4>1, <4>2
    <3>2. CASE s \notin B
      <4>1. B = rest
        BY <2>2, <3>2
      <4> HIDE DEF rest, B
      <4> QED BY <2>1, <2>3, <2>4, <3>2, <4>1
    <3> QED BY <3>1, <3>2
  <2>7. Owed(e) = Cardinality(A) /\ Owed(e)' = Cardinality(B)
    BY DEF Owed
  <2> HIDE DEF A, B, rest
  <2>8. Owed(e) \in Nat /\ Owed(e)' = Owed(e) + Counting(r, e) - Counting(req[s], e)
    BY <2>1, <2>4, <2>5, <2>6, <2>7
  <2> QED BY <2>6, <2>8 DEF B
<1>3. ASSUME NEW k \in Returns, FastTracked(k)'
      PROVE  \/ ret'[k].fast \/ FastTracked(k)
             \/ r.pc = "file" /\ r.ret = k /\ r.fast
  BY <1>1, <1>3 DEF FastTracked
<1> QED BY <1>2, <1>3

(* A step that goes on to count nothing leaves no more owed.               *)
LEMMA OwedLess ==
  ASSUME TypeOK, StreakEarned, NEW s \in Slots, NEW r, req' = [req EXCEPT ![s] = r],
         r.pc # "incrementStreak"
  PROVE  \A e \in Entities :
           /\ IsFiniteSet(OwedBy(e)') /\ Owed(e) \in Nat /\ Counting(req[s], e) \in {0, 1}
           /\ Owed(e)' = Owed(e) - Counting(req[s], e)
<1> SUFFICES ASSUME NEW e \in Entities
             PROVE  /\ IsFiniteSet(OwedBy(e)') /\ Owed(e) \in Nat
                    /\ Counting(req[s], e) \in {0, 1}
                    /\ Owed(e)' = Owed(e) - Counting(req[s], e)
  OBVIOUS
<1>1. Counting(r, e) = 0 /\ Counting(req[s], e) \in {0, 1}
  BY DEF Counting
<1>2. /\ IsFiniteSet(OwedBy(e)') /\ Owed(e) \in Nat
      /\ Owed(e)' = Owed(e) + Counting(r, e) - Counting(req[s], e)
  BY OwedNext
<1> QED BY <1>1, <1>2

(* A step that approves nothing, gives no streak more than it was owed,    *)
(* and puts a return on the fast track only where the streak has earned it.*)
LEMMA EarnedKept ==
  ASSUME StreakEarned,
         \A e \in Entities : OnTimeApprovals(e)' = OnTimeApprovals(e),
         \A e \in Entities : /\ IsFiniteSet(OwedBy(e)')
                             /\ streak'[e] + Owed(e)' <= streak[e] + Owed(e),
         \A k \in Returns :
           FastTracked(k)' => \/ FastTracked(k)
                              \/ streak[k[1]] >= FastTrackStreak /\ k \notin OnTimeApprovals(k[1]),
         TypeOK, TypeOK'
  PROVE  StreakEarned'
<1> SUFFICES ASSUME NEW e \in Entities
             PROVE  /\ IsFiniteSet(OnTimeApprovals(e)') /\ IsFiniteSet(OwedBy(e)')
                    /\ streak'[e] + Owed(e)' <= PriorStreak[e] + Cardinality(OnTimeApprovals(e)')
                    /\ \A k \in Returns :
                         k[1] = e /\ FastTracked(k)'
                           => PriorStreak[e] + Cardinality(OnTimeApprovals(e)' \ {k}) >= FastTrackStreak
  BY DEF StreakEarned
<1>1. /\ streak[e] \in Nat /\ streak'[e] \in Nat /\ PriorStreak[e] \in Nat
      /\ Owed(e) \in Nat /\ Owed(e)' \in Nat
  <2>1. streak[e] \in Nat /\ streak'[e] \in Nat /\ PriorStreak[e] \in Nat
    BY PriorAssumption DEF TypeOK
  <2>2. Owed(e) \in Nat /\ Owed(e)' \in Nat
    BY FS_CardinalityType DEF Owed, StreakEarned
  <2> QED BY <2>1, <2>2
<1>2. /\ IsFiniteSet(OnTimeApprovals(e))
      /\ streak[e] + Owed(e) <= PriorStreak[e] + Cardinality(OnTimeApprovals(e))
      /\ \A k \in Returns :
           k[1] = e /\ FastTracked(k)
             => PriorStreak[e] + Cardinality(OnTimeApprovals(e) \ {k}) >= FastTrackStreak
  BY DEF StreakEarned
<1>3. Cardinality(OnTimeApprovals(e)) \in Nat
  BY <1>2, FS_CardinalityType
<1>4. streak'[e] + Owed(e)' <= PriorStreak[e] + Cardinality(OnTimeApprovals(e))
  BY <1>1, <1>2, <1>3
<1>5. ASSUME NEW k \in Returns, k[1] = e, FastTracked(k)'
      PROVE  PriorStreak[e] + Cardinality(OnTimeApprovals(e) \ {k}) >= FastTrackStreak
  <2>1. CASE FastTracked(k)
    BY <1>2, <1>5, <2>1
  <2>2. CASE streak[e] >= FastTrackStreak /\ k \notin OnTimeApprovals(e)
    <3>1. OnTimeApprovals(e) \ {k} = OnTimeApprovals(e)
      BY <2>2
    <3>2. PriorStreak[e] + Cardinality(OnTimeApprovals(e)) >= FastTrackStreak
      BY <1>1, <1>2, <1>3, <2>2, FastTrackAssumption
    <3> QED BY <3>1, <3>2
  <2> QED BY <1>5, <2>1, <2>2
<1> QED BY <1>2, <1>4, <1>5

(* Writing a row that is not approved before, and not approved on time     *)
(* after.                                                                  *)
LEMMA OnTimeSame ==
  ASSUME TypeOK, NEW k \in Returns, NEW row, EditRow(k, row),
         ret[k].status # "APPROVED", row.status # "APPROVED" \/ row.late
  PROVE  \A e \in Entities : OnTimeApprovals(e)' = OnTimeApprovals(e)
<1>1. \A j \in Returns : ret'[j] = IF j = k THEN row ELSE ret[j]
  BY DEF EditRow, TypeOK
<1> QED BY <1>1 DEF OnTimeApprovals

(* A step that leaves the returns alone and ends a request, or reads for   *)
(* one that neither files nor counts.                                      *)
LEMMA EarnedRead ==
  ASSUME EarnedInv, TypeOK', UNCHANGED ret,
         NEW s \in Slots, NEW r, req' = [req EXCEPT ![s] = r],
         r.pc \notin {"file", "incrementStreak"},
         \A e \in Entities : streak'[e] <= streak[e] + Counting(req[s], e)
  PROVE  StreakEarned'
<1>1. TypeOK /\ StreakEarned
  BY DEF EarnedInv, SerialInv, IInv
<1>2. \A e \in Entities : OnTimeApprovals(e)' = OnTimeApprovals(e)
  BY DEF OnTimeApprovals
<1>3. \A e \in Entities :
        /\ IsFiniteSet(OwedBy(e)') /\ Owed(e) \in Nat /\ Counting(req[s], e) \in {0, 1}
        /\ Owed(e)' = Owed(e) - Counting(req[s], e)
  BY <1>1, OwedLess
<1>4. \A k \in Returns : FastTracked(k)' => FastTracked(k)
  BY <1>1, OwedNext DEF FastTracked
<1>5. \A e \in Entities : streak'[e] + Owed(e)' <= streak[e] + Owed(e)
  <2>1. \A e \in Entities : streak[e] \in Nat /\ streak'[e] \in Nat
    BY <1>1 DEF TypeOK
  <2> QED BY <1>3, <2>1
<1> QED BY <1>1, <1>2, <1>3, <1>4, <1>5, EarnedKept

(* A step that writes a row which is not approved on time.                 *)
LEMMA EarnedWrite ==
  ASSUME EarnedInv, TypeOK', UNCHANGED streak,
         NEW k \in Returns, NEW row, EditRow(k, row),
         ret[k].status # "APPROVED", row.status # "APPROVED" \/ row.late,
         row.fast => FastTracked(k),
         NEW s \in Slots, NEW r, req' = [req EXCEPT ![s] = r],
         r.pc \notin {"file", "incrementStreak"}
  PROVE  StreakEarned'
<1>1. TypeOK /\ StreakEarned
  BY DEF EarnedInv, SerialInv, IInv
<1>2. \A e \in Entities : OnTimeApprovals(e)' = OnTimeApprovals(e)
  BY <1>1, OnTimeSame
<1>3. \A e \in Entities :
        /\ IsFiniteSet(OwedBy(e)') /\ Owed(e) \in Nat /\ Counting(req[s], e) \in {0, 1}
        /\ Owed(e)' = Owed(e) - Counting(req[s], e)
  BY <1>1, OwedLess
<1>4. \A j \in Returns : ret'[j].fast => FastTracked(j)
  BY <1>1 DEF EditRow, TypeOK, FastTracked
<1>5. \A j \in Returns : FastTracked(j)' => FastTracked(j)
  BY <1>1, <1>4, OwedNext
<1>6. \A e \in Entities : streak'[e] + Owed(e)' <= streak[e] + Owed(e)
  <2>1. \A e \in Entities : streak[e] \in Nat /\ streak'[e] = streak[e]
    BY <1>1 DEF TypeOK
  <2> QED BY <1>3, <2>1
<1> QED BY <1>1, <1>2, <1>3, <1>5, <1>6, EarnedKept

(* A submission, whose request keeps what it read of the streak.           *)
LEMMA EarnedSubmit ==
  ASSUME EarnedInv, TypeOK',
         NEW s \in Slots, NEW k \in Returns, Submit(s, k)
  PROVE  StreakEarned'
<1>1. PICK late \in BOOLEAN, changed \in BOOLEAN :
        Begin(s, [pc |-> "file", ret |-> k, signed |-> ret[k].answers, late |-> late,
                  fast |-> ~late /\ ~changed /\ streak[k[1]] >= FastTrackStreak,
                  changed |-> changed])
  BY DEF Submit
<1> DEFINE r == [pc |-> "file", ret |-> k, signed |-> ret[k].answers, late |-> late,
                 fast |-> ~late /\ ~changed /\ streak[k[1]] >= FastTrackStreak,
                 changed |-> changed]
<1>2. /\ TypeOK /\ StreakEarned /\ UNCHANGED <<ret, streak>>
      /\ req' = [req EXCEPT ![s] = r]
      /\ r.pc = "file" /\ r.ret = k /\ (r.fast => streak[k[1]] >= FastTrackStreak)
  BY <1>1 DEF EarnedInv, SerialInv, IInv, Submit, Begin
<1> HIDE DEF r
<1>3. k \notin OnTimeApprovals(k[1])
  BY DEF Submit, MayEdit, OnTimeApprovals
<1>4. \A e \in Entities : OnTimeApprovals(e)' = OnTimeApprovals(e)
  BY <1>2 DEF OnTimeApprovals
<1>5. \A e \in Entities :
        /\ IsFiniteSet(OwedBy(e)') /\ Owed(e) \in Nat /\ Counting(req[s], e) \in {0, 1}
        /\ Owed(e)' = Owed(e) - Counting(req[s], e)
  BY <1>2, OwedLess
<1>6. \A j \in Returns :
        FastTracked(j)' => \/ FastTracked(j)
                           \/ streak[j[1]] >= FastTrackStreak /\ j \notin OnTimeApprovals(j[1])
  <2>1. \A j \in Returns : FastTracked(j)' => FastTracked(j) \/ ret[j].fast \/ (k = j /\ r.fast)
    BY <1>2, OwedNext
  <2> QED BY <1>2, <1>3, <2>1 DEF FastTracked
<1>7. \A e \in Entities : streak'[e] + Owed(e)' <= streak[e] + Owed(e)
  <2>1. \A e \in Entities : streak[e] \in Nat /\ streak'[e] = streak[e]
    BY <1>2 DEF TypeOK
  <2> QED BY <1>5, <2>1
<1> QED BY <1>2, <1>4, <1>5, <1>6, <1>7, EarnedKept

(* A signature on a return that was not late: one approval more, and one   *)
(* increment owed.                                                         *)
LEMMA EarnedApproval ==
  ASSUME EarnedInv, TypeOK', UNCHANGED streak,
         NEW k \in Returns, NEW row, EditRow(k, row),
         ret[k].status # "APPROVED", row.status = "APPROVED", ~row.late, row.fast = ret[k].fast,
         NEW s \in Slots, NEW r, req' = [req EXCEPT ![s] = r],
         r.pc = "incrementStreak", r.entity = k[1], req[s].pc # "incrementStreak"
  PROVE  StreakEarned'
<1>1. TypeOK /\ StreakEarned
  BY DEF EarnedInv, SerialInv, IInv
<1>2. \A j \in Returns : ret'[j] = IF j = k THEN row ELSE ret[j]
  BY <1>1 DEF EditRow, TypeOK
<1> SUFFICES ASSUME NEW e \in Entities
             PROVE  /\ IsFiniteSet(OnTimeApprovals(e)') /\ IsFiniteSet(OwedBy(e)')
                    /\ streak'[e] + Owed(e)' <= PriorStreak[e] + Cardinality(OnTimeApprovals(e)')
                    /\ \A j \in Returns :
                         j[1] = e /\ FastTracked(j)'
                           => PriorStreak[e] + Cardinality(OnTimeApprovals(e)' \ {j}) >= FastTrackStreak
  BY DEF StreakEarned
<1> DEFINE A == OnTimeApprovals(e)
           B == OnTimeApprovals(e)'
<1>3. B = IF e = k[1] THEN A \cup {k} ELSE A
  BY <1>2 DEF OnTimeApprovals
<1>4. k \notin A
  BY DEF OnTimeApprovals
<1>5. /\ IsFiniteSet(OwedBy(e)') /\ Owed(e) \in Nat
      /\ Owed(e)' = IF e = k[1] THEN Owed(e) + 1 ELSE Owed(e)
  <2>1. Counting(req[s], e) = 0 /\ Counting(r, e) = IF e = k[1] THEN 1 ELSE 0
    BY DEF Counting
  <2>2. /\ IsFiniteSet(OwedBy(e)') /\ Owed(e) \in Nat
        /\ Owed(e)' = Owed(e) + Counting(r, e) - Counting(req[s], e)
    BY <1>1, OwedNext
  <2> QED BY <2>1, <2>2
<1>6. /\ IsFiniteSet(A) /\ streak[e] + Owed(e) <= PriorStreak[e] + Cardinality(A)
      /\ \A j \in Returns :
           j[1] = e /\ FastTracked(j)
             => PriorStreak[e] + Cardinality(A \ {j}) >= FastTrackStreak
  BY <1>1 DEF StreakEarned
<1>7. streak[e] \in Nat /\ PriorStreak[e] \in Nat /\ streak'[e] = streak[e]
  BY <1>1, PriorAssumption DEF TypeOK
<1>8. \A j \in Returns : FastTracked(j)' => FastTracked(j)
  <2>1. \A j \in Returns : FastTracked(j)' => ret'[j].fast \/ FastTracked(j)
    BY <1>1, OwedNext
  <2> QED BY <1>2, <2>1 DEF FastTracked
<1> HIDE DEF A, B
<1>9. /\ IsFiniteSet(B) /\ Cardinality(A) \in Nat
      /\ Cardinality(B) = IF e = k[1] THEN Cardinality(A) + 1 ELSE Cardinality(A)
  <2>1. CASE e = k[1]
    BY <1>3, <1>4, <1>6, <2>1, FS_AddElement, FS_CardinalityType
  <2>2. CASE e # k[1]
    BY <1>3, <1>6, <2>2, FS_CardinalityType
  <2> QED BY <2>1, <2>2
<1>10. streak'[e] + Owed(e)' <= PriorStreak[e] + Cardinality(B)
  BY <1>5, <1>6, <1>7, <1>9
<1>11. ASSUME NEW j \in Returns, j[1] = e, FastTracked(j)'
       PROVE  PriorStreak[e] + Cardinality(B \ {j}) >= FastTrackStreak
  <2>1. PriorStreak[e] + Cardinality(A \ {j}) >= FastTrackStreak
    BY <1>6, <1>8, <1>11
  <2>2. A \ {j} \subseteq B \ {j} /\ IsFiniteSet(B \ {j})
    BY <1>3, <1>9, FS_Subset
  <2>3. /\ Cardinality(A \ {j}) <= Cardinality(B \ {j})
        /\ Cardinality(A \ {j}) \in Nat /\ Cardinality(B \ {j}) \in Nat
    BY <2>2, FS_Subset, FS_CardinalityType
  <2> QED BY <1>7, <2>1, <2>3, FastTrackAssumption
<1> QED BY <1>5, <1>9, <1>10, <1>11 DEF A, B

(* The writes of a return before its approval, and of a late approval.     *)
LEMMA EarnedWrites ==
  ASSUME EarnedInv, TypeOK', NEW s \in Slots,
         \/ ReviveDraft(s) \/ CreateDraft(s) \/ WriteValues(s) \/ FileReturn(s)
         \/ CreateRevision(s) \/ ReviveRevision(s) \/ DeleteDraft(s)
         \/ RecordStep(s) \/ Reject(s) \/ Advance(s) \/ SignOff(s)
  PROVE  StreakEarned'
<1> DEFINE r == req[s]
           k == r.ret
           old == ret[k]
<1>1. TypeOK /\ SerialInv /\ Ready(r, ret, period) /\ Backed(r, ret) /\ RowsSound
  BY DEF EarnedInv, SerialInv, IInv, RequestsReady, RequestsBacked
<1>2. k \in Returns /\ old \in Rows
  <2>1. k \in Returns
    BY <1>1, RequestFields DEF ReviveDraft, CreateDraft, WriteValues, FileReturn, CreateRevision,
                        ReviveRevision, DeleteDraft, RecordStep, Reject, Advance, SignOff, At
  <2> QED BY <1>1, <2>1 DEF TypeOK
<1>3. UNCHANGED streak
  BY DEF ReviveDraft, CreateDraft, WriteValues, FileReturn, CreateRevision,
         ReviveRevision, DeleteDraft, RecordStep, Reject, Advance, SignOff
<1>4. old.status # "APPROVED"
  BY <1>1, <1>2 DEF Ready, RowsSound, RowSound, ReviveDraft, CreateDraft, WriteValues, FileReturn,
         CreateRevision, ReviveRevision, DeleteDraft, RecordStep, Reject, Advance, SignOff, At
<1>5. CASE CreateDraft(s) \/ CreateRevision(s)
  <2>1. PICK content : EditRow(k, Draft(content))
    BY <1>1, <1>5 DEF Ready, CreateDraft, CreateRevision, At, Exists, EditRow
  <2>2. Draft(content).status = "DRAFT" /\ ~Draft(content).fast
    BY DEF Draft, Absent
  <2>3. req' = [req EXCEPT ![s] = Idle] /\ Idle.pc = "idle"
    BY <1>5 DEF CreateDraft, CreateRevision, Finish, Continue, Idle
  <2> HIDE DEF k, old
  <2> QED BY <1>2, <1>3, <1>4, <2>1, <2>2, <2>3, EarnedWrite DEF old
<1>6. CASE ReviveDraft(s) \/ ReviveRevision(s) \/ WriteValues(s) \/ DeleteDraft(s)
  <2>1. PICK row : EditRow(k, row) /\ row.status # "APPROVED" /\ row.fast = old.fast
    <3>1. CASE ReviveDraft(s)
      <4> DEFINE row == Cleared(old)
      <4>1. EditRow(k, row)
        BY <3>1 DEF ReviveDraft
      <4>2. row.status = old.status /\ row.fast = old.fast
        BY <1>2 DEF Cleared, Rows
      <4> HIDE DEF row
      <4> QED BY <1>4, <4>1, <4>2
    <3>2. CASE ReviveRevision(s)
      <4> DEFINE row == [Cleared(old) EXCEPT !.status = "DRAFT"]
      <4>1. EditRow(k, row)
        BY <3>2 DEF ReviveRevision
      <4>2. row.status = "DRAFT" /\ row.fast = old.fast
        BY <1>2 DEF Cleared, Rows
      <4> HIDE DEF row
      <4> QED BY <4>1, <4>2
    <3>3. CASE WriteValues(s)
      <4> DEFINE row == [old EXCEPT !.answers = r.answers]
      <4>1. EditRow(k, row)
        BY <3>3 DEF WriteValues
      <4>2. row.status = old.status /\ row.fast = old.fast
        BY <1>2 DEF Rows
      <4> HIDE DEF row
      <4> QED BY <1>4, <4>1, <4>2
    <3>4. CASE DeleteDraft(s)
      <4> DEFINE row == [old EXCEPT !.deleted = TRUE]
      <4>1. EditRow(k, row)
        BY <3>4 DEF DeleteDraft
      <4>2. row.status = old.status /\ row.fast = old.fast
        BY <1>2 DEF Rows
      <4> HIDE DEF row
      <4> QED BY <1>4, <4>1, <4>2
    <3> QED BY <1>6, <3>1, <3>2, <3>3, <3>4
  <2>2. req' = [req EXCEPT ![s] = Idle] /\ Idle.pc = "idle"
    BY <1>6 DEF ReviveDraft, WriteValues, ReviveRevision, DeleteDraft, Finish, Continue, Idle
  <2>3. row.fast => FastTracked(k)
    BY <2>1 DEF FastTracked
  <2> HIDE DEF k, old
  <2> QED BY <1>2, <1>3, <1>4, <2>1, <2>2, <2>3, EarnedWrite DEF old
<1>7. CASE FileReturn(s)
  <2> DEFINE row == [old EXCEPT !.status = "SUBMITTED",
                                !.stage  = IF r.fast THEN "VERIFIER" ELSE "CHECKER",
                                !.late   = r.late,
                                !.fast   = @ \/ r.fast,
                                !.signed = r.signed]
             reset == [pc |-> "resetStreak", entity |-> k[1]]
  <2>1. EditRow(k, row)
    BY <1>1, <1>7 DEF Ready, FileReturn, StillDraft, At
  <2>2. row.status = "SUBMITTED" /\ row.fast = (old.fast \/ r.fast)
    BY <1>2 DEF Rows
  <2>3. PICK next : req' = [req EXCEPT ![s] = next] /\ next.pc \in {"idle", "resetStreak"}
    <3>1. PICK next \in {Idle, reset} : req' = [req EXCEPT ![s] = next]
      BY <1>7 DEF FileReturn, Finish, Continue
    <3>2. next.pc \in {"idle", "resetStreak"}
      BY <3>1 DEF Idle
    <3> QED BY <3>1, <3>2
  <2> HIDE DEF row
  <2>4. row.fast => FastTracked(k)
    BY <1>7, <2>2 DEF FastTracked, FileReturn, At
  <2> HIDE DEF k, old
  <2> QED BY <1>2, <1>3, <1>4, <2>1, <2>2, <2>3, <2>4, EarnedWrite DEF old
<1>8. CASE RecordStep(s)
  <2> DEFINE step == [stage |-> r.stage, decision |-> r.decision, actor |-> r.actor]
             row == [old EXCEPT !.trail = Append(@, step)]
             next == [r EXCEPT !.pc = "applyDecision"]
  <2>1. EditRow(k, row) /\ req' = [req EXCEPT ![s] = next]
    BY <1>8 DEF RecordStep, Continue
  <2>2. row.status = old.status /\ row.fast = old.fast
    BY <1>2 DEF Rows
  <2>3. next.pc = "applyDecision"
    BY <1>1, <1>8, RequestFields DEF RecordStep, At
  <2> HIDE DEF row, next
  <2>4. row.fast => FastTracked(k)
    BY <2>2 DEF FastTracked
  <2> HIDE DEF k, old
  <2> QED BY <1>2, <1>3, <1>4, <2>1, <2>2, <2>3, <2>4, EarnedWrite DEF old
<1>9. CASE Reject(s) \/ Advance(s)
  <2>1. PICK row : EditRow(k, row) /\ row.status # "APPROVED" /\ row.fast = old.fast
    <3>1. CASE Reject(s)
      <4> DEFINE row == [old EXCEPT !.status = "REJECTED", !.stage = "none"]
      <4>1. EditRow(k, row)
        BY <3>1 DEF Reject
      <4>2. row.status = "REJECTED" /\ row.fast = old.fast
        BY <1>2 DEF Rows
      <4> HIDE DEF row
      <4> QED BY <4>1, <4>2
    <3>2. CASE Advance(s)
      <4> DEFINE row == [old EXCEPT !.status = "UNDER_REVIEW", !.stage = NextStage[r.stage]]
      <4>1. EditRow(k, row)
        BY <3>2 DEF Advance
      <4>2. row.status = "UNDER_REVIEW" /\ row.fast = old.fast
        BY <1>2 DEF Rows
      <4> HIDE DEF row
      <4> QED BY <4>1, <4>2
    <3> QED BY <1>9, <3>1, <3>2
  <2>2. PICK next : req' = [req EXCEPT ![s] = next] /\ next.pc \in {"idle", "resetStreak"}
    <3>1. PICK next \in {Idle, [pc |-> "resetStreak", entity |-> k[1]]} :
            req' = [req EXCEPT ![s] = next]
      BY <1>9 DEF Reject, Advance, Finish, Continue
    <3>2. next.pc \in {"idle", "resetStreak"}
      BY <3>1 DEF Idle
    <3> QED BY <3>1, <3>2
  <2>3. row.fast => FastTracked(k)
    BY <2>1 DEF FastTracked
  <2> HIDE DEF k, old
  <2> QED BY <1>2, <1>3, <1>4, <2>1, <2>2, <2>3, EarnedWrite DEF old
<1>10. CASE SignOff(s)
  <2> DEFINE row == [old EXCEPT !.status = "APPROVED", !.stage = "none", !.locked = TRUE]
             increment == [pc |-> "incrementStreak", entity |-> k[1]]
  <2>1. EditRow(k, row) /\ r.pc = "applyDecision" /\ r.late \in BOOLEAN /\ old.late = r.late
    BY <1>1, <1>10, RequestFields DEF SignOff, At, Ready
  <2>2. row.status = "APPROVED" /\ row.fast = old.fast /\ row.late = old.late
    BY <1>2 DEF Rows
  <2>3. req' = [req EXCEPT ![s] = IF r.late THEN Idle ELSE increment]
    BY <1>10 DEF SignOff, LateReturn, Finish, Continue
  <2>4. Idle.pc = "idle" /\ increment.pc = "incrementStreak" /\ increment.entity = k[1]
    BY DEF Idle
  <2> HIDE DEF row, increment
  <2>5. row.fast => FastTracked(k)
    BY <2>2 DEF FastTracked
  <2>6. CASE r.late
    <3>1. req' = [req EXCEPT ![s] = Idle]
      BY <2>3, <2>6
    <3> HIDE DEF k, old, r
    <3> QED BY <1>2, <1>3, <1>4, <2>1, <2>2, <2>4, <2>5, <2>6, <3>1, EarnedWrite DEF old
  <2>7. CASE ~r.late
    <3>1. req' = [req EXCEPT ![s] = increment] /\ req[s].pc # "incrementStreak"
      BY <2>1, <2>3, <2>7
    <3> HIDE DEF k, old, r
    <3> QED BY <1>2, <1>3, <1>4, <2>1, <2>2, <2>4, <2>7, <3>1, EarnedApproval DEF old
  <2> QED BY <2>6, <2>7
<1> QED BY <1>5, <1>6, <1>7, <1>8, <1>9, <1>10

(* What a request reads, and the two writes to a streak.                   *)
LEMMA EarnedReads ==
  ASSUME EarnedInv, TypeOK', NEW s \in Slots,
         \/ \E e \in Entities, p \in Periods : OpenDraft(s, e, p)
         \/ \E k \in Returns : Revise(s, k) \/ Remove(s, k)
         \/ \E k \in Returns, content \in Content : SaveValues(s, k, content)
         \/ \E u \in Reviewers, stage \in Stages, k \in Returns, decision \in Decisions :
              Decide(s, u, stage, k, decision)
         \/ \E p \in Periods : RemovePeriod(s, p)
         \/ ResetStreak(s) \/ IncrementStreak(s) \/ DeletePeriod(s) \/ Abandon(s)
  PROVE  StreakEarned'
<1>1. TypeOK
  BY DEF EarnedInv, SerialInv, IInv
<1>2. PICK r : req' = [req EXCEPT ![s] = r] /\ r.pc \notin {"file", "incrementStreak"}
  <2>1. ASSUME NEW e \in Entities, NEW p \in Periods, OpenDraft(s, e, p)
        PROVE  \E r : req' = [req EXCEPT ![s] = r] /\ r.pc \notin {"file", "incrementStreak"}
    <3> DEFINE k == <<e, p, 1>>
               next == IF ret[k].deleted /\ ret[k].status = "DRAFT" THEN "reviveDraft" ELSE "createDraft"
               r == [pc |-> next, ret |-> k]
    <3>1. r.pc \notin {"file", "incrementStreak"}
      OBVIOUS
    <3>2. req' = [req EXCEPT ![s] = r]
      BY <2>1 DEF OpenDraft, Begin
    <3> HIDE DEF r
    <3> QED BY <3>1, <3>2
  <2>2. ASSUME NEW k \in Returns, Revise(s, k)
        PROVE  \E r : req' = [req EXCEPT ![s] = r] /\ r.pc \notin {"file", "incrementStreak"}
    <3> DEFINE new == [pc |-> "createRevision", ret |-> Later(k), answers |-> ret[k].answers]
               old == [pc |-> "reviveRevision", ret |-> Later(k)]
    <3>1. new.pc \notin {"file", "incrementStreak"} /\ old.pc \notin {"file", "incrementStreak"}
      OBVIOUS
    <3>2. req' = [req EXCEPT ![s] = new] \/ req' = [req EXCEPT ![s] = old]
      BY <2>2 DEF Revise, Begin
    <3> HIDE DEF new, old
    <3> QED BY <3>1, <3>2
  <2>3. ASSUME NEW k \in Returns, Remove(s, k)
        PROVE  \E r : req' = [req EXCEPT ![s] = r] /\ r.pc \notin {"file", "incrementStreak"}
    <3> DEFINE r == [pc |-> "deleteDraft", ret |-> k]
    <3>1. r.pc \notin {"file", "incrementStreak"} /\ req' = [req EXCEPT ![s] = r]
      BY <2>3 DEF Remove, Begin
    <3> HIDE DEF r
    <3> QED BY <3>1
  <2>4. ASSUME NEW k \in Returns, NEW content \in Content, SaveValues(s, k, content)
        PROVE  \E r : req' = [req EXCEPT ![s] = r] /\ r.pc \notin {"file", "incrementStreak"}
    <3> DEFINE r == [pc |-> "writeValues", ret |-> k, answers |-> content]
    <3>1. r.pc \notin {"file", "incrementStreak"} /\ req' = [req EXCEPT ![s] = r]
      BY <2>4 DEF SaveValues, Begin
    <3> HIDE DEF r
    <3> QED BY <3>1
  <2>5. ASSUME NEW u \in Reviewers, NEW stage \in Stages, NEW k \in Returns,
               NEW decision \in Decisions, Decide(s, u, stage, k, decision)
        PROVE  \E r : req' = [req EXCEPT ![s] = r] /\ r.pc \notin {"file", "incrementStreak"}
    <3> DEFINE r == [pc |-> "recordStep", ret |-> k, stage |-> stage, decision |-> decision,
                     actor |-> u, late |-> ret[k].late]
    <3>1. r.pc \notin {"file", "incrementStreak"} /\ req' = [req EXCEPT ![s] = r]
      BY <2>5 DEF Decide, Begin
    <3> HIDE DEF r
    <3> QED BY <3>1
  <2>6. ASSUME NEW p \in Periods, RemovePeriod(s, p)
        PROVE  \E r : req' = [req EXCEPT ![s] = r] /\ r.pc \notin {"file", "incrementStreak"}
    <3> DEFINE r == [pc |-> "deletePeriod", period |-> p]
    <3>1. r.pc \notin {"file", "incrementStreak"} /\ req' = [req EXCEPT ![s] = r]
      BY <2>6 DEF RemovePeriod, Begin
    <3> HIDE DEF r
    <3> QED BY <3>1
  <2>7. CASE ResetStreak(s) \/ IncrementStreak(s) \/ DeletePeriod(s) \/ Abandon(s)
    <3>1. req' = [req EXCEPT ![s] = Idle] /\ Idle.pc = "idle"
      BY <2>7 DEF ResetStreak, IncrementStreak, DeletePeriod, Abandon, Finish, Continue, Idle
    <3> QED BY <3>1
  <2> QED BY <2>1, <2>2, <2>3, <2>4, <2>5, <2>6, <2>7
<1>3. UNCHANGED ret
  BY DEF OpenDraft, Revise, Remove, SaveValues, Decide, RemovePeriod, ResetStreak,
         IncrementStreak, DeletePeriod, Abandon
<1>4. ASSUME NEW e \in Entities
      PROVE  streak'[e] <= streak[e] + Counting(req[s], e)
  <2>1. streak \in [Entities -> Nat] /\ Counting(req[s], e) \in {0, 1}
    BY <1>1 DEF TypeOK, Counting
  <2>2. CASE UNCHANGED streak
    BY <2>1, <2>2
  <2>3. CASE ResetStreak(s)
    BY <2>1, <2>3 DEF ResetStreak, Broken
  <2>4. CASE IncrementStreak(s)
    <3>1. CASE req[s].entity = e
      <4>1. Counting(req[s], e) = 1
        BY <2>4, <3>1 DEF Counting, IncrementStreak, At
      <4> QED BY <2>1, <2>4, <3>1, <4>1 DEF IncrementStreak
    <3>2. CASE req[s].entity # e
      BY <2>1, <2>4, <3>2 DEF IncrementStreak
    <3> QED BY <3>1, <3>2
  <2> QED BY <2>2, <2>3, <2>4 DEF OpenDraft, Revise, Remove, SaveValues, Decide, RemovePeriod,
                                  DeletePeriod, Abandon
<1> QED BY <1>2, <1>3, <1>4, EarnedRead

(* The administrators' statements, which no request sees.                  *)
LEMMA EarnedAuthority ==
  ASSUME EarnedInv, TypeOK',
         \/ UNCHANGED vars
         \/ \E p \in Periods : OpenPeriod(p) \/ ClosePeriod(p)
         \/ \E e \in Entities : ChangeLicence(e) \/ (\E b \in BOOLEAN : SetStatus(e, b))
  PROVE  StreakEarned'
<1>1. TypeOK /\ StreakEarned
  BY DEF EarnedInv, SerialInv, IInv
<1>2. UNCHANGED <<ret, req>>
  BY DEF vars, OpenPeriod, ClosePeriod, ChangeLicence, SetStatus
<1>3. \A e \in Entities : /\ OnTimeApprovals(e)' = OnTimeApprovals(e)
                          /\ OwedBy(e)' = OwedBy(e) /\ Owed(e)' = Owed(e)
                          /\ IsFiniteSet(OwedBy(e)) /\ Owed(e) \in Nat
  BY <1>1, <1>2, FS_CardinalityType DEF OnTimeApprovals, OwedBy, Owed, StreakEarned
<1>4. \A k \in Returns : FastTracked(k)' => FastTracked(k)
  BY <1>2 DEF FastTracked
<1>5. \A e \in Entities : streak[e] \in Nat /\ streak'[e] \in {0, streak[e]}
  <2>1. streak \in [Entities -> Nat]
    BY <1>1 DEF TypeOK
  <2> QED BY <2>1 DEF vars, OpenPeriod, ClosePeriod, ChangeLicence, SetStatus
<1>6. \A e \in Entities : streak'[e] + Owed(e)' <= streak[e] + Owed(e)
  BY <1>3, <1>5
<1> QED BY <1>1, <1>3, <1>4, <1>6, EarnedKept

(* No step gives a streak more than was earned.                            *)
LEMMA EarnedStep ==
  ASSUME Apart, EarnedInv, [Next]_vars
  PROVE  EarnedInv'
<1>1. SerialInv' /\ TypeOK'
  BY SerialStep DEF EarnedInv, SerialInv, IInv
<1>2. ASSUME NEW s \in Slots, OperatorStep(s)
      PROVE  StreakEarned'
  BY <1>1, <1>2, EarnedReads, EarnedSubmit, EarnedWrites DEF OperatorStep
<1>3. ASSUME NEW s \in Slots, ReviewStep(s) \/ Abandon(s)
      PROVE  StreakEarned'
  BY <1>1, <1>3, EarnedReads, EarnedWrites DEF ReviewStep
<1>4. ASSUME AuthorityStep \/ UNCHANGED vars
      PROVE  StreakEarned'
  BY <1>1, <1>4, EarnedReads, EarnedAuthority DEF AuthorityStep
<1>5. StreakEarned'
  BY <1>2, <1>3, <1>4 DEF Next
<1> QED BY <1>1, <1>5 DEF EarnedInv

(* Nothing is owed to begin with.                                          *)
LEMMA EarnedInit == Init => EarnedInv
<1> SUFFICES ASSUME Init PROVE StreakEarned
  BY SerialInit DEF EarnedInv
<1>1. \A s \in Slots : req[s].pc = "idle"
  BY DEF Init, Idle
<1>2. \A k \in Returns : ret[k].status = "ABSENT" /\ ~ret[k].fast
  BY DEF Init, Absent
<1>3. \A e \in Entities : OnTimeApprovals(e) = {} /\ OwedBy(e) = {} /\ Owed(e) = 0
  BY <1>1, <1>2, FS_EmptySet DEF OnTimeApprovals, OwedBy, Owed
<1>4. \A k \in Returns : ~FastTracked(k)
  BY <1>1, <1>2 DEF FastTracked
<1>5. \A e \in Entities : streak[e] = PriorStreak[e] /\ PriorStreak[e] \in Nat
  BY PriorAssumption DEF Init
<1>6. IsFiniteSet({}) /\ Cardinality({}) = 0
  BY FS_EmptySet
<1> QED BY <1>3, <1>4, <1>5, <1>6 DEF StreakEarned

(* No streak runs ahead of the on-time approvals behind it, and no return  *)
(* skips the Checker without enough of them, while no two requests are     *)
(* about one return (submit's fast-track condition and the upserts of      *)
(* decide). Requests on other returns of the same operator may be in       *)
(* flight, with streak updates still to make.                              *)
THEOREM FastTrackHolds == Spec /\ []Apart => []FastTrackEarned
<1>1. EarnedInv /\ Apart /\ [Next]_vars => EarnedInv'
  BY EarnedStep
<1>2. EarnedInv => FastTrackEarned
  <2> SUFFICES ASSUME EarnedInv, NEW e \in Entities
               PROVE  /\ streak[e] <= PriorStreak[e] + Cardinality(OnTimeApprovals(e))
                      /\ \A k \in Returns :
                           k[1] = e /\ ret[k].fast
                             => PriorStreak[e] + Cardinality(OnTimeApprovals(e) \ {k}) >= FastTrackStreak
    BY DEF FastTrackEarned
  <2>1. /\ IsFiniteSet(OnTimeApprovals(e)) /\ IsFiniteSet(OwedBy(e))
        /\ streak[e] + Owed(e) <= PriorStreak[e] + Cardinality(OnTimeApprovals(e))
        /\ \A k \in Returns :
             k[1] = e /\ FastTracked(k)
               => PriorStreak[e] + Cardinality(OnTimeApprovals(e) \ {k}) >= FastTrackStreak
    BY DEF EarnedInv, StreakEarned
  <2>2. streak[e] \in Nat /\ PriorStreak[e] \in Nat
    BY PriorAssumption DEF EarnedInv, SerialInv, IInv, TypeOK
  <2>3. Cardinality(OnTimeApprovals(e)) \in Nat /\ Owed(e) \in Nat
    BY <2>1, FS_CardinalityType DEF Owed
  <2>4. streak[e] <= PriorStreak[e] + Cardinality(OnTimeApprovals(e))
    BY <2>1, <2>2, <2>3
  <2> QED BY <2>1, <2>4 DEF FastTracked
<1> QED BY <1>1, <1>2, EarnedInit, PTL DEF Spec

-----------------------------------------------------------------------------
(* The lifecycle the steps implement.                                      *)

Obligations == Entities \X Periods
Owing(k)    == <<k[1], k[2]>>

(* What FilingRefinement makes of the rows, for any state of the table.    *)
Held(rows, o)     == {k \in Of(o[1], o[2]) : LiveRow(rows[k]) /\ rows[k].status # "REJECTED"}
Rejected(rows, o) == {k \in Of(o[1], o[2]) : rows[k].status = "REJECTED"}
Standing(row) == IF LiveRow(row) /\ row.status # "REJECTED" THEN Place(row) ELSE "none"
Current(rows) == [o \in Obligations |->
                    IF Held(rows, o) = {} THEN "none" ELSE Place(rows[OneOf(Held(rows, o))])]
SentBackOf(rows) == [o \in Obligations |-> Cardinality(Rejected(rows, o))]

(* A return has finitely many versions.                                    *)
LEMMA FiniteVersions == \A e, p : IsFiniteSet(Of(e, p))
<1> SUFFICES ASSUME NEW e, NEW p PROVE IsFiniteSet(Of(e, p))
  OBVIOUS
<1> DEFINE f == [k \in Of(e, p) |-> k[3]]
<1>1. f \in [Of(e, p) -> Versions]
  BY DEF Of, Returns
<1>2. \A j, k \in Of(e, p) : f[j] = f[k] => j = k
  BY DEF Of, Returns
<1>3. f \in Injection(Of(e, p), Versions)
  BY <1>1, <1>2 DEF Injection, IsInjective
<1>4. IsFiniteSet(Versions)
  BY FS_Interval, MaxVersionAssumption DEF Versions
<1> QED BY <1>3, <1>4, FS_Injection

Mapped ==
  /\ [o \in Entities \X Periods |-> CurrentOf(o)] = Current(ret)
  /\ [o \in Entities \X Periods |->
        Cardinality({k \in Of(o[1], o[2]) : ret[k].status = "REJECTED"})] = SentBackOf(ret)

(* The mapping of FilingRefinement is the one written out above.           *)
LEMMA CurrentMapped == Mapped
<1>1. ASSUME NEW o \in Entities \X Periods
      PROVE  HeldOf(o) = Held(ret, o)
  BY DEF HeldOf, Held, LiveRow, Live, Exists
<1>2. ASSUME NEW o \in Entities \X Periods
      PROVE  CurrentOf(o) = IF Held(ret, o) = {} THEN "none"
                            ELSE Place(ret[OneOf(Held(ret, o))])
  BY <1>1 DEF CurrentOf
<1> QED BY <1>2 DEF Mapped, Current, SentBackOf, Obligations, Rejected

(* The versions of a return besides the one being written.                 *)
LEMMA OthersNotHeld ==
  ASSUME SerialInv, NEW k \in Returns, ret[k].status # "REJECTED",
         Exists(k) \/ k[3] = 1 \/ ret[Prev(k)].status = "REJECTED",
         NEW j \in Returns, SameReturn(j, k), j # k
  PROVE  ~Exists(j) \/ ret[j].status = "REJECTED"
<1>1. CASE Exists(k)
  BY <1>1, OthersRejected
<1>2. CASE ~Exists(k) /\ k[3] < j[3]
  BY <1>2 DEF SerialInv, VersionsInOrder, SameReturn
<1>3. CASE ~Exists(k) /\ j[3] < k[3]
  <2>1. k[3] > 1 /\ ret[Prev(k)].status = "REJECTED"
    BY <1>3 DEF Returns, Versions
  <2>2. Prev(k) \in Returns /\ SameReturn(j, Prev(k)) /\ Exists(Prev(k))
    BY <2>1, PrevVersion DEF Exists, SameReturn, Prev
  <2>3. j = Prev(k) \/ j[3] < Prev(k)[3]
    BY <1>3 DEF Returns, Versions, Prev, SameReturn
  <2> QED BY <2>1, <2>2, <2>3 DEF SerialInv, VersionsInOrder
<1> QED BY <1>1, <1>2, <1>3 DEF Returns, Versions, SameReturn

LEMMA HeldStanding ==
  ASSUME NEW rows, NEW o \in Obligations, NEW k,
         Held(rows, o) = IF LiveRow(rows[k]) /\ rows[k].status # "REJECTED" THEN {k} ELSE {}
  PROVE  Current(rows)[o] = Standing(rows[k])
<1>1. OneOf({k}) = k
  BY DEF OneOf
<1>2. CASE LiveRow(rows[k]) /\ rows[k].status # "REJECTED"
  <2>1. Held(rows, o) = {k}
    BY <1>2
  <2>2. Current(rows)[o] = Place(rows[k])
    BY <1>1, <2>1 DEF Current
  <2> QED BY <1>2, <2>2 DEF Standing
<1>3. CASE ~(LiveRow(rows[k]) /\ rows[k].status # "REJECTED")
  <2>1. Held(rows, o) = {}
    BY <1>3
  <2> QED BY <1>3, <2>1 DEF Standing, Current
<1> QED BY <1>2, <1>3

(* Writing one row moves its return from where the row stood to where the  *)
(* new one stands, and a rejection is one more of its versions sent back.  *)
LEMMA LifecycleWrite ==
  ASSUME SerialInv, NEW k \in Returns, NEW row, EditRow(k, row),
         ret[k].status # "REJECTED",
         Exists(k) \/ k[3] = 1 \/ ret[Prev(k)].status = "REJECTED"
  PROVE  /\ Owing(k) \in Obligations
         /\ Current(ret)[Owing(k)] = Standing(ret[k])
         /\ Current(ret') = [Current(ret) EXCEPT ![Owing(k)] = Standing(row)]
         /\ row.status # "REJECTED" => SentBackOf(ret') = SentBackOf(ret)
         /\ row.status = "REJECTED"
              => SentBackOf(ret') = [SentBackOf(ret) EXCEPT ![Owing(k)] = @ + 1]
<1> DEFINE o == Owing(k)
<1>1. \A j \in Returns : ret'[j] = IF j = k THEN row ELSE ret[j]
  BY DEF EditRow, SerialInv, IInv, TypeOK
<1>2. o \in Obligations /\ k \in Of(o[1], o[2])
  BY DEF Obligations, Owing, Returns, Of
<1>3. \A j \in Of(o[1], o[2]) : j # k => ~Exists(j) \/ ret[j].status = "REJECTED"
  BY OthersNotHeld DEF Of, Owing, SameReturn
<1>4. /\ Held(ret, o) = IF LiveRow(ret[k]) /\ ret[k].status # "REJECTED" THEN {k} ELSE {}
      /\ Held(ret', o) = IF LiveRow(ret'[k]) /\ ret'[k].status # "REJECTED" THEN {k} ELSE {}
  <2>1. \A j \in Of(o[1], o[2]) : j # k => /\ ~(LiveRow(ret[j]) /\ ret[j].status # "REJECTED")
                                          /\ ~(LiveRow(ret'[j]) /\ ret'[j].status # "REJECTED")
    BY <1>1, <1>3 DEF LiveRow, Exists, Of
  <2> HIDE DEF o
  <2> QED BY <1>2, <2>1 DEF Held
<1>5. Current(ret)[o] = Standing(ret[k]) /\ Current(ret')[o] = Standing(row)
  BY <1>1, <1>2, <1>4, HeldStanding
<1>6. ASSUME NEW p \in Obligations, p # o
      PROVE  /\ Held(ret', p) = Held(ret, p) /\ Rejected(ret', p) = Rejected(ret, p)
             /\ \A j \in Held(ret, p) : ret'[j] = ret[j]
  <2>1. \A j \in Of(p[1], p[2]) : j # k /\ j \in Returns
    BY <1>6 DEF Of, Obligations, Owing
  <2> HIDE DEF o
  <2> QED BY <1>1, <2>1 DEF Held, Rejected
<1>7. ASSUME NEW p \in Obligations, p # o
      PROVE  Current(ret')[p] = Current(ret)[p]
  <2>1. CASE Held(ret, p) = {}
    BY <1>6, <1>7, <2>1 DEF Current
  <2>2. CASE Held(ret, p) # {}
    <3>1. OneOf(Held(ret, p)) \in Held(ret, p)
      BY <2>2 DEF OneOf
    <3> QED BY <1>6, <1>7, <2>2, <3>1 DEF Current
  <2> QED BY <2>1, <2>2
<1>8. Current(ret') = [Current(ret) EXCEPT ![o] = Standing(row)]
  <2> HIDE DEF o
  <2> QED BY <1>2, <1>5, <1>7 DEF Current
<1>9. /\ k \notin Rejected(ret, o) /\ IsFiniteSet(Rejected(ret, o))
      /\ Rejected(ret', o) = IF row.status = "REJECTED" THEN Rejected(ret, o) \cup {k}
                                                        ELSE Rejected(ret, o)
  <2>1. Rejected(ret, o) \in SUBSET Of(o[1], o[2]) /\ k \notin Rejected(ret, o)
    BY DEF Rejected
  <2>2. IsFiniteSet(Rejected(ret, o))
    BY <2>1, FiniteVersions, FS_Subset
  <2>3. \A j \in Of(o[1], o[2]) : j \in Returns
    BY DEF Of
  <2> HIDE DEF o
  <2>4. Rejected(ret', o) = IF row.status = "REJECTED" THEN Rejected(ret, o) \cup {k}
                                                       ELSE Rejected(ret, o)
    BY <1>1, <1>2, <2>3 DEF Rejected
  <2> QED BY <2>1, <2>2, <2>4
<1>10. CASE row.status = "REJECTED"
  <2>1. SentBackOf(ret')[o] = SentBackOf(ret)[o] + 1
    BY <1>2, <1>9, <1>10, FS_AddElement DEF SentBackOf
  <2> HIDE DEF o
  <2>2. SentBackOf(ret') = [SentBackOf(ret) EXCEPT ![o] = @ + 1]
    BY <1>2, <1>6, <2>1 DEF SentBackOf
  <2> QED BY <1>2, <1>5, <1>8, <1>10, <2>2 DEF o
<1>11. CASE row.status # "REJECTED"
  <2>1. Rejected(ret', o) = Rejected(ret, o)
    BY <1>9, <1>11
  <2> HIDE DEF o
  <2>2. SentBackOf(ret') = SentBackOf(ret)
    BY <1>2, <1>6, <2>1 DEF SentBackOf
  <2> QED BY <1>2, <1>5, <1>8, <1>11, <2>2 DEF o
<1> QED BY <1>10, <1>11

LEMMA MappedAfter == Mapped'
  BY CurrentMapped, PTL

LEMMA StutterMapped ==
  ASSUME Current(ret') = Current(ret), SentBackOf(ret') = SentBackOf(ret)
  PROVE  UNCHANGED Lifecycle!vars
  BY CurrentMapped, MappedAfter DEF Mapped, Lifecycle!vars

LEMMA MoveMapped ==
  ASSUME NEW o \in Obligations, NEW to,
         Current(ret') = [Current(ret) EXCEPT ![o] = to], SentBackOf(ret') = SentBackOf(ret)
  PROVE  Lifecycle!Move(o, Current(ret)[o], to)
  BY CurrentMapped, MappedAfter DEF Mapped, Lifecycle!Move

(* What a write of one row is to the lifecycle.                            *)
LEMMA WriteMapped ==
  ASSUME SerialInv, NEW k \in Returns, NEW row, EditRow(k, row),
         ret[k].status # "REJECTED",
         Exists(k) \/ k[3] = 1 \/ ret[Prev(k)].status = "REJECTED"
  PROVE  /\ Owing(k) \in Entities \X Periods
         /\ row.status # "REJECTED" => Lifecycle!Move(Owing(k), Standing(ret[k]), Standing(row))
         /\ row.status # "REJECTED" /\ Standing(row) = Standing(ret[k]) => UNCHANGED Lifecycle!vars
         /\ row.status = "REJECTED" /\ Standing(ret[k]) \in {"CHECKER", "VERIFIER", "APPROVER"}
              => Lifecycle!SendBack(Owing(k))
<1> DEFINE o == Owing(k)
<1>1. /\ o \in Obligations
      /\ Current(ret)[o] = Standing(ret[k])
      /\ Current(ret') = [Current(ret) EXCEPT ![o] = Standing(row)]
      /\ row.status # "REJECTED" => SentBackOf(ret') = SentBackOf(ret)
      /\ row.status = "REJECTED" => SentBackOf(ret') = [SentBackOf(ret) EXCEPT ![o] = @ + 1]
  BY LifecycleWrite
<1>2. o \in Entities \X Periods
  BY <1>1 DEF Obligations
<1> HIDE DEF o
<1>3. ASSUME row.status # "REJECTED"
      PROVE  Lifecycle!Move(o, Standing(ret[k]), Standing(row))
  <2>1. Lifecycle!Move(o, Current(ret)[o], Standing(row))
    BY <1>1, <1>3, MoveMapped
  <2> QED BY <1>1, <2>1
<1>4. ASSUME row.status # "REJECTED", Standing(row) = Standing(ret[k])
      PROVE  UNCHANGED Lifecycle!vars
  <2>1. [Current(ret) EXCEPT ![o] = Current(ret)[o]] = Current(ret)
    BY DEF Current
  <2>2. Current(ret') = Current(ret) /\ SentBackOf(ret') = SentBackOf(ret)
    BY <1>1, <1>4, <2>1
  <2> QED BY <2>2, StutterMapped
<1>5. ASSUME row.status = "REJECTED", Standing(ret[k]) \in {"CHECKER", "VERIFIER", "APPROVER"}
      PROVE  Lifecycle!SendBack(o)
  <2>1. Standing(row) = "none"
    BY <1>5 DEF Standing
  <2>2. /\ Current(ret)[o] \in {"CHECKER", "VERIFIER", "APPROVER"}
        /\ Current(ret') = [Current(ret) EXCEPT ![o] = "none"]
        /\ SentBackOf(ret') = [SentBackOf(ret) EXCEPT ![o] = @ + 1]
    BY <1>1, <1>5, <2>1
  <2> QED BY <2>2, CurrentMapped, MappedAfter DEF Mapped, Lifecycle!SendBack, Lifecycle!Stages
<1> QED BY <1>2, <1>3, <1>4, <1>5 DEF o

(* The moves the lifecycle allows.                                         *)
LegalMoves == {<<"none", "draft">>, <<"draft", "none">>, <<"draft", "CHECKER">>,
               <<"draft", "VERIFIER">>, <<"CHECKER", "VERIFIER">>,
               <<"VERIFIER", "APPROVER">>, <<"APPROVER", "approved">>}

LEMMA MoveAllowed ==
  ASSUME NEW o \in Entities \X Periods, NEW from, NEW to,
         Lifecycle!Move(o, from, to), <<from, to>> \in LegalMoves
  PROVE  Lifecycle!Next
<1>1. CASE from = "none" /\ to = "draft"
  BY <1>1 DEF Lifecycle!Next, Lifecycle!Begin
<1>2. CASE from = "draft" /\ to = "none"
  BY <1>2 DEF Lifecycle!Next, Lifecycle!Discard
<1>3. CASE from = "draft" /\ to = "CHECKER"
  BY <1>3 DEF Lifecycle!Next, Lifecycle!File
<1>4. CASE from = "draft" /\ to = "VERIFIER"
  BY <1>4 DEF Lifecycle!Next, Lifecycle!FastTrack
<1>5. CASE (from = "CHECKER" /\ to = "VERIFIER") \/ (from = "VERIFIER" /\ to = "APPROVER")
  BY <1>5 DEF Lifecycle!Next, Lifecycle!Advance
<1>6. CASE from = "APPROVER" /\ to = "approved"
  BY <1>6 DEF Lifecycle!Next, Lifecycle!Approve
<1>7. \/ from = "none" /\ to = "draft"
      \/ from = "draft" /\ to \in {"none", "CHECKER", "VERIFIER"}
      \/ from = "CHECKER" /\ to = "VERIFIER"
      \/ from = "VERIFIER" /\ to = "APPROVER"
      \/ from = "APPROVER" /\ to = "approved"
  BY DEF LegalMoves
<1> QED BY <1>1, <1>2, <1>3, <1>4, <1>5, <1>6, <1>7

LEMMA WriteAllowed ==
  ASSUME SerialInv, NEW k \in Returns, NEW row, EditRow(k, row),
         ret[k].status # "REJECTED",
         Exists(k) \/ k[3] = 1 \/ ret[Prev(k)].status = "REJECTED",
         row.status # "REJECTED",
         \/ Standing(row) = Standing(ret[k])
         \/ <<Standing(ret[k]), Standing(row)>> \in LegalMoves
  PROVE  Lifecycle!Next \/ UNCHANGED Lifecycle!vars
  BY WriteMapped, MoveAllowed

LEMMA DraftsMapped ==
  ASSUME SerialInv, NEW s \in Slots,
         \/ ReviveDraft(s) \/ CreateDraft(s) \/ WriteValues(s)
         \/ CreateRevision(s) \/ ReviveRevision(s) \/ DeleteDraft(s)
  PROVE  Lifecycle!Next \/ UNCHANGED Lifecycle!vars
<1> DEFINE r == req[s]
           k == r.ret
           old == ret[k]
<1>1. /\ TypeOK /\ Ready(r, ret, period) /\ Backed(r, ret) /\ RowsSound
      /\ k \in Returns /\ old \in Rows
  <2>1. TypeOK /\ Ready(r, ret, period) /\ Backed(r, ret) /\ RowsSound
    BY DEF SerialInv, IInv, RequestsReady, RequestsBacked
  <2>2. k \in Returns
    BY <2>1, RequestFields DEF ReviveDraft, CreateDraft, WriteValues, CreateRevision,
                               ReviveRevision, DeleteDraft, At
  <2> QED BY <2>1, <2>2 DEF TypeOK
<1>2. CASE CreateDraft(s) \/ CreateRevision(s)
  <2>1. PICK content : EditRow(k, Draft(content))
    BY <1>1, <1>2 DEF Ready, CreateDraft, CreateRevision, At, Exists, EditRow
  <2>2. old.status = "ABSENT" /\ (k[3] = 1 \/ ret[Prev(k)].status = "REJECTED")
    BY <1>1, <1>2 DEF Ready, CreateDraft, CreateRevision, At
  <2>3. Standing(Draft(content)) = "draft" /\ Draft(content).status = "DRAFT"
    BY DEF Draft, Absent, Standing, LiveRow, Place
  <2>4. Standing(old) = "none"
    BY <2>2 DEF Standing, LiveRow
  <2> HIDE DEF k, old
  <2> QED BY <1>1, <2>1, <2>2, <2>3, <2>4, WriteAllowed DEF old, LegalMoves
<1>3. CASE ReviveDraft(s) \/ ReviveRevision(s)
  <2>1. PICK row : EditRow(k, row) /\ row.status = "DRAFT" /\ ~row.deleted
    <3>1. CASE ReviveDraft(s)
      <4> DEFINE row == Cleared(old)
      <4>1. EditRow(k, row) /\ old.status = "DRAFT"
        BY <1>1, <3>1 DEF ReviveDraft, Ready, RowsSound, RowSound, At
      <4>2. row.status = old.status /\ ~row.deleted
        BY <1>1 DEF Cleared, Rows
      <4> HIDE DEF row
      <4> QED BY <4>1, <4>2
    <3>2. CASE ReviveRevision(s)
      <4> DEFINE row == [Cleared(old) EXCEPT !.status = "DRAFT"]
      <4>1. EditRow(k, row)
        BY <3>2 DEF ReviveRevision
      <4>2. row.status = "DRAFT" /\ ~row.deleted
        BY <1>1 DEF Cleared, Rows
      <4> HIDE DEF row
      <4> QED BY <4>1, <4>2
    <3> QED BY <1>3, <3>1, <3>2
  <2>2. old.deleted /\ old.status = "DRAFT"
    BY <1>1, <1>3 DEF Ready, RowsSound, RowSound, ReviveDraft, ReviveRevision, At
  <2>3. Standing(row) = "draft" /\ Standing(old) = "none" /\ Exists(k)
    BY <2>1, <2>2 DEF Standing, LiveRow, Place, Exists
  <2> HIDE DEF k, old
  <2> QED BY <1>1, <2>1, <2>2, <2>3, WriteAllowed DEF old, LegalMoves
<1>4. CASE WriteValues(s) \/ DeleteDraft(s)
  <2>1. LiveRow(old) /\ old.status = "DRAFT" /\ Exists(k) /\ Standing(old) = "draft"
    BY <1>1, <1>4 DEF Ready, WriteValues, DeleteDraft, At, LiveRow, Exists, Standing, Place
  <2>2. PICK row : EditRow(k, row) /\ row.status = "DRAFT"
    <3>1. CASE WriteValues(s)
      <4> DEFINE row == [old EXCEPT !.answers = r.answers]
      <4>1. EditRow(k, row)
        BY <3>1 DEF WriteValues
      <4>2. row.status = old.status
        BY <1>1 DEF Rows
      <4> HIDE DEF row
      <4> QED BY <2>1, <4>1, <4>2
    <3>2. CASE DeleteDraft(s)
      <4> DEFINE row == [old EXCEPT !.deleted = TRUE]
      <4>1. EditRow(k, row)
        BY <3>2 DEF DeleteDraft
      <4>2. row.status = old.status
        BY <1>1 DEF Rows
      <4> HIDE DEF row
      <4> QED BY <2>1, <4>1, <4>2
    <3> QED BY <1>4, <3>1, <3>2
  <2>3. Standing(row) \in {"draft", "none"}
    BY <2>2 DEF Standing, Place
  <2> HIDE DEF k, old
  <2> QED BY <1>1, <2>1, <2>2, <2>3, WriteAllowed DEF old, LegalMoves
<1> QED BY <1>2, <1>3, <1>4

LEMMA FilingMapped ==
  ASSUME SerialInv, NEW s \in Slots, FileReturn(s)
  PROVE  Lifecycle!Next \/ UNCHANGED Lifecycle!vars
<1> DEFINE r == req[s]
           k == r.ret
           old == ret[k]
           row == [old EXCEPT !.status = "SUBMITTED",
                              !.stage  = IF r.fast THEN "VERIFIER" ELSE "CHECKER",
                              !.late   = r.late,
                              !.fast   = @ \/ r.fast,
                              !.signed = r.signed]
<1>1. /\ k \in Returns /\ old \in Rows
      /\ LiveRow(old) /\ old.status = "DRAFT" /\ Exists(k) /\ Standing(old) = "draft"
  <2>1. k \in Returns /\ Ready(r, ret, period)
    BY RequestFields DEF SerialInv, IInv, RequestsReady, FileReturn, At
  <2> QED BY <2>1 DEF SerialInv, IInv, TypeOK, Ready, FileReturn, At, LiveRow, Exists,
                      Standing, Place
<1>2. EditRow(k, row)
  BY <1>1 DEF FileReturn, StillDraft
<1>3. /\ row.status = "SUBMITTED" /\ row.deleted = old.deleted
      /\ row.stage \in {"CHECKER", "VERIFIER"}
  BY <1>1 DEF Rows
<1> HIDE DEF row
<1>4. Standing(row) \in {"CHECKER", "VERIFIER"}
  BY <1>1, <1>3 DEF Standing, LiveRow, Place
<1> HIDE DEF k, old
<1> QED BY <1>1, <1>2, <1>3, <1>4, WriteAllowed DEF old, LegalMoves

LEMMA ReviewMapped ==
  ASSUME SerialInv, NEW s \in Slots,
         RecordStep(s) \/ Reject(s) \/ Advance(s) \/ SignOff(s)
  PROVE  Lifecycle!Next \/ UNCHANGED Lifecycle!vars
<1> DEFINE r == req[s]
           k == r.ret
           old == ret[k]
<1>1. /\ k \in Returns /\ r.stage \in Stages /\ old \in Rows
      /\ old.stage = r.stage /\ LiveRow(old) /\ old.status \in {"SUBMITTED", "UNDER_REVIEW"}
      /\ Exists(k) /\ Standing(old) = r.stage
  <2>1. k \in Returns /\ r.stage \in Stages /\ Ready(r, ret, period)
    BY RequestFields DEF SerialInv, IInv, RequestsReady, RecordStep, Reject, Advance, SignOff, At
  <2> QED BY <2>1 DEF SerialInv, IInv, TypeOK, Ready, RecordStep, Reject, Advance, SignOff, At,
                      LiveRow, Exists, Standing, Place
<1>2. CASE RecordStep(s)
  <2> DEFINE step == [stage |-> r.stage, decision |-> r.decision, actor |-> r.actor]
             row == [old EXCEPT !.trail = Append(@, step)]
  <2>1. EditRow(k, row)
    BY <1>2 DEF RecordStep
  <2>2. row.status = old.status /\ row.stage = old.stage /\ row.deleted = old.deleted
    BY <1>1 DEF Rows
  <2> HIDE DEF row
  <2>3. Standing(row) = Standing(old)
    BY <2>2 DEF Standing, LiveRow, Place
  <2> HIDE DEF k, old
  <2> QED BY <1>1, <2>1, <2>2, <2>3, WriteAllowed DEF old
<1>3. CASE Reject(s)
  <2> DEFINE row == [old EXCEPT !.status = "REJECTED", !.stage = "none"]
  <2>1. EditRow(k, row)
    BY <1>3 DEF Reject
  <2>2. row.status = "REJECTED"
    BY <1>1 DEF Rows
  <2>3. Standing(old) \in {"CHECKER", "VERIFIER", "APPROVER"}
    BY <1>1 DEF Stages
  <2> HIDE DEF row, k, old
  <2>4. Owing(k) \in Entities \X Periods /\ Lifecycle!SendBack(Owing(k))
    BY <1>1, <2>1, <2>2, <2>3, WriteMapped DEF old
  <2> QED BY <2>4 DEF Lifecycle!Next
<1>4. CASE Advance(s)
  <2> DEFINE row == [old EXCEPT !.status = "UNDER_REVIEW", !.stage = NextStage[r.stage]]
  <2>1. EditRow(k, row) /\ r.stage # "APPROVER"
    BY <1>4 DEF Advance
  <2>2. row.status = "UNDER_REVIEW" /\ row.stage = NextStage[r.stage] /\ row.deleted = old.deleted
    BY <1>1 DEF Rows
  <2> HIDE DEF row
  <2>3. Standing(row) = NextStage[r.stage]
    BY <1>1, <2>2 DEF Standing, LiveRow, Place
  <2>4. <<Standing(old), Standing(row)>> \in LegalMoves
    BY <1>1, <2>1, <2>3 DEF Stages, NextStage, LegalMoves
  <2> HIDE DEF k, old
  <2> QED BY <1>1, <2>1, <2>2, <2>4, WriteAllowed DEF old
<1>5. CASE SignOff(s)
  <2> DEFINE row == [old EXCEPT !.status = "APPROVED", !.stage = "none", !.locked = TRUE]
  <2>1. EditRow(k, row) /\ r.stage = "APPROVER"
    BY <1>5 DEF SignOff
  <2>2. row.status = "APPROVED" /\ row.deleted = old.deleted
    BY <1>1 DEF Rows
  <2> HIDE DEF row
  <2>3. Standing(row) = "approved"
    BY <1>1, <2>2 DEF Standing, LiveRow, Place
  <2> HIDE DEF k, old
  <2> QED BY <1>1, <2>1, <2>2, <2>3, WriteAllowed DEF old, LegalMoves
<1> QED BY <1>2, <1>3, <1>4, <1>5

LEMMA LifecycleStep ==
  ASSUME SerialInv, [Next]_vars
  PROVE  [Lifecycle!Next]_(Lifecycle!vars)
<1>1. ASSUME UNCHANGED ret
      PROVE  UNCHANGED Lifecycle!vars
  BY <1>1, StutterMapped
<1>2. ASSUME NEW s \in Slots, OperatorStep(s)
      PROVE  Lifecycle!Next \/ UNCHANGED Lifecycle!vars
  <2>1. CASE UNCHANGED ret
    BY <1>1, <2>1
  <2>2. CASE \/ ReviveDraft(s) \/ CreateDraft(s) \/ WriteValues(s) \/ FileReturn(s)
             \/ CreateRevision(s) \/ ReviveRevision(s) \/ DeleteDraft(s)
    BY <2>2, DraftsMapped, FilingMapped
  <2> QED BY <1>2, <2>1, <2>2 DEF OperatorStep, OpenDraft, Submit, Revise, Remove, SaveValues
<1>3. ASSUME NEW s \in Slots, ReviewStep(s) \/ Abandon(s)
      PROVE  Lifecycle!Next \/ UNCHANGED Lifecycle!vars
  <2>1. CASE UNCHANGED ret
    BY <1>1, <2>1
  <2>2. CASE RecordStep(s) \/ Reject(s) \/ Advance(s) \/ SignOff(s)
    BY <2>2, ReviewMapped
  <2> QED BY <1>3, <2>1, <2>2 DEF ReviewStep, Decide, ResetStreak, IncrementStreak, Abandon
<1>4. ASSUME AuthorityStep \/ UNCHANGED vars
      PROVE  UNCHANGED Lifecycle!vars
  <2>1. UNCHANGED ret
    BY <1>4 DEF AuthorityStep, OpenPeriod, ClosePeriod, RemovePeriod, DeletePeriod,
                ChangeLicence, SetStatus, vars
  <2> QED BY <1>1, <2>1
<1> QED BY <1>2, <1>3, <1>4 DEF Next

LEMMA LifecycleInit == Init => Lifecycle!Init
<1> SUFFICES ASSUME Init PROVE Lifecycle!Init
  OBVIOUS
<1>1. \A k \in Returns : ret[k].status = "ABSENT"
  BY DEF Init, Absent
<1>2. \A e, p : \A k \in Of(e, p) : k \in Returns
  BY DEF Of
<1>3. \A o \in Obligations : Held(ret, o) = {} /\ Rejected(ret, o) = {}
  BY <1>1, <1>2 DEF Held, Rejected, LiveRow
<1>4. Current(ret) = [o \in Obligations |-> "none"]
  BY <1>3 DEF Current
<1>5. SentBackOf(ret) = [o \in Obligations |-> 0]
  BY <1>3, FS_EmptySet DEF SentBackOf
<1> QED BY <1>4, <1>5, CurrentMapped DEF Mapped, Lifecycle!Init, Obligations

(* While no two requests are about one return, the submission and workflow *)
(* services do to a return only what its lifecycle allows, steps of a      *)
(* request failing included: the refinement mapping of FilingRefinement,   *)
(* from the initial state and through every step.                          *)
THEOREM LifecycleImplemented == Spec /\ []Apart => ImplementsLifecycle
<1>1. SerialInv /\ [Next]_vars => [Lifecycle!Next]_(Lifecycle!vars)
  BY LifecycleStep
<1> QED BY <1>1, LifecycleInit, SerialInvariance, PTL DEF Spec, ImplementsLifecycle, Lifecycle!Spec

=============================================================================
