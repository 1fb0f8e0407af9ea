----------------------------- MODULE JobsProofs -----------------------------
(***************************************************************************)
(* What the scheduler's jobs do once: the alerts about a licence document, *)
(* whatever sweeps overlap, the pull of a feed in each of its windows, and *)
(* the mail of a notice.                                                   *)
(***************************************************************************)
EXTENDS Documents, Feeds, Notifications, FiniteSetTheorems, TLAPS

-----------------------------------------------------------------------------
(* Documents.                                                              *)

Rank(stage) == IF stage = "EXPIRED" THEN 2 ELSE IF stage = "EXPIRING" THEN 1 ELSE 0

(* A document on its way is not there yet, and comes once.                 *)
UploadsFresh ==
  \A u \in Uploaders : uploader[u] # Idle =>
    /\ document[uploader[u].document] = NoDocument
    /\ \A v \in Uploaders : v # u /\ uploader[v] # Idle
         => uploader[v].document # uploader[u].document

(* A sweep looks at documents that expire; what it is sending was claimed, *)
(* by itself alone, and has not been sent.                                 *)
SweepsHold ==
  \A s \in Sweeps : sweep[s] # Idle =>
    /\ \A d \in sweep[s].todo : document[d].state # "none" /\ document[d].expires # Nothing
    /\ sweep[s].pc = "notify" =>
         /\ Rank(sweep[s].stage) <= Rank(document[sweep[s].document].alerted)
         /\ alerts[<<sweep[s].document, sweep[s].stage>>] = 0
         /\ \A t \in Sweeps : t # s /\ sweep[t].pc = "notify"
              => sweep[t].document # sweep[s].document \/ sweep[t].stage # sweep[s].stage

(* A stage that is on a document has come, and none later was sent.        *)
StagesCome ==
  \A d \in Docs :
    /\ document[d].alerted # Nothing =>
         /\ document[d].state # "none" /\ document[d].expires # Nothing
         /\ Rank(Stage(d)) >= Rank(document[d].alerted)
    /\ \A x \in Stages : Rank(x) > Rank(document[d].alerted) => alerts[<<d, x>>] = 0

DocumentsInv == DocumentsTypeOK /\ UploadsFresh /\ SweepsHold /\ StagesCome /\ StageAlertedOnce

LEMMA Ranks ==
  /\ Rank("EXPIRED") = 2 /\ Rank("EXPIRING") = 1 /\ Rank(Nothing) = 0
  /\ \A x : Rank(x) \in {0, 1, 2}
  /\ \A x \in Stages : Rank(x) > 0
  /\ \A x, y \in MaybeStage : Rank(x) = Rank(y) => x = y
  BY NothingAssumption DEF Rank, MaybeStage, Stages

LEMMA StageType == ASSUME NEW d PROVE Stage(d) \in MaybeStage
  BY DEF Stage, MaybeStage, Stages

LEMMA SweepFields ==
  ASSUME DocumentsTypeOK, NEW s \in Sweeps
  PROVE  /\ sweep[s] # Idle => /\ sweep[s].todo \in SUBSET Docs
                               /\ sweep[s].was \in [Docs -> MaybeStage]
                               /\ sweep[s].pc \in {"documents", "notify"}
         /\ sweep[s].pc = "notify" => sweep[s].document \in Docs /\ sweep[s].stage \in Stages
         /\ sweep[s] = Idle => sweep[s].pc = "idle"
  BY DEF DocumentsTypeOK, SweepRequests, Idle

LEMMA SweepOverType ==
  ASSUME NEW todo \in SUBSET Docs, NEW was \in [Docs -> MaybeStage]
  PROVE  SweepOver(todo, was) \in SweepRequests /\ Left(todo, was) \in [Docs -> MaybeStage]
<1>1. Left(todo, was) \in [Docs -> MaybeStage]
  BY DEF Left, MaybeStage
<1> QED BY <1>1 DEF SweepOver, SweepRequests

LEMMA DocumentsInitially == DocumentsInit => DocumentsInv
<1> SUFFICES ASSUME DocumentsInit PROVE DocumentsInv
  OBVIOUS
<1>1. DocumentsTypeOK
  BY DEF DocumentsInit, DocumentsTypeOK, DocumentRows, NoDocument, States, MaybeStage, SweepRequests, UploadRows
<1>2. UploadsFresh /\ SweepsHold /\ StageAlertedOnce
  BY DEF DocumentsInit, UploadsFresh, SweepsHold, StageAlertedOnce
<1>3. StagesCome
  BY DEF DocumentsInit, StagesCome, NoDocument
<1> QED BY <1>1, <1>2, <1>3 DEF DocumentsInv

LEMMA UploadKeeps ==
  ASSUME DocumentsInv, NEW u \in Uploaders,
         \/ CreateDocument(u) \/ StopUpload(u)
         \/ \E d \in Docs, x \in ExpiryDays \cup {Nothing}, p \in Docs \cup {Nothing} : Upload(u, d, x, p)
  PROVE  DocumentsInv'
<1>1. DocumentsTypeOK /\ uploader[u] \in UploadRows
  BY DEF DocumentsInv, DocumentsTypeOK
<1>2. CASE StopUpload(u)
  <2>1. uploader' = [uploader EXCEPT ![u] = Idle] /\ UNCHANGED <<date, document, sweep, alerts>>
    BY <1>2 DEF StopUpload, Drop, Finish
  <2> QED BY <1>1, <2>1 DEF DocumentsInv, DocumentsTypeOK, UploadRows, UploadsFresh, SweepsHold,
                            StagesCome, StageAlertedOnce, Stage
<1>3. ASSUME NEW d \in Docs, NEW x \in ExpiryDays \cup {Nothing}, NEW p \in Docs \cup {Nothing},
             Upload(u, d, x, p)
      PROVE  DocumentsInv'
  <2> DEFINE r == [pc |-> "create", document |-> d, expires |-> x, supersedes |-> p]
  <2>1. /\ uploader' = [uploader EXCEPT ![u] = r] /\ UNCHANGED <<date, document, sweep, alerts>>
        /\ document[d] = NoDocument /\ \A v \in Uploaders : uploader[v] # Idle => uploader[v].document # d
    BY <1>3 DEF Upload, Begin
  <2>2. r \in UploadRows /\ r.document = d
    BY DEF UploadRows
  <2>3. DocumentsTypeOK'
    BY <1>1, <2>1, <2>2 DEF DocumentsTypeOK
  <2> HIDE DEF r
  <2>4. UploadsFresh'
    BY <1>1, <2>1, <2>2 DEF DocumentsInv, DocumentsTypeOK, UploadsFresh
  <2> QED BY <2>1, <2>3, <2>4 DEF DocumentsInv, SweepsHold, StagesCome, StageAlertedOnce, Stage
<1>4. CASE CreateDocument(u)
  <2> DEFINE r == uploader[u]
             row == [state |-> "kept", expires |-> r.expires, supersedes |-> r.supersedes,
                     alerted |-> Nothing]
  <2>1. /\ r \in UploadRows /\ r # Idle /\ r.document \in Docs
        /\ r.expires \in ExpiryDays \cup {Nothing} /\ r.supersedes \in Docs \cup {Nothing}
    BY <1>1, <1>4 DEF CreateDocument, At, UploadRows, Idle
  <2>2. /\ uploader' = [uploader EXCEPT ![u] = Idle] /\ UNCHANGED <<date, sweep, alerts>>
        /\ document' = document \/ document' = [document EXCEPT ![r.document] = row]
    BY <1>4 DEF CreateDocument, Finish
  <2>3. row \in DocumentRows
    BY <2>1 DEF DocumentRows, States, MaybeStage
  <2>4. document[r.document] = NoDocument
    BY <2>1 DEF DocumentsInv, UploadsFresh
  <2>5. /\ document[r.document].alerted = Nothing /\ document[r.document].state = "none"
    BY <2>4 DEF NoDocument
  <2>6. DocumentsTypeOK'
    BY <1>1, <2>1, <2>2, <2>3 DEF DocumentsTypeOK, UploadRows
  <2>7. CASE document' = document
    BY <1>1, <2>2, <2>6, <2>7 DEF DocumentsInv, DocumentsTypeOK, UploadsFresh, SweepsHold,
                                  StagesCome, StageAlertedOnce, Stage
  <2>8. CASE document' = [document EXCEPT ![r.document] = row]
    <3>1. /\ \A d \in Docs : d # r.document => document'[d] = document[d]
          /\ document'[r.document].alerted = Nothing
      BY <1>1, <2>1, <2>8 DEF DocumentsTypeOK
    <3> HIDE DEF r, row
    <3>2. UploadsFresh'
      <4> SUFFICES ASSUME NEW v \in Uploaders, uploader'[v] # Idle
                   PROVE  /\ document'[uploader'[v].document] = NoDocument
                          /\ \A w \in Uploaders : w # v /\ uploader'[w] # Idle
                               => uploader'[w].document # uploader'[v].document
        BY DEF UploadsFresh
      <4>1. v # u /\ uploader'[v] = uploader[v] /\ \A w \in Uploaders : uploader'[w] # Idle => uploader'[w] = uploader[w]
        BY <1>1, <2>2 DEF DocumentsTypeOK
      <4>2. uploader[v].document \in Docs /\ uploader[v].document # r.document
        BY <1>1, <2>1, <4>1 DEF DocumentsInv, DocumentsTypeOK, UploadsFresh, UploadRows, Idle, r
      <4> QED BY <3>1, <4>1, <4>2 DEF DocumentsInv, UploadsFresh
    <3>3. SweepsHold'
      <4> SUFFICES ASSUME NEW s \in Sweeps, sweep[s] # Idle
                   PROVE  /\ \A d \in sweep[s].todo : document'[d].state # "none" /\ document'[d].expires # Nothing
                          /\ sweep[s].pc = "notify" =>
                               Rank(sweep[s].stage) <= Rank(document'[sweep[s].document].alerted)
        BY <2>2 DEF DocumentsInv, SweepsHold
      <4>1. sweep[s].todo \subseteq Docs
        BY <1>1, SweepFields
      <4>2. sweep[s].pc = "notify" =>
              /\ sweep[s].document \in Docs /\ Rank(sweep[s].stage) > 0
              /\ Rank(sweep[s].stage) <= Rank(document[sweep[s].document].alerted)
        BY <1>1, SweepFields, Ranks DEF DocumentsInv, SweepsHold, Stages
      <4>3. sweep[s].pc = "notify" => sweep[s].document # r.document
        BY <2>5, <4>2, Ranks
      <4> QED BY <2>5, <3>1, <4>1, <4>2, <4>3 DEF DocumentsInv, SweepsHold
    <3>4. StagesCome'
      <4>1. \A d \in Docs : d # r.document => Stage(d)' = Stage(d)
        BY <2>2, <3>1 DEF Stage
      <4> QED BY <2>2, <2>5, <3>1, <4>1 DEF DocumentsInv, StagesCome
    <3> QED BY <2>2, <2>6, <3>2, <3>3, <3>4 DEF DocumentsInv, StageAlertedOnce
  <2> QED BY <2>2, <2>7, <2>8
<1> QED BY <1>2, <1>3, <1>4

(* A sweep that keeps no more than it had, and sends nothing.              *)
LEMMA SweepGoesOn ==
  ASSUME DocumentsInv, NEW s \in Sweeps, NEW r \in SweepRequests,
         sweep' = [sweep EXCEPT ![s] = r], UNCHANGED <<date, document, uploader, alerts>>,
         r.pc # "notify",
         r # Idle => \A d \in r.todo : document[d].state # "none" /\ document[d].expires # Nothing
  PROVE  DocumentsInv'
<1>1. DocumentsTypeOK'
  BY DEF DocumentsInv, DocumentsTypeOK
<1>2. SweepsHold'
  BY DEF DocumentsInv, DocumentsTypeOK, SweepsHold
<1>3. UploadsFresh' /\ StagesCome' /\ StageAlertedOnce'
  BY DEF DocumentsInv, UploadsFresh, StagesCome, StageAlertedOnce, Stage
<1> QED BY <1>1, <1>2, <1>3 DEF DocumentsInv

LEMMA SweepKeeps ==
  ASSUME DocumentsInv, NEW s \in Sweeps,
         StartExpirySweep(s) \/ Notify(s) \/ StopSweep(s) \/ \E d \in Docs : Claim(s, d)
  PROVE  DocumentsInv'
<1> USE DEF Begin, Continue, Finish, Drop, At
<1>1. DocumentsTypeOK /\ document \in [Docs -> DocumentRows]
  BY DEF DocumentsInv, DocumentsTypeOK
<1>2. \A todo, was : SweepOver(todo, was).pc # "notify" /\ (SweepOver(todo, was) # Idle => SweepOver(todo, was).todo = todo)
  BY DEF SweepOver, Idle
<1>3. CASE StopSweep(s)
  <2>1. Idle \in SweepRequests /\ Idle.pc # "notify"
    BY DEF SweepRequests, Idle
  <2> QED BY <1>3, <2>1, SweepGoesOn DEF StopSweep
<1>4. CASE StartExpirySweep(s)
  <2> DEFINE todo == {d \in Docs : DueForAlert(d)}
             was  == [d \in Docs |-> document[d].alerted]
  <2>1. was \in [Docs -> MaybeStage]
    BY <1>1 DEF DocumentRows
  <2>2. SweepOver(todo, was) \in SweepRequests
    BY <2>1, SweepOverType
  <2>3. \A d \in todo : document[d].state # "none" /\ document[d].expires # Nothing
    BY DEF DueForAlert
  <2> HIDE DEF todo, was
  <2>4. SweepOver(todo, was) # Idle
          => \A d \in SweepOver(todo, was).todo : document[d].state # "none" /\ document[d].expires # Nothing
    BY <1>2, <2>3
  <2>5. sweep' = [sweep EXCEPT ![s] = SweepOver(todo, was)] /\ UNCHANGED <<date, document, uploader, alerts>>
    BY <1>4 DEF StartExpirySweep, todo, was
  <2> QED BY <1>2, <2>2, <2>4, <2>5, SweepGoesOn
<1>5. CASE Notify(s)
  <2> DEFINE d == sweep[s].document
             x == sweep[s].stage
  <2>1. /\ sweep[s].pc = "notify" /\ sweep[s] # Idle /\ d \in Docs /\ x \in Stages
        /\ sweep[s].todo \in SUBSET Docs /\ sweep[s].was \in [Docs -> MaybeStage]
    BY <1>1, <1>5, SweepFields DEF Notify, Idle
  <2>2. /\ alerts[<<d, x>>] = 0 /\ Rank(x) <= Rank(document[d].alerted)
        /\ \A t \in Sweeps : t # s /\ sweep[t].pc = "notify"
             => sweep[t].document # d \/ sweep[t].stage # x
        /\ \A e \in sweep[s].todo : document[e].state # "none" /\ document[e].expires # Nothing
    BY <2>1 DEF DocumentsInv, SweepsHold
  <2> DEFINE r == SweepOver(sweep[s].todo, sweep[s].was)
  <2>3. r \in SweepRequests /\ r.pc # "notify" /\ (r # Idle => r.todo = sweep[s].todo)
    BY <1>2, <2>1, SweepOverType
  <2>4. /\ alerts' = [alerts EXCEPT ![<<d, x>>] = @ + 1] /\ sweep' = [sweep EXCEPT ![s] = r]
        /\ UNCHANGED <<date, document, uploader>>
    BY <1>5 DEF Notify
  <2>5. /\ alerts \in [Docs \X Stages -> Nat] /\ <<d, x>> \in Docs \X Stages
    BY <1>1, <2>1 DEF DocumentsTypeOK
  <2> HIDE DEF r, d, x
  <2>6. DocumentsTypeOK'
    BY <1>1, <2>3, <2>4, <2>5 DEF DocumentsTypeOK
  <2>7. /\ alerts'[<<d, x>>] = 1
        /\ \A e \in Docs, y \in Stages : e # d \/ y # x => alerts'[<<e, y>>] = alerts[<<e, y>>]
    BY <2>2, <2>4, <2>5
  <2>8. StagesCome'
    <3>1. \A e \in Docs : Stage(e)' = Stage(e)
      BY <2>4 DEF Stage
    <3>2. Rank(x) \in {0, 1, 2} /\ Rank(document[d].alerted) \in {0, 1, 2}
      BY Ranks
    <3> QED BY <2>2, <2>4, <2>7, <3>1, <3>2 DEF DocumentsInv, StagesCome
  <2>9. SweepsHold'
    <3> SUFFICES ASSUME NEW t \in Sweeps, sweep'[t] # Idle
                 PROVE  /\ \A e \in sweep'[t].todo : document[e].state # "none" /\ document[e].expires # Nothing
                        /\ sweep'[t].pc = "notify" =>
                             /\ Rank(sweep'[t].stage) <= Rank(document[sweep'[t].document].alerted)
                             /\ alerts'[<<sweep'[t].document, sweep'[t].stage>>] = 0
                             /\ \A q \in Sweeps : q # t /\ sweep'[q].pc = "notify"
                                  => sweep'[q].document # sweep'[t].document \/ sweep'[q].stage # sweep'[t].stage
      BY <2>4 DEF SweepsHold
    <3>1. CASE t = s
      BY <1>1, <2>2, <2>3, <2>4, <3>1 DEF DocumentsTypeOK
    <3>2. CASE t # s
      <4>1. sweep'[t] = sweep[t] /\ \A q \in Sweeps : sweep'[q].pc = "notify" => sweep'[q] = sweep[q]
        BY <1>1, <2>3, <2>4, <3>2 DEF DocumentsTypeOK
      <4>2. sweep[t].pc = "notify" => sweep[t].document \in Docs /\ sweep[t].stage \in Stages
        BY <1>1, SweepFields
      <4>3. sweep[t].pc = "notify" => sweep[t].document # d \/ sweep[t].stage # x
        BY <2>2, <3>2
      <4>4. /\ \A e \in sweep[t].todo : document[e].state # "none" /\ document[e].expires # Nothing
            /\ sweep[t].pc = "notify" =>
                 /\ Rank(sweep[t].stage) <= Rank(document[sweep[t].document].alerted)
                 /\ alerts[<<sweep[t].document, sweep[t].stage>>] = 0
                 /\ \A q \in Sweeps : q # t /\ sweep[q].pc = "notify"
                      => sweep[q].document # sweep[t].document \/ sweep[q].stage # sweep[t].stage
        BY <4>1 DEF DocumentsInv, SweepsHold
      <4> QED BY <2>7, <4>1, <4>2, <4>3, <4>4
    <3> QED BY <3>1, <3>2
  <2>10. StageAlertedOnce'
    BY <2>7 DEF DocumentsInv, StageAlertedOnce
  <2>11. UploadsFresh'
    BY <2>4 DEF DocumentsInv, UploadsFresh
  <2> QED BY <2>6, <2>8, <2>9, <2>10, <2>11 DEF DocumentsInv
<1>6. ASSUME NEW d \in Docs, Claim(s, d)
      PROVE  DocumentsInv'
  <2> DEFINE r    == sweep[s]
             rest == r.todo \ {d}
             x    == Stage(d)
             claimed == x \notin {Nothing, r.was[d]} /\ Unclaimed(r, d)
  <2>1. /\ r.pc = "documents" /\ r # Idle /\ d \in r.todo /\ rest \in SUBSET Docs
        /\ r.was \in [Docs -> MaybeStage]
        /\ \A e \in r.todo : document[e].state # "none" /\ document[e].expires # Nothing
    BY <1>1, <1>6, SweepFields DEF Claim, Idle, DocumentsInv, SweepsHold
  <2>2. CASE ~claimed
    <3>1. sweep' = [sweep EXCEPT ![s] = SweepOver(rest, r.was)] /\ UNCHANGED <<date, document, uploader, alerts>>
      BY <1>6, <2>2 DEF Claim
    <3>2. SweepOver(rest, r.was) \in SweepRequests
      BY <2>1, SweepOverType
    <3>3. SweepOver(rest, r.was) # Idle => SweepOver(rest, r.was).todo = rest
      BY <1>2
    <3>4. \A e \in rest : document[e].state # "none" /\ document[e].expires # Nothing
      BY <2>1
    <3> DEFINE next == SweepOver(rest, r.was)
    <3>5. next.pc # "notify"
      BY <1>2
    <3> HIDE DEF claimed, rest, r, next
    <3>6. next # Idle => \A e \in next.todo : document[e].state # "none" /\ document[e].expires # Nothing
      BY <3>3, <3>4 DEF next
    <3>7. next \in SweepRequests /\ sweep' = [sweep EXCEPT ![s] = next]
      BY <3>1, <3>2 DEF next
    <3> QED BY <3>1, <3>5, <3>6, <3>7, SweepGoesOn
  <2>3. CASE claimed
    <3> DEFINE row  == [document[d] EXCEPT !.alerted = x]
               next == [pc |-> "notify", todo |-> rest, was |-> Left(rest, r.was), document |-> d, stage |-> x]
    <3>1. /\ sweep' = [sweep EXCEPT ![s] = next] /\ document' = [document EXCEPT ![d] = row]
          /\ UNCHANGED <<date, uploader, alerts>>
      BY <1>1, <1>6, <2>3 DEF Claim
    <3>2. x \in Stages /\ document[d].alerted = r.was[d] /\ x # document[d].alerted
      BY <2>3, StageType DEF MaybeStage, Unclaimed
    <3>3. document[d] \in DocumentRows /\ document[d].alerted \in MaybeStage
      BY <1>1 DEF DocumentRows
    <3>4. Rank(x) > Rank(document[d].alerted)
      <4>1. document[d].alerted # Nothing => Rank(x) >= Rank(document[d].alerted)
        BY DEF DocumentsInv, StagesCome
      <4>2. Rank(x) # Rank(document[d].alerted)
        BY <3>2, <3>3, Ranks DEF MaybeStage
      <4>3. Rank(x) > 0 /\ Rank(Nothing) = 0 /\ Rank(x) \in {0, 1, 2} /\ Rank(document[d].alerted) \in {0, 1, 2}
        BY <3>2, Ranks
      <4> QED BY <4>1, <4>2, <4>3
    <3>5. row \in DocumentRows /\ row.alerted = x /\ row.state = document[d].state
          /\ row.expires = document[d].expires
      BY <3>2, <3>3 DEF DocumentRows, MaybeStage
    <3>6. next \in SweepRequests /\ next.todo = rest /\ next.document = d /\ next.stage = x
          /\ next # Idle /\ next.pc = "notify"
      BY <2>1, <3>2, SweepOverType DEF SweepRequests, Idle
    <3>7. /\ alerts[<<d, x>>] = 0
          /\ \A t \in Sweeps : sweep[t].pc = "notify" => sweep[t].document # d \/ sweep[t].stage # x
      <4>1. alerts[<<d, x>>] = 0
        BY <3>2, <3>4 DEF DocumentsInv, StagesCome
      <4>2. \A t \in Sweeps : sweep[t].pc = "notify"
              => Rank(sweep[t].stage) <= Rank(document[sweep[t].document].alerted)
        <5>1. \A t \in Sweeps : sweep[t].pc = "notify" => sweep[t] # Idle
          BY DEF Idle
        <5> QED BY <5>1 DEF DocumentsInv, SweepsHold
      <4>3. \A y : Rank(y) \in {0, 1, 2}
        BY Ranks
      <4> QED BY <3>4, <4>1, <4>2, <4>3
    <3> HIDE DEF row, next, x, rest, claimed
    <3>8. DocumentsTypeOK'
      BY <1>1, <3>1, <3>5, <3>6 DEF DocumentsTypeOK
    <3>9. /\ document'[d] = row /\ \A e \in Docs : e # d => document'[e] = document[e]
          /\ sweep'[s] = next /\ \A t \in Sweeps : t # s => sweep'[t] = sweep[t]
      BY <1>1, <3>1 DEF DocumentsTypeOK
    <3>10. \A e \in Docs : /\ document'[e].state = document[e].state /\ document'[e].expires = document[e].expires
                           /\ Rank(document'[e].alerted) >= Rank(document[e].alerted)
                           /\ Stage(e)' = Stage(e)
      BY <3>1, <3>4, <3>5, <3>9, Ranks DEF Stage
    <3>11. UploadsFresh'
      <4>1. \A v \in Uploaders : uploader[v] # Idle => uploader[v].document \in Docs
        BY <1>1 DEF DocumentsTypeOK, UploadRows
      <4>2. document[d] # NoDocument
        BY <2>1 DEF NoDocument
      <4> QED BY <3>1, <3>9, <4>1, <4>2 DEF DocumentsInv, UploadsFresh
    <3>12. StagesCome'
      <4> SUFFICES ASSUME NEW e \in Docs
                   PROVE  /\ document'[e].alerted # Nothing =>
                               /\ document'[e].state # "none" /\ document'[e].expires # Nothing
                               /\ Rank(Stage(e)) >= Rank(document'[e].alerted)
                          /\ \A y \in Stages : Rank(y) > Rank(document'[e].alerted) => alerts[<<e, y>>] = 0
        BY <3>1, <3>10 DEF StagesCome
      <4>1. CASE e = d
        <5>1. \A y \in Stages : Rank(y) > Rank(x) => alerts[<<d, y>>] = 0
          <6>1. \A y : Rank(y) \in {0, 1, 2}
            BY Ranks
          <6> QED BY <3>4, <6>1 DEF DocumentsInv, StagesCome
        <5>2. Rank(Stage(d)) >= Rank(x)
          BY Ranks DEF x
        <5> QED BY <2>1, <3>5, <3>9, <3>10, <4>1, <5>1, <5>2
      <4>2. CASE e # d
        BY <3>9, <4>2 DEF DocumentsInv, StagesCome
      <4> QED BY <4>1, <4>2
    <3>13. SweepsHold'
      <4> SUFFICES ASSUME NEW t \in Sweeps, sweep'[t] # Idle
                   PROVE  /\ \A e \in sweep'[t].todo : document'[e].state # "none" /\ document'[e].expires # Nothing
                          /\ sweep'[t].pc = "notify" =>
                               /\ Rank(sweep'[t].stage) <= Rank(document'[sweep'[t].document].alerted)
                               /\ alerts[<<sweep'[t].document, sweep'[t].stage>>] = 0
                               /\ \A q \in Sweeps : q # t /\ sweep'[q].pc = "notify"
                                    => sweep'[q].document # sweep'[t].document \/ sweep'[q].stage # sweep'[t].stage
        BY <3>1 DEF SweepsHold
      <4>1. CASE t = s
        <5>1. \A e \in rest : document'[e].state # "none" /\ document'[e].expires # Nothing
          BY <2>1, <3>10 DEF rest
        <5>2. Rank(x) <= Rank(document'[d].alerted)
          BY <3>5, <3>9, Ranks
        <5> QED BY <3>6, <3>7, <3>9, <4>1, <5>1, <5>2
      <4>2. CASE t # s
        <5>1. /\ \A e \in sweep[t].todo : document[e].state # "none" /\ document[e].expires # Nothing
              /\ sweep[t].pc = "notify" =>
                   /\ Rank(sweep[t].stage) <= Rank(document[sweep[t].document].alerted)
                   /\ alerts[<<sweep[t].document, sweep[t].stage>>] = 0
                   /\ \A q \in Sweeps : q # t /\ sweep[q].pc = "notify"
                        => sweep[q].document # sweep[t].document \/ sweep[q].stage # sweep[t].stage
          BY <3>9, <4>2 DEF DocumentsInv, SweepsHold
        <5>2. sweep[t].todo \subseteq Docs /\ (sweep[t].pc = "notify" => sweep[t].document \in Docs)
          BY <1>1, <3>9, <4>2, SweepFields
        <5>3. sweep[t].pc = "notify" => Rank(sweep[t].stage) <= Rank(document'[sweep[t].document].alerted)
          <6>1. \A y : Rank(y) \in {0, 1, 2}
            BY Ranks
          <6> QED BY <3>10, <5>1, <5>2, <6>1
        <5> QED BY <3>6, <3>7, <3>9, <3>10, <4>2, <5>1, <5>2, <5>3
      <4> QED BY <4>1, <4>2
    <3> QED BY <3>1, <3>8, <3>11, <3>12, <3>13 DEF DocumentsInv, StageAlertedOnce
  <2> QED BY <2>2, <2>3
<1> QED BY <1>3, <1>4, <1>5, <1>6

LEMMA RemovalKeeps ==
  ASSUME DocumentsInv, NEW d \in Docs, RemoveDocument(d)
  PROVE  DocumentsInv'
<1> DEFINE row == [document[d] EXCEPT !.state = "deleted"]
<1>1. /\ document' = [document EXCEPT ![d] = row] /\ UNCHANGED <<date, sweep, uploader, alerts>>
      /\ DocumentsTypeOK /\ document[d] \in DocumentRows /\ document[d].state = "kept"
  BY DEF RemoveDocument, DocumentsInv, DocumentsTypeOK
<1>2. /\ row \in DocumentRows /\ row.state = "deleted" /\ row.expires = document[d].expires
      /\ row.alerted = document[d].alerted
  BY <1>1 DEF DocumentRows, States
<1>3. document[d] # NoDocument
  BY <1>1 DEF NoDocument
<1> HIDE DEF row
<1>4. DocumentsTypeOK'
  BY <1>1, <1>2 DEF DocumentsTypeOK
<1>5. /\ document'[d] = row /\ \A e \in Docs : e # d => document'[e] = document[e]
      /\ \A e \in Docs : /\ document'[e].expires = document[e].expires
                         /\ document'[e].alerted = document[e].alerted
                         /\ document[e].state # "none" => document'[e].state # "none"
                         /\ Stage(e)' = Stage(e)
  BY <1>1, <1>2 DEF DocumentsTypeOK, Stage
<1>6. UploadsFresh'
  <2>1. \A v \in Uploaders : uploader[v] # Idle => uploader[v].document \in Docs
    BY <1>1 DEF DocumentsTypeOK, UploadRows
  <2> QED BY <1>1, <1>3, <1>5, <2>1 DEF DocumentsInv, UploadsFresh
<1>7. SweepsHold'
  <2>1. \A s \in Sweeps : sweep[s] # Idle =>
          sweep[s].todo \subseteq Docs /\ (sweep[s].pc = "notify" => sweep[s].document \in Docs)
    BY <1>1, SweepFields
  <2> QED BY <1>1, <1>5, <2>1 DEF DocumentsInv, SweepsHold
<1>8. StagesCome'
  BY <1>1, <1>5 DEF DocumentsInv, StagesCome
<1> QED BY <1>1, <1>4, <1>6, <1>7, <1>8 DEF DocumentsInv, StageAlertedOnce

LEMMA DateKeeps == DocumentsInv /\ NextDate => DocumentsInv'
<1> SUFFICES ASSUME DocumentsInv, NextDate PROVE DocumentsInv'
  OBVIOUS
<1>1. /\ date \in Nat /\ date' = date + 1 /\ UNCHANGED <<document, sweep, uploader, alerts>>
      /\ document \in [Docs -> DocumentRows]
  BY DEF NextDate, DocumentsInv, DocumentsTypeOK
<1>2. DocumentsTypeOK'
  BY <1>1 DEF DocumentsInv, DocumentsTypeOK
<1>3. \A d \in Docs : document[d].expires # Nothing => Rank(Stage(d)') >= Rank(Stage(d))
  <2> SUFFICES ASSUME NEW d \in Docs, document[d].expires # Nothing
               PROVE  Rank(Stage(d)') >= Rank(Stage(d))
    OBVIOUS
  <2>1. document[d].expires \in Nat
    BY <1>1, WarningAssumption DEF DocumentRows
  <2> QED BY <1>1, <2>1, Ranks, WarningAssumption DEF Stage
<1>4. StagesCome'
  <2>1. \A y : Rank(y) \in {0, 1, 2}
    BY Ranks
  <2> QED BY <1>1, <1>3, <2>1 DEF DocumentsInv, StagesCome
<1> QED BY <1>1, <1>2, <1>4 DEF DocumentsInv, UploadsFresh, SweepsHold, StageAlertedOnce

(* An operator hears of each stage of a licence document at most once, for *)
(* any number of documents, sweeps and uploads at once: a claim raises the *)
(* rank of the stage on the document, and only who raised it sends.        *)
THEOREM AlertedOnce == DocumentsSpec => []StageAlertedOnce
<1>1. DocumentsInv /\ [DocumentsNext]_documentVars => DocumentsInv'
  <2> SUFFICES ASSUME DocumentsInv, [DocumentsNext]_documentVars PROVE DocumentsInv'
    OBVIOUS
  <2>1. CASE UNCHANGED documentVars
    BY <2>1 DEF documentVars, DocumentsInv, DocumentsTypeOK, UploadsFresh, SweepsHold, StagesCome,
                StageAlertedOnce, Stage
  <2>2. CASE DocumentsNext
    BY <2>2, UploadKeeps, SweepKeeps, RemovalKeeps, DateKeeps DEF DocumentsNext
  <2> QED BY <2>1, <2>2
<1>2. DocumentsInv => StageAlertedOnce
  BY DEF DocumentsInv
<1> QED BY <1>1, <1>2, DocumentsInitially, PTL DEF DocumentsSpec

-----------------------------------------------------------------------------
(* Feeds.                                                                  *)

Job(s) == s \in FeedJobs /\ pull[s] # Idle

(* The window a job works for, what it will still attempt, and what it has *)
(* attempted and not stamped.                                              *)
WindowOf(r, f) == FeedWindow(r.read[f].row.timetable, r.now)
Ahead(r, f)    == /\ r # Idle
                  /\ f \in r.todo \/ (r.pc = "attempt" /\ r.feed = f)
                  /\ IsFeedDue(r.read[f].row, r.now)
InHand(r, f, w) == r.pc \in {"fetch", "record", "stamp"} /\ r.feed = f /\ w = WindowOf(r, f)
Stamped(f, w)   == feed[f].lastRunAt # NotYet /\ feed[f].lastRunAt >= w

RowsSettled ==
  /\ \A f \in Feeds :
       /\ feed[f].lastRunAt # NotYet => feed[f].lastRunAt <= tick
       /\ feed[f].live => feed[f].timetable \in FeedTimetables /\ feed[f].agreement \in Agreements
  /\ \A a \in Agreements : agreement[a].live => agreement[a].terms # NotYet

JobsKnow ==
  \A s \in FeedJobs : pull[s] # Idle =>
    /\ pull[s].now <= tick
    /\ \A f \in pull[s].todo : pull[s].read[f].row.timetable \in FeedTimetables
    /\ pull[s].pc # "feeds" =>
         /\ pull[s].feed \notin pull[s].todo
         /\ pull[s].read[pull[s].feed].row.timetable \in FeedTimetables
         /\ IsFeedDue(pull[s].read[pull[s].feed].row, pull[s].now)

NothingBefore ==
  \A s \in FeedJobs, f \in Feeds, w \in Windows :
    Ahead(pull[s], f) /\ w = WindowOf(pull[s], f) => attempts[<<f, w>>] <= breaks[f]

AttemptsTallied ==
  \A f \in Feeds, w \in Windows :
    /\ attempts[<<f, w>>] <= 1 + breaks[f]
    /\ attempts[<<f, w>>] > breaks[f] =>
         Stamped(f, w) \/ \E s \in FeedJobs : InHand(pull[s], f, w)

FeedsInv == FeedsTypeOK /\ RowsSettled /\ JobsKnow /\ NothingBefore /\ AttemptsTallied

LEMMA FeedsInitially == FeedsInit => FeedsInv
<1> SUFFICES ASSUME FeedsInit PROVE FeedsInv
  OBVIOUS
<1>1. FeedsTypeOK
  BY DEF FeedsInit, FeedsTypeOK, AgreementRows, FeedRows, NoFeed, PullStates
<1>2. RowsSettled /\ JobsKnow /\ NothingBefore
  BY DEF FeedsInit, RowsSettled, JobsKnow, NothingBefore, Ahead, NoFeed
<1>3. AttemptsTallied
  BY DEF FeedsInit, AttemptsTallied
<1> QED BY <1>1, <1>2, <1>3 DEF FeedsInv

LEMMA PullFields ==
  ASSUME FeedsTypeOK, NEW s \in FeedJobs \cup Pullers
  PROVE  /\ pull[s] \in PullStates
         /\ pull[s] = Idle => pull[s].pc = "idle"
         /\ pull[s] # Idle =>
              /\ pull[s].todo \in SUBSET Feeds /\ pull[s].read \in [Feeds -> Runnables]
              /\ pull[s].now \in Nat
              /\ pull[s].pc \in {"feeds", "attempt", "fetch", "record", "stamp"}
              /\ pull[s].pc # "feeds" => pull[s].feed \in Feeds
              /\ pull[s].pc \in {"record", "stamp"} => pull[s].outcome \in Outcomes
  BY DEF FeedsTypeOK, PullStates, Idle

LEMMA WindowComes ==
  ASSUME NEW row, row.timetable \in FeedTimetables, NEW t \in Nat, IsFeedDue(row, t)
  PROVE  FeedWindow(row.timetable, t) \in Int /\ FeedWindow(row.timetable, t) <= t
<1> DEFINE k == row.timetable
           since == IF k.frequency = "WEEKLY" THEN (t \div Day - k.day) % Week ELSE 0
           due == (t \div Day - since) * Day + k.hour
<1>1. k.hour \in Int /\ k.day \in Int /\ Day \in Nat \ {0} /\ Week \in Nat \ {0} /\ NotYet \notin Int
  BY FeedAssumption
<1>2. t \div Day \in Int
  BY <1>1
<1>3. since \in Int
  <2>1. t \div Day - k.day \in Int
    BY <1>1, <1>2
  <2> HIDE DEF k
  <2>2. (t \div Day - k.day) % Week \in Int
    BY <1>1, <2>1
  <2> QED BY <2>2
<1> HIDE DEF since, k
<1>4. due \in Int
  BY <1>1, <1>2, <1>3
<1>5. FeedWindow(k, t) = IF k.frequency = "HOURLY" THEN t ELSE IF due > t THEN NotYet ELSE due
  BY DEF FeedWindow, k, since
<1>6. FeedWindow(k, t) # NotYet
  BY DEF IsFeedDue, k
<1> HIDE DEF due
<1> QED BY <1>4, <1>5, <1>6 DEF k

(* What a slot goes on with after a feed.                                  *)
LEMMA GoesOn ==
  ASSUME FeedsTypeOK, NEW s \in FeedJobs \cup Pullers, pull[s] # Idle, NEW todo \in SUBSET pull[s].todo
  PROVE  /\ GoOnPulling(pull[s], todo) \in PullStates
         /\ GoOnPulling(pull[s], todo).pc \in {"idle", "feeds"}
         /\ GoOnPulling(pull[s], todo) # Idle =>
              /\ GoOnPulling(pull[s], todo).todo = todo /\ GoOnPulling(pull[s], todo).pc = "feeds"
              /\ GoOnPulling(pull[s], todo).read = pull[s].read
              /\ GoOnPulling(pull[s], todo).now = pull[s].now
  BY PullFields DEF GoOnPulling, PullStates, Idle

(* A step that attempts nothing keeps the tally, if it takes no window up  *)
(* anew and lets go of one only by stamping the feed or breaking off.      *)
LEMMA TallyKept ==
  ASSUME FeedsInv, attempts' = attempts,
         \A f \in Feeds : breaks[f] \in Nat /\ breaks'[f] \in Nat /\ breaks'[f] >= breaks[f],
         \A f \in Feeds, w \in Windows : Stamped(f, w) => Stamped(f, w)',
         \A s \in FeedJobs, f \in Feeds :
           Ahead(pull'[s], f) => Ahead(pull[s], f) /\ WindowOf(pull'[s], f) = WindowOf(pull[s], f),
         \A s \in FeedJobs, f \in Feeds, w \in Windows :
           InHand(pull[s], f, w) => InHand(pull'[s], f, w) \/ Stamped(f, w)' \/ breaks'[f] > breaks[f]
  PROVE  NothingBefore' /\ AttemptsTallied'
<1>1. \A f \in Feeds, w \in Windows : attempts[<<f, w>>] \in Nat
  BY DEF FeedsInv, FeedsTypeOK
<1>2. NothingBefore'
  BY <1>1 DEF FeedsInv, NothingBefore
<1>3. AttemptsTallied'
  <2> SUFFICES ASSUME NEW f \in Feeds, NEW w \in Windows
               PROVE  /\ attempts[<<f, w>>] <= 1 + breaks'[f]
                      /\ attempts[<<f, w>>] > breaks'[f] =>
                           Stamped(f, w)' \/ \E s \in FeedJobs : InHand(pull'[s], f, w)
    BY DEF AttemptsTallied
  <2>1. /\ attempts[<<f, w>>] <= 1 + breaks[f] /\ attempts[<<f, w>>] \in Nat
        /\ breaks[f] \in Nat /\ breaks'[f] \in Nat /\ breaks'[f] >= breaks[f]
    BY <1>1 DEF FeedsInv, AttemptsTallied
  <2>2. ASSUME attempts[<<f, w>>] > breaks'[f]
        PROVE  Stamped(f, w)' \/ \E s \in FeedJobs : InHand(pull'[s], f, w)
    <3>1. attempts[<<f, w>>] > breaks[f] /\ ~(breaks'[f] > breaks[f])
      BY <2>1, <2>2
    <3>2. Stamped(f, w) \/ \E s \in FeedJobs : InHand(pull[s], f, w)
      BY <3>1 DEF FeedsInv, AttemptsTallied
    <3> QED BY <3>1, <3>2
  <2> QED BY <2>1, <2>2
<1> QED BY <1>2, <1>3

(* A step of a slot that goes on with what it has read.                    *)
LEMMA SlotGoesOn ==
  ASSUME FeedsInv, NEW s \in FeedJobs \cup Pullers, pull[s] # Idle, NEW r \in PullStates,
         pull' = [pull EXCEPT ![s] = r], UNCHANGED <<tick, agreement, attempts>>,
         feed' \in [Feeds -> FeedRows], breaks' \in [Feeds -> Nat],
         \A f \in Feeds : /\ breaks'[f] >= breaks[f]
                          /\ feed'[f].live = feed[f].live /\ feed'[f].timetable = feed[f].timetable
                          /\ feed'[f].agreement = feed[f].agreement
                          /\ feed'[f].lastRunAt = feed[f].lastRunAt \/ feed'[f].lastRunAt = tick,
         r # Idle =>
           /\ r.todo \subseteq pull[s].todo /\ r.read = pull[s].read /\ r.now = pull[s].now
           /\ r.pc # "feeds" => /\ r.feed \in Feeds
                                /\ s \in FeedJobs =>
                                     /\ r.feed \notin r.todo
                                     /\ r.read[r.feed].row.timetable \in FeedTimetables
                                     /\ IsFeedDue(r.read[r.feed].row, r.now),
         r.pc = "attempt" => r.feed \in pull[s].todo,
         s \in FeedJobs /\ pull[s].pc \in {"fetch", "record", "stamp"} =>
           \/ r.pc \in {"fetch", "record", "stamp"} /\ r.feed = pull[s].feed
           \/ breaks'[pull[s].feed] > breaks[pull[s].feed]
           \/ feed'[pull[s].feed].lastRunAt = tick
  PROVE  FeedsInv'
<1>1. /\ FeedsTypeOK /\ tick \in Nat /\ NotYet \notin Int
      /\ \A f \in Feeds : feed[f].lastRunAt \in Nat \cup {NotYet} /\ breaks[f] \in Nat
  BY FeedAssumption DEF FeedsInv, FeedsTypeOK, FeedRows
<1>2. FeedsTypeOK'
  BY <1>1 DEF FeedsTypeOK
<1>3. RowsSettled'
  BY <1>1 DEF FeedsInv, RowsSettled
<1>4. pull'[s] = r /\ \A t \in FeedJobs \cup Pullers : t # s => pull'[t] = pull[t]
  BY <1>1 DEF FeedsTypeOK
<1>5. JobsKnow'
  BY <1>1, <1>4 DEF FeedsInv, JobsKnow
<1>6. Idle.pc = "idle"
  BY DEF Idle
<1>7. \A f \in Feeds, w \in Windows : Stamped(f, w) => Stamped(f, w)'
  <2> SUFFICES ASSUME NEW f \in Feeds, NEW w \in Windows, Stamped(f, w) PROVE Stamped(f, w)'
    OBVIOUS
  <2>1. feed[f].lastRunAt \in Nat /\ feed[f].lastRunAt <= tick /\ feed[f].lastRunAt >= w /\ w \in Int
    BY <1>1, FeedAssumption DEF FeedsInv, RowsSettled, Stamped, Windows
  <2> QED BY <1>1, <2>1 DEF Stamped
<1>8. ASSUME NEW t \in FeedJobs, NEW f \in Feeds, Ahead(pull'[t], f)
      PROVE  Ahead(pull[t], f) /\ WindowOf(pull'[t], f) = WindowOf(pull[t], f)
  <2>1. CASE t # s
    BY <1>4, <1>8, <2>1
  <2>2. CASE t = s
    <3>1. r # Idle /\ (f \in r.todo \/ (r.pc = "attempt" /\ r.feed = f)) /\ IsFeedDue(r.read[f].row, r.now)
      BY <1>4, <1>8, <2>2 DEF Ahead
    <3>2. f \in pull[s].todo /\ r.read = pull[s].read /\ r.now = pull[s].now
      BY <3>1
    <3> QED BY <1>4, <2>2, <3>1, <3>2 DEF Ahead, WindowOf
  <2> QED BY <2>1, <2>2
<1>9. ASSUME NEW t \in FeedJobs, NEW f \in Feeds, NEW w \in Windows, InHand(pull[t], f, w)
      PROVE  InHand(pull'[t], f, w) \/ Stamped(f, w)' \/ breaks'[f] > breaks[f]
  <2>1. CASE t # s
    BY <1>4, <1>9, <2>1
  <2>2. CASE t = s
    <3>1. /\ s \in FeedJobs /\ pull[s].pc \in {"fetch", "record", "stamp"} /\ pull[s].feed = f
          /\ w = WindowOf(pull[s], f)
      BY <1>9, <2>2 DEF InHand
    <3>2. CASE r.pc \in {"fetch", "record", "stamp"} /\ r.feed = f
      BY <1>4, <1>6, <2>2, <3>1, <3>2 DEF InHand, WindowOf
    <3>3. CASE feed'[f].lastRunAt = tick
      <4>1. /\ pull[s].read[f].row.timetable \in FeedTimetables /\ IsFeedDue(pull[s].read[f].row, pull[s].now)
            /\ pull[s].now \in Nat /\ pull[s].now <= tick
        BY <1>1, <3>1, PullFields DEF FeedsInv, JobsKnow
      <4>2. w \in Int /\ w <= pull[s].now
        BY <3>1, <4>1, WindowComes DEF WindowOf
      <4> QED BY <1>1, <3>3, <4>1, <4>2 DEF Stamped
    <3> QED BY <3>1, <3>2, <3>3
  <2> QED BY <2>1, <2>2
<1>10. NothingBefore' /\ AttemptsTallied'
  BY <1>1, <1>7, <1>8, <1>9, TallyKept
<1> QED BY <1>2, <1>3, <1>5, <1>10 DEF FeedsInv

LEMMA PullKeeps ==
  ASSUME FeedsInv, NEW s \in FeedJobs \cup Pullers,
         \/ RecordRun(s) \/ StampFeed(s) \/ BreakOff(s)
         \/ \E f \in Feeds : TakeFeed(s, f)
         \/ \E outcome \in Outcomes : Fetch(s, outcome)
  PROVE  FeedsInv'
<1> DEFINE r == pull[s]
<1>1. FeedsTypeOK /\ feed \in [Feeds -> FeedRows] /\ breaks \in [Feeds -> Nat] /\ tick \in Nat
      /\ \A f \in Feeds : breaks[f] >= breaks[f]
  BY DEF FeedsInv, FeedsTypeOK
<1>2. (r.pc # "idle" => r # Idle) /\ Idle \in PullStates /\ Idle.pc = "idle"
  BY DEF Idle, PullStates
<1>3. r # Idle => /\ r.todo \in SUBSET Feeds /\ r.read \in [Feeds -> Runnables] /\ r.now \in Nat
                  /\ r.pc # "feeds" => r.feed \in Feeds
                  /\ r.pc \in {"record", "stamp"} => r.outcome \in Outcomes
                  /\ r.pc \in {"feeds", "attempt", "fetch", "record", "stamp"}
  BY <1>1, PullFields
<1>4. s \in FeedJobs /\ r # Idle /\ r.pc # "feeds" =>
        /\ r.feed \notin r.todo /\ r.read[r.feed].row.timetable \in FeedTimetables
        /\ IsFeedDue(r.read[r.feed].row, r.now)
  BY DEF FeedsInv, JobsKnow
<1>5. s \in FeedJobs /\ r # Idle => \A f \in r.todo : r.read[f].row.timetable \in FeedTimetables
  BY DEF FeedsInv, JobsKnow
<1>6. ASSUME RecordRun(s) PROVE FeedsInv'
  <2> DEFINE q == [r EXCEPT !.pc = "stamp"]
  <2>1. r.pc = "record" /\ r # Idle /\ pull' = [pull EXCEPT ![s] = q]
        /\ UNCHANGED <<tick, agreement, feed, attempts, breaks>>
    BY <1>2, <1>6 DEF RecordRun, At, Continue
  <2>2. /\ q \in PullStates /\ q.pc = "stamp" /\ q.todo = r.todo /\ q.read = r.read /\ q.now = r.now
        /\ q.feed = r.feed
    BY <1>1, <2>1, PullFields DEF PullStates, Idle
  <2> HIDE DEF q
  <2> QED BY <1>1, <1>3, <1>4, <2>1, <2>2, SlotGoesOn
<1>7. ASSUME NEW outcome \in Outcomes, Fetch(s, outcome) PROVE FeedsInv'
  <2> DEFINE q == Become(r, "record", outcome)
  <2>1. r.pc = "fetch" /\ r # Idle /\ pull' = [pull EXCEPT ![s] = q]
        /\ UNCHANGED <<tick, agreement, feed, attempts, breaks>>
    BY <1>2, <1>7 DEF Fetch, At, Continue
  <2>2. /\ q \in PullStates /\ q.pc = "record" /\ q.todo = r.todo /\ q.read = r.read /\ q.now = r.now
        /\ q.feed = r.feed
    BY <1>3, <2>1 DEF PullStates, Become
  <2> HIDE DEF q
  <2> QED BY <1>1, <1>3, <1>4, <2>1, <2>2, SlotGoesOn
<1>8. ASSUME NEW f \in Feeds, TakeFeed(s, f) PROVE FeedsInv'
  <2> DEFINE rest == r.todo \ {f}
             q == IF IsFeedDue(r.read[f].row, r.now) THEN Pulling(r, rest, f) ELSE GoOnPulling(r, rest)
  <2>1. /\ r.pc = "feeds" /\ r # Idle /\ f \in r.todo /\ pull' = [pull EXCEPT ![s] = q]
        /\ UNCHANGED <<tick, agreement, feed, attempts, breaks>>
    BY <1>2, <1>8 DEF TakeFeed, At, Continue
  <2>2. rest \in SUBSET r.todo /\ f \notin rest /\ rest \in SUBSET Feeds
    BY <1>3, <2>1
  <2>3. CASE IsFeedDue(r.read[f].row, r.now)
    <3>1. /\ q \in PullStates /\ q.pc = "attempt" /\ q.todo = rest /\ q.read = r.read /\ q.now = r.now
          /\ q.feed = f
      BY <1>3, <2>1, <2>2, <2>3 DEF PullStates, Pulling
    <3> HIDE DEF q, rest
    <3> QED BY <1>1, <1>3, <1>5, <2>1, <2>2, <2>3, <3>1, SlotGoesOn
  <2>4. CASE ~IsFeedDue(r.read[f].row, r.now)
    <3>1. /\ q \in PullStates /\ q.pc \in {"idle", "feeds"}
          /\ q # Idle => q.todo = rest /\ q.pc = "feeds" /\ q.read = r.read /\ q.now = r.now
      BY <1>1, <2>1, <2>2, <2>4, GoesOn
    <3> HIDE DEF q, rest
    <3> QED BY <1>1, <1>3, <2>1, <2>2, <3>1, SlotGoesOn
  <2> QED BY <2>3, <2>4
<1>9. ASSUME StampFeed(s) PROVE FeedsInv'
  <2> DEFINE q == GoOnPulling(r, r.todo)
  <2>1. /\ r.pc = "stamp" /\ r # Idle /\ pull' = [pull EXCEPT ![s] = q]
        /\ feed' = [feed EXCEPT ![r.feed].lastRunAt = tick] /\ UNCHANGED <<tick, agreement, attempts, breaks>>
    BY <1>2, <1>9 DEF StampFeed, At, Continue, LastRun
  <2>2. /\ q \in PullStates /\ q.pc \in {"idle", "feeds"}
        /\ q # Idle => q.todo = r.todo /\ q.pc = "feeds" /\ q.read = r.read /\ q.now = r.now
    BY <1>1, <2>1, GoesOn
  <2>3. /\ feed' \in [Feeds -> FeedRows] /\ feed'[r.feed].lastRunAt = tick
        /\ \A f \in Feeds : /\ feed'[f].live = feed[f].live /\ feed'[f].timetable = feed[f].timetable
                            /\ feed'[f].agreement = feed[f].agreement
                            /\ feed'[f].lastRunAt = feed[f].lastRunAt \/ feed'[f].lastRunAt = tick
    <3> DEFINE row == [feed[r.feed] EXCEPT !.lastRunAt = tick]
    <3>1. row \in FeedRows /\ row.lastRunAt = tick
      BY <1>1, <1>3, <2>1 DEF FeedRows
    <3>2. /\ row.live = feed[r.feed].live /\ row.timetable = feed[r.feed].timetable
          /\ row.agreement = feed[r.feed].agreement
      BY <1>1, <1>3, <2>1 DEF FeedRows
    <3>3. feed' = [feed EXCEPT ![r.feed] = row]
      BY <2>1
    <3> HIDE DEF row
    <3>4. \A f \in Feeds : feed'[f] = IF f = r.feed THEN row ELSE feed[f]
      BY <1>1, <3>3
    <3>5. feed' \in [Feeds -> FeedRows]
      BY <1>1, <3>1, <3>3
    <3> QED BY <1>1, <1>3, <2>1, <3>1, <3>2, <3>4, <3>5
  <2> HIDE DEF q
  <2> QED BY <1>1, <1>3, <2>1, <2>2, <2>3, SlotGoesOn
<1>10. ASSUME BreakOff(s) PROVE FeedsInv'
  <2>1. PICK q \in {Idle, GoOnPulling(r, r.todo)} : pull' = [pull EXCEPT ![s] = q]
    BY <1>10 DEF BreakOff, Continue, Finish
  <2>2. /\ r.pc \in {"attempt", "fetch", "record", "stamp"} /\ r # Idle
        /\ breaks' = [breaks EXCEPT ![r.feed] = @ + 1] /\ UNCHANGED <<tick, agreement, feed, attempts>>
    BY <1>2, <1>10 DEF BreakOff
  <2>3. /\ q \in PullStates /\ q.pc \in {"idle", "feeds"}
        /\ q # Idle => q.todo = r.todo /\ q.pc = "feeds" /\ q.read = r.read /\ q.now = r.now
    <3>1. FeedsTypeOK /\ pull[s] # Idle /\ r.todo \in SUBSET r.todo
      BY <2>2 DEF FeedsInv
    <3>2. CASE q = Idle
      BY <3>2 DEF PullStates, Idle
    <3>3. CASE q = GoOnPulling(r, r.todo)
      BY <3>1, <3>3, GoesOn
    <3> QED BY <2>1, <3>2, <3>3
  <2>4. breaks' \in [Feeds -> Nat] /\ breaks'[r.feed] > breaks[r.feed]
        /\ \A f \in Feeds : breaks'[f] >= breaks[f]
    BY <1>1, <1>3, <2>2
  <2> QED BY <1>1, <1>3, <2>1, <2>2, <2>3, <2>4, SlotGoesOn
<1> QED BY <1>6, <1>7, <1>8, <1>9, <1>10

(* Nothing but rows written, which leaves the tally as it is.              *)
LEMMA RowsWritten ==
  ASSUME FeedsInv, UNCHANGED <<pull, attempts, breaks>>, tick' \in Nat, tick' >= tick,
         agreement' \in [Agreements -> AgreementRows],
         \A a \in Agreements : agreement'[a].live => agreement'[a].terms # NotYet,
         feed' \in [Feeds -> FeedRows],
         \A f \in Feeds : /\ feed'[f].lastRunAt = feed[f].lastRunAt
                          /\ feed'[f].live => /\ feed'[f].timetable \in FeedTimetables
                                              /\ feed'[f].agreement \in Agreements
  PROVE  FeedsInv'
<1>1. FeedsTypeOK /\ tick \in Nat
  BY DEF FeedsInv, FeedsTypeOK
<1>2. FeedsTypeOK'
  BY <1>1 DEF FeedsTypeOK
<1>3. RowsSettled'
  <2>1. \A f \in Feeds : feed[f].lastRunAt \in Nat \cup {NotYet}
    BY <1>1 DEF FeedsTypeOK, FeedRows
  <2> QED BY <1>1, <2>1 DEF FeedsInv, RowsSettled
<1>4. JobsKnow'
  <2>1. \A s \in FeedJobs : pull[s] # Idle => pull[s].now \in Nat
    BY <1>1, PullFields
  <2> QED BY <1>1, <2>1 DEF FeedsInv, JobsKnow
<1>5. NothingBefore' /\ AttemptsTallied'
  BY DEF FeedsInv, NothingBefore, AttemptsTallied, Stamped
<1> QED BY <1>2, <1>3, <1>4, <1>5 DEF FeedsInv

LEMMA ClockKeeps == FeedsInv /\ NextTick => FeedsInv'
<1> SUFFICES ASSUME FeedsInv, NextTick PROVE FeedsInv'
  OBVIOUS
<1>1. /\ tick' \in Nat /\ tick' >= tick /\ UNCHANGED <<agreement, feed, pull, attempts, breaks>>
      /\ agreement \in [Agreements -> AgreementRows] /\ feed \in [Feeds -> FeedRows]
  BY DEF FeedsInv, FeedsTypeOK, NextTick
<1> QED BY <1>1, RowsWritten DEF FeedsInv, RowsSettled

LEMMA AgreementKeeps ==
  ASSUME FeedsInv, NEW a \in Agreements,
         RemoveAgreement(a) \/ \E x \in Terms : CreateAgreement(a, x) \/ UpdateAgreement(a, x)
  PROVE  FeedsInv'
<1>1. /\ agreement \in [Agreements -> AgreementRows] /\ feed \in [Feeds -> FeedRows] /\ tick \in Nat
      /\ RowsSettled
  BY DEF FeedsInv, FeedsTypeOK
<1>2. UNCHANGED <<tick, feed, pull, attempts, breaks>>
  BY DEF RemoveAgreement, CreateAgreement, UpdateAgreement
<1> DEFINE Written == \E row \in AgreementRows : /\ agreement' = [agreement EXCEPT ![a] = row]
                                                 /\ row.live => row.terms # NotYet
<1>3. Written
  <2>1. ASSUME NEW x \in Terms, CreateAgreement(a, x) PROVE Written
    <3>1. [live |-> TRUE, terms |-> x] \in AgreementRows /\ x # NotYet
      BY TermsAssumption DEF AgreementRows
    <3> QED BY <2>1, <3>1 DEF CreateAgreement
  <2>2. ASSUME NEW x \in Terms, UpdateAgreement(a, x) PROVE Written
    <3>1. [agreement[a] EXCEPT !.terms = x] \in AgreementRows /\ x # NotYet
      BY <1>1, TermsAssumption DEF AgreementRows
    <3>2. [agreement[a] EXCEPT !.terms = x].terms = x
      BY <1>1 DEF AgreementRows
    <3> QED BY <2>2, <3>1, <3>2 DEF UpdateAgreement
  <2>3. ASSUME RemoveAgreement(a) PROVE Written
    <3>1. agreement[a].terms \in AllTerms /\ agreement[a] \in AgreementRows
      BY <1>1, <2>3 DEF RowsSettled, RemoveAgreement, AgreementRows
    <3>2. [agreement[a].terms EXCEPT !.status = "TERMINATED"] \in AllTerms
      BY <3>1 DEF AllTerms, AgreementStatuses
    <3> DEFINE row == [agreement[a] EXCEPT !.live = FALSE, !.terms.status = "TERMINATED"]
    <3>3. row \in AgreementRows /\ row.live = FALSE
      BY <3>1, <3>2 DEF AgreementRows
    <3>4. agreement' = [agreement EXCEPT ![a] = row]
      BY <1>1, <2>3 DEF RemoveAgreement
    <3> QED BY <3>3, <3>4
  <2> QED BY <2>1, <2>2, <2>3
<1> QED BY <1>1, <1>2, <1>3, RowsWritten DEF RowsSettled

LEMMA FeedKeeps ==
  ASSUME FeedsInv, NEW f \in Feeds,
         \/ RemoveFeed(f)
         \/ \E k \in FeedTimetables : \/ \E a \in Agreements : CreateFeed(f, a, k)
                                      \/ \E b \in BOOLEAN : UpdateFeed(f, b, k)
  PROVE  FeedsInv'
<1>1. /\ agreement \in [Agreements -> AgreementRows] /\ feed \in [Feeds -> FeedRows] /\ tick \in Nat
      /\ RowsSettled
  BY DEF FeedsInv, FeedsTypeOK
<1>2. UNCHANGED <<tick, agreement, pull, attempts, breaks>>
  BY DEF RemoveFeed, CreateFeed, UpdateFeed
<1> DEFINE Written(row) == /\ row \in FeedRows /\ row.lastRunAt = feed[f].lastRunAt
                           /\ row.live => row.timetable \in FeedTimetables /\ row.agreement \in Agreements
<1>3. ASSUME NEW row, Written(row), feed' = [feed EXCEPT ![f] = row] PROVE FeedsInv'
  <2>1. /\ feed' \in [Feeds -> FeedRows]
        /\ \A g \in Feeds : /\ feed'[g].lastRunAt = feed[g].lastRunAt
                            /\ feed'[g].live => /\ feed'[g].timetable \in FeedTimetables
                                                /\ feed'[g].agreement \in Agreements
    BY <1>1, <1>3 DEF RowsSettled
  <2>2. /\ UNCHANGED <<pull, attempts, breaks>> /\ tick' \in Nat /\ tick' >= tick
        /\ agreement' \in [Agreements -> AgreementRows]
        /\ \A a \in Agreements : agreement'[a].live => agreement'[a].terms # NotYet
    BY <1>1, <1>2 DEF RowsSettled
  <2> QED BY <2>1, <2>2, RowsWritten
<1>4. ASSUME RemoveFeed(f) PROVE FeedsInv'
  <2> DEFINE row == [feed[f] EXCEPT !.live = FALSE, !.isEnabled = FALSE]
  <2>1. Written(row)
    BY <1>1 DEF FeedRows
  <2>2. feed' = [feed EXCEPT ![f] = row]
    BY <1>1, <1>4 DEF RemoveFeed
  <2> HIDE DEF row
  <2> QED BY <1>3, <2>1, <2>2
<1>5. ASSUME NEW k \in FeedTimetables, NEW b \in BOOLEAN, UpdateFeed(f, b, k) PROVE FeedsInv'
  <2> DEFINE row == [feed[f] EXCEPT !.isEnabled = b, !.timetable = k]
  <2>1. feed[f] \in FeedRows /\ row \in FeedRows /\ row.lastRunAt = feed[f].lastRunAt
        /\ row.timetable = k /\ row.agreement = feed[f].agreement /\ feed[f].live
    BY <1>1, <1>5 DEF FeedRows, UpdateFeed
  <2>2. Written(row)
    BY <1>1, <2>1 DEF RowsSettled
  <2>3. feed' = [feed EXCEPT ![f] = row]
    BY <1>1, <1>5 DEF UpdateFeed
  <2> HIDE DEF row
  <2> QED BY <1>3, <2>2, <2>3
<1>6. ASSUME NEW k \in FeedTimetables, NEW a \in Agreements, CreateFeed(f, a, k) PROVE FeedsInv'
  <2> DEFINE row == [live |-> TRUE, isEnabled |-> TRUE, agreement |-> a, timetable |-> k, lastRunAt |-> NotYet]
  <2>1. Written(row)
    BY <1>6 DEF CreateFeed, NoFeed, FeedRows
  <2>2. feed' = [feed EXCEPT ![f] = row]
    BY <1>6 DEF CreateFeed
  <2> HIDE DEF row
  <2> QED BY <1>3, <2>1, <2>2
<1> QED BY <1>4, <1>5, <1>6

(* Taking the job up: what is due then has not been stamped in its window, *)
(* and nothing is in hand, for there is one job.                           *)
LEMMA JobStarts ==
  ASSUME FeedsInv, NEW s \in FeedJobs, \A t \in FeedJobs : t = s, FeedJobs \cap Pullers = {},
         StartFeedJob(s)
  PROVE  FeedsInv'
<1> DEFINE enabled == {f \in Feeds : feed[f].live /\ feed[f].isEnabled /\ agreement[feed[f].agreement].live}
           r == [pc |-> "feeds", todo |-> enabled, read |-> ReadOf(enabled), now |-> tick]
<1>1. /\ FeedsTypeOK /\ feed \in [Feeds -> FeedRows] /\ tick \in Nat
      /\ agreement \in [Agreements -> AgreementRows]
      /\ \A f \in Feeds, w \in Windows : attempts[<<f, w>>] \in Nat /\ breaks[f] \in Nat
  BY DEF FeedsInv, FeedsTypeOK
<1>2. /\ pull[s] = Idle /\ UNCHANGED <<tick, agreement, feed, attempts, breaks>>
      /\ pull' = [pull EXCEPT ![s] = IF enabled = {} THEN Idle ELSE r]
  BY DEF StartFeedJob, Begin, GoOnPulling
<1>3. \A f \in enabled : Runnable(f) \in Runnables /\ feed[f].timetable \in FeedTimetables
  BY <1>1 DEF FeedsInv, RowsSettled, Runnable, Runnables, AgreementRows
<1>4. ReadOf(enabled) \in [Feeds -> Runnables] /\ \A f \in enabled : ReadOf(enabled)[f].row = feed[f]
  <2>1. [row |-> NoFeed, terms |-> NotYet] \in Runnables
    BY DEF Runnables, NoFeed, FeedRows
  <2> QED BY <1>3, <2>1 DEF ReadOf, Runnable
<1>5. r \in PullStates /\ r.pc = "feeds" /\ r.todo = enabled /\ r.read = ReadOf(enabled) /\ r.now = tick
  BY <1>1, <1>4 DEF PullStates
<1>6. Idle \in PullStates /\ Idle.pc = "idle"
  BY DEF Idle, PullStates
<1> HIDE DEF r
<1>7. pull'[s] = (IF enabled = {} THEN Idle ELSE r) /\ \A t \in FeedJobs \cup Pullers : t # s => pull'[t] = pull[t]
  BY <1>1, <1>2 DEF FeedsTypeOK
<1>8. FeedsTypeOK' /\ RowsSettled'
  BY <1>1, <1>2, <1>5, <1>6 DEF FeedsInv, FeedsTypeOK, RowsSettled
<1>9. JobsKnow'
  <2>1. \A f \in r.todo : r.read[f].row.timetable \in FeedTimetables
    BY <1>3, <1>4, <1>5
  <2>2. \A t \in FeedJobs : pull'[t] # Idle => pull'[t] = r /\ t = s
    BY <1>7
  <2> HIDE DEF enabled
  <2>3. r.now <= tick'
    BY <1>1, <1>2, <1>5
  <2> QED BY <1>5, <2>1, <2>2, <2>3 DEF JobsKnow
<1>10. \A f \in Feeds, w \in Windows, t \in FeedJobs : ~InHand(pull[t], f, w)
  BY <1>2, <1>6 DEF InHand
<1>11. NothingBefore'
  <2> SUFFICES ASSUME NEW f \in Feeds, NEW w \in Windows, enabled # {}, Ahead(r, f), w = WindowOf(r, f)
               PROVE  attempts[<<f, w>>] <= breaks[f]
    BY <1>2, <1>7 DEF NothingBefore, Ahead
  <2>1. f \in enabled /\ IsFeedDue(feed[f], tick) /\ w = FeedWindow(feed[f].timetable, tick)
    BY <1>4, <1>5 DEF Ahead, WindowOf
  <2>2. feed[f].lastRunAt \in Nat \cup {NotYet} /\ w \in Int
    BY <1>1, FeedAssumption DEF FeedRows, Windows
  <2>3. ~Stamped(f, w)
    BY <2>1, <2>2 DEF IsFeedDue, Stamped
  <2> QED BY <1>1, <1>10, <2>3 DEF FeedsInv, AttemptsTallied
<1>12. AttemptsTallied'
  BY <1>2, <1>10 DEF FeedsInv, AttemptsTallied, Stamped
<1> QED BY <1>8, <1>9, <1>11, <1>12 DEF FeedsInv

(* What an administrator pulls by hand counts towards no window.           *)
LEMMA ButtonKeeps ==
  ASSUME FeedsInv, NEW s \in FeedJobs \cup Pullers, FeedJobs \cap Pullers = {}, s \notin FeedJobs,
         CreateRun(s) \/ \E f \in Feeds : RunFeed(s, f)
  PROVE  FeedsInv'
<1>1. /\ FeedsTypeOK /\ tick \in Nat /\ UNCHANGED <<tick, agreement, feed, attempts, breaks>>
      /\ \A f \in Feeds, w \in Windows : attempts[<<f, w>>] \in Nat /\ breaks[f] \in Nat
  BY DEF FeedsInv, FeedsTypeOK, CreateRun, RunFeed
<1>2. PICK r \in PullStates : pull' = [pull EXCEPT ![s] = r]
  <2>1. ASSUME CreateRun(s) PROVE \E r \in PullStates : pull' = [pull EXCEPT ![s] = r]
    <3> DEFINE q == IF InForce(pull[s].read[pull[s].feed].terms, tick) THEN [pull[s] EXCEPT !.pc = "fetch"]
                    ELSE Become(pull[s], "stamp", "SKIPPED")
    <3>1. pull[s].pc = "attempt" /\ pull' = [pull EXCEPT ![s] = q]
      BY <2>1 DEF CreateRun, At, Continue
    <3>2. pull[s] \in [pc : {"attempt", "fetch"}, todo : SUBSET Feeds, read : [Feeds -> Runnables],
                       now : Nat, feed : Feeds]
      BY <1>1, <3>1, PullFields DEF PullStates, Idle
    <3>3. [pull[s] EXCEPT !.pc = "fetch"] \in PullStates
      BY <3>2 DEF PullStates
    <3>4. Become(pull[s], "stamp", "SKIPPED") \in PullStates
      BY <3>2 DEF PullStates, Become, Outcomes
    <3>5. q \in PullStates
      BY <3>3, <3>4
    <3> QED BY <3>1, <3>5
  <2>2. ASSUME NEW f \in Feeds, RunFeed(s, f) PROVE \E r \in PullStates : pull' = [pull EXCEPT ![s] = r]
    <3> DEFINE q == Pulling([read |-> ReadOf({f}), now |-> tick], {}, f)
    <3>1. feed[f] \in FeedRows /\ feed[f].live /\ feed[f].agreement \in Agreements
      BY <1>1, <2>2 DEF FeedsInv, FeedsTypeOK, RowsSettled, RunFeed
    <3>2. Runnable(f) \in Runnables /\ [row |-> NoFeed, terms |-> NotYet] \in Runnables
      BY <1>1, <3>1 DEF FeedsTypeOK, Runnable, Runnables, AgreementRows, NoFeed, FeedRows
    <3>3. ReadOf({f}) \in [Feeds -> Runnables]
      BY <3>2 DEF ReadOf
    <3>4. q \in PullStates
      BY <1>1, <3>3 DEF PullStates, Pulling
    <3>5. pull' = [pull EXCEPT ![s] = q]
      BY <2>2 DEF RunFeed, Begin
    <3> QED BY <3>4, <3>5
  <2> QED BY <2>1, <2>2
<1>3. \A t \in FeedJobs : pull'[t] = pull[t]
  BY <1>1, <1>2 DEF FeedsTypeOK
<1>4. FeedsTypeOK' /\ RowsSettled' /\ JobsKnow'
  <2>1. FeedsTypeOK'
    BY <1>1, <1>2 DEF FeedsTypeOK
  <2>2. RowsSettled'
    BY <1>1 DEF FeedsInv, RowsSettled
  <2>3. JobsKnow'
    BY <1>1, <1>3 DEF FeedsInv, JobsKnow
  <2> QED BY <2>1, <2>2, <2>3
<1>5. \A f \in Feeds, w \in Windows : Stamped(f, w) => Stamped(f, w)'
  BY <1>1 DEF Stamped
<1>6. NothingBefore' /\ AttemptsTallied'
  <2>1. breaks \in [Feeds -> Nat]
    BY <1>1 DEF FeedsTypeOK
  <2>2. \A f \in Feeds : breaks[f] \in Nat /\ breaks'[f] \in Nat /\ breaks'[f] >= breaks[f]
    BY <1>1, <2>1
  <2>3. \A t \in FeedJobs, f \in Feeds :
          Ahead(pull'[t], f) => Ahead(pull[t], f) /\ WindowOf(pull'[t], f) = WindowOf(pull[t], f)
    BY <1>3
  <2>4. \A t \in FeedJobs, f \in Feeds, w \in Windows : InHand(pull[t], f, w) => InHand(pull'[t], f, w)
    BY <1>3
  <2> QED BY <1>1, <1>5, <2>2, <2>3, <2>4, TallyKept
<1> QED BY <1>4, <1>6 DEF FeedsInv

LEMMA Bumped ==
  ASSUME NEW S, NEW h \in [S -> Nat], NEW e PROVE [h EXCEPT ![e] = @ + 1] \in [S -> Nat]
<1>1. CASE e \in S
  <2>1. h[e] + 1 \in Nat
    BY <1>1
  <2> QED BY <2>1
<1>2. CASE e \notin S
  <2>1. [h EXCEPT ![e] = @ + 1] = h
    BY <1>2
  <2> QED BY <2>1
<1> QED BY <1>1, <1>2

(* The attempt takes up a window that had none, and has it in hand.        *)
LEMMA AttemptKeeps ==
  ASSUME FeedsInv, NEW s \in FeedJobs, \A t \in FeedJobs : t = s, FeedJobs \cap Pullers = {}, CreateRun(s)
  PROVE  FeedsInv'
<1> DEFINE r == pull[s]
           g == r.feed
           v == WindowOf(r, g)
           q == IF InForce(r.read[g].terms, tick) THEN [r EXCEPT !.pc = "fetch"] ELSE Become(r, "stamp", "SKIPPED")
<1>1. FeedsTypeOK /\ UNCHANGED <<tick, agreement, feed, breaks>> /\ r.pc = "attempt" /\ r # Idle
      /\ pull' = [pull EXCEPT ![s] = q] /\ attempts' = [attempts EXCEPT ![<<g, v>>] = @ + 1]
  BY DEF FeedsInv, CreateRun, At, Continue, WindowOf, Idle
<1>2. r \in [pc : {"attempt", "fetch"}, todo : SUBSET Feeds, read : [Feeds -> Runnables], now : Nat, feed : Feeds]
  BY <1>1, PullFields DEF PullStates, Idle
<1>3. /\ q \in PullStates /\ q.pc \in {"fetch", "stamp"} /\ q.todo = r.todo /\ q.read = r.read /\ q.now = r.now
      /\ q.feed = g
  <2>1. CASE InForce(r.read[g].terms, tick)
    BY <1>1, <1>2, <2>1 DEF PullStates
  <2>2. CASE ~InForce(r.read[g].terms, tick)
    BY <1>1, <1>2, <2>2 DEF PullStates, Become, Outcomes
  <2> QED BY <2>1, <2>2
<1>4. g \in Feeds /\ g \notin r.todo /\ r.read[g].row.timetable \in FeedTimetables /\ IsFeedDue(r.read[g].row, r.now)
  BY <1>1, <1>2 DEF FeedsInv, JobsKnow
<1>5. attempts \in [Feeds \X Windows -> Nat] /\ breaks \in [Feeds -> Nat]
  BY <1>1 DEF FeedsTypeOK
<1> HIDE DEF q
<1>6. pull'[s] = q /\ \A t \in FeedJobs \cup Pullers : t # s => pull'[t] = pull[t]
  BY <1>1 DEF FeedsTypeOK
<1>7. FeedsTypeOK' /\ RowsSettled'
  <2>1. pull' \in [FeedJobs \cup Pullers -> PullStates]
    BY <1>1, <1>3 DEF FeedsTypeOK
  <2> HIDE DEF v, g
  <2>2. attempts' \in [Feeds \X Windows -> Nat]
    BY <1>1, <1>5, Bumped
  <2>3. FeedsTypeOK'
    BY <1>1, <2>1, <2>2 DEF FeedsTypeOK
  <2> QED BY <1>1, <2>3 DEF FeedsInv, RowsSettled
<1>8. JobsKnow'
  BY <1>1, <1>3, <1>4, <1>6 DEF FeedsInv, JobsKnow
<1>9. \A f \in Feeds, w \in Windows :
        attempts'[<<f, w>>] = IF f = g /\ w = v THEN attempts[<<f, w>>] + 1 ELSE attempts[<<f, w>>]
  BY <1>1, <1>5
<1>10. v \in Windows => attempts[<<g, v>>] <= breaks[g]
  BY <1>1, <1>4 DEF FeedsInv, NothingBefore, Ahead
<1>11. NothingBefore'
  <2> SUFFICES ASSUME NEW f \in Feeds, NEW w \in Windows, Ahead(q, f), w = WindowOf(q, f)
               PROVE  attempts'[<<f, w>>] <= breaks[f]
    BY <1>1, <1>6 DEF NothingBefore
  <2>1. f \in r.todo /\ Ahead(r, f) /\ w = WindowOf(r, f) /\ f # g
    BY <1>1, <1>3, <1>4 DEF Ahead, WindowOf
  <2> QED BY <1>9, <2>1 DEF FeedsInv, NothingBefore
<1>12. AttemptsTallied'
  <2> SUFFICES ASSUME NEW f \in Feeds, NEW w \in Windows
               PROVE  /\ attempts'[<<f, w>>] <= 1 + breaks[f]
                      /\ attempts'[<<f, w>>] > breaks[f] => Stamped(f, w) \/ InHand(q, f, w)
    BY <1>1, <1>6 DEF AttemptsTallied, Stamped
  <2>1. CASE f = g /\ w = v
    <3>1. InHand(q, f, w)
      BY <1>3, <2>1 DEF InHand, WindowOf
    <3> HIDE DEF v, g
    <3>2. attempts'[<<f, w>>] = attempts[<<f, w>>] + 1 /\ attempts[<<f, w>>] <= breaks[f]
      BY <1>9, <1>10, <2>1
    <3>3. attempts[<<f, w>>] \in Nat /\ breaks[f] \in Nat
      BY <1>5
    <3> QED BY <3>1, <3>2, <3>3
  <2>2. CASE ~(f = g /\ w = v)
    <3>1. \A t \in FeedJobs : ~InHand(pull[t], f, w)
      BY <1>1 DEF InHand
    <3> QED BY <1>9, <2>2, <3>1 DEF FeedsInv, AttemptsTallied
  <2> QED BY <2>1, <2>2
<1> QED BY <1>7, <1>8, <1>11, <1>12 DEF FeedsInv

(* Under one scheduler, the hourly job makes one attempt at a feed in each *)
(* of its windows, and one more only for each that broke off, for any      *)
(* number of feeds, agreements and buttons and whatever the timetables     *)
(* are: an attempt is in hand until the feed is stamped, with a time no    *)
(* earlier than the window it was made for.                                *)
THEOREM OnePullPerWindow ==
  ASSUME \A s, t \in FeedJobs : s = t, FeedJobs \cap Pullers = {}
  PROVE  FeedsSpec => []OneAttemptPerWindow
<1>1. FeedsInv /\ [FeedsNext]_feedVars => FeedsInv'
  <2> SUFFICES ASSUME FeedsInv, [FeedsNext]_feedVars PROVE FeedsInv'
    OBVIOUS
  <2>1. CASE UNCHANGED feedVars
    BY <2>1 DEF feedVars, FeedsInv, FeedsTypeOK, RowsSettled, JobsKnow, NothingBefore, AttemptsTallied, Stamped
  <2>2. ASSUME NEW s \in FeedJobs \cup Pullers, PullStep(s) PROVE FeedsInv'
    <3>1. CASE s \in FeedJobs
      <4>1. ~ \E f \in Feeds : RunFeed(s, f)
        BY <3>1 DEF RunFeed
      <4> QED BY <2>2, <3>1, <4>1, JobStarts, AttemptKeeps, PullKeeps DEF PullStep
    <3>2. CASE s \notin FeedJobs
      <4>1. ~StartFeedJob(s)
        BY <3>2 DEF StartFeedJob
      <4> QED BY <2>2, <3>2, <4>1, ButtonKeeps, PullKeeps DEF PullStep
    <3> QED BY <3>1, <3>2
  <2>3. CASE FeedsNext
    BY <2>2, <2>3, ClockKeeps, AgreementKeeps, FeedKeeps DEF FeedsNext
  <2> QED BY <2>1, <2>3
<1>2. FeedsInv => OneAttemptPerWindow
  BY DEF FeedsInv, AttemptsTallied, OneAttemptPerWindow
<1> QED BY <1>1, <1>2, FeedsInitially, PTL DEF FeedsSpec

-----------------------------------------------------------------------------
(* Notifications.                                                          *)

OnceEach(todo) == \A i, j \in DOMAIN todo : todo[i] = todo[j] => i = j

(* The notices a worker may still mail: a text is the last a row gets.     *)
Mailing(r) ==
  IF r = Idle THEN {} ELSE IF r.pc = "text" THEN ToSet(Tail(r.todo)) ELSE ToSet(r.todo)

(* The retry job holds failed rows; a request, those it has not created    *)
(* yet and the one it has just created.                                    *)
HoldsRows(w, r, mail) ==
  r # Idle =>
    /\ r.todo # <<>> /\ OnceEach(r.todo)
    /\ r.job = "send" => w \in Retries /\ \A n \in Mailing(r) : mail[n] = "FAILED"
    /\ r.job = "create" => \A n \in Mailing(r) :
         mail[n] = IF r.pc \in {"send", "record"} /\ n = Head(r.todo) THEN "PENDING" ELSE "NONE"

(* A mail that arrived, on its way to being recorded.                      *)
Unrecorded(r, n) == r.pc = "record" /\ r.status = "SENT" /\ Head(r.todo) = n

NoticeRows ==
  /\ email \in [Notices -> EmailStatuses]
  /\ {copies, doubts} \subseteq [Notices -> Nat]
  /\ worker \in [Workers -> WorkerStates]

RowsHeld    == \A w \in Workers : HoldsRows(w, worker[w], email)
HeldByOne   == \A v, w \in Workers : v # w => Mailing(worker[v]) \cap Mailing(worker[w]) = {}
CopyAllowed(n) == email[n] = "SENT" \/ \E w \in Workers : Unrecorded(worker[w], n)
MailsCounted ==
  \A n \in Notices : /\ copies[n] <= doubts[n] + 1
                     /\ copies[n] = doubts[n] + 1 => CopyAllowed(n)

NoticesInv == NoticeRows /\ RowsHeld /\ HeldByOne /\ MailsCounted

LEMMA HeadAndTail ==
  ASSUME NEW S, NEW todo \in Seq(S), todo # <<>>, OnceEach(todo)
  PROVE  /\ Head(todo) \in S /\ Head(todo) \in ToSet(todo)
         /\ Tail(todo) \in Seq(S) /\ OnceEach(Tail(todo))
         /\ Head(todo) \notin ToSet(Tail(todo))
         /\ ToSet(Tail(todo)) \subseteq ToSet(todo)
<1>1. Len(todo) \in Nat \ {0} /\ DOMAIN todo = 1..Len(todo) /\ Head(todo) = todo[1]
  OBVIOUS
<1>2. /\ Tail(todo) \in Seq(S) /\ DOMAIN Tail(todo) = 1..(Len(todo) - 1)
      /\ \A i \in 1..(Len(todo) - 1) : Tail(todo)[i] = todo[i + 1]
  BY <1>1
<1>3. \A i \in DOMAIN Tail(todo) : i + 1 \in DOMAIN todo /\ i + 1 # 1
  BY <1>1, <1>2
<1>4. OnceEach(Tail(todo))
  BY <1>2, <1>3 DEF OnceEach
<1>5. Head(todo) \in S /\ Head(todo) \in ToSet(todo)
  BY <1>1 DEF ToSet
<1>6. Head(todo) \notin ToSet(Tail(todo))
  BY <1>1, <1>2, <1>3 DEF ToSet, OnceEach
<1>7. ToSet(Tail(todo)) \subseteq ToSet(todo)
  BY <1>2, <1>3 DEF ToSet
<1> QED BY <1>2, <1>4, <1>5, <1>6, <1>7

(* What a worker may go on with.                                           *)
LEMMA ProceedRow ==
  ASSUME NEW todo \in Seq(Notices), OnceEach(todo), NEW job \in {"create", "send"},
         NEW w, NEW mail,
         job = "send" => w \in Retries /\ \A n \in ToSet(todo) : mail[n] = "FAILED",
         job = "create" => \A n \in ToSet(todo) : mail[n] = "NONE"
  PROVE  /\ Proceed(todo, job) \in WorkerStates
         /\ Mailing(Proceed(todo, job)) \subseteq ToSet(todo)
         /\ HoldsRows(w, Proceed(todo, job), mail)
         /\ \A n : ~Unrecorded(Proceed(todo, job), n)
<1> DEFINE row == Proceed(todo, job)
           Goes   == /\ row \in WorkerStates /\ Mailing(row) \subseteq ToSet(todo)
                     /\ HoldsRows(w, row, mail) /\ \A n : ~Unrecorded(row, n)
<1> SUFFICES Goes
  OBVIOUS
<1>1. CASE todo = <<>>
  <2>1. row = Idle
    BY <1>1 DEF Proceed
  <2>2. row.pc = "idle"
    BY <2>1 DEF Idle
  <2> HIDE DEF row
  <2> QED BY <2>1, <2>2 DEF WorkerStates, Mailing, HoldsRows, Unrecorded
<1>2. CASE todo # <<>> /\ job = "create"
  <2>1. row = [pc |-> "create", todo |-> todo, job |-> "create"]
    BY <1>2 DEF Proceed
  <2>2. row \in WorkerStates
    BY <2>1 DEF WorkerStates
  <2>3. row.pc = "create" /\ row.todo = todo /\ row.job = "create" /\ row # Idle
    BY <2>1 DEF Idle
  <2> HIDE DEF row
  <2>4. Mailing(row) = ToSet(todo)
    BY <2>3 DEF Mailing
  <2> QED BY <1>2, <2>2, <2>3, <2>4 DEF HoldsRows, Unrecorded
<1>3. CASE todo # <<>> /\ job = "send"
  <2>1. row = [pc |-> "send", todo |-> todo, job |-> "send", attempts |-> 0]
    BY <1>3 DEF Proceed, Sending
  <2>2. row \in WorkerStates
    BY <2>1, BatchAssumption DEF WorkerStates
  <2>3. row.pc = "send" /\ row.todo = todo /\ row.job = "send" /\ row # Idle
    BY <2>1 DEF Idle
  <2> HIDE DEF row
  <2>4. Mailing(row) = ToSet(todo)
    BY <2>3 DEF Mailing
  <2> QED BY <1>3, <2>2, <2>3, <2>4 DEF HoldsRows, Unrecorded
<1> QED BY <1>1, <1>2, <1>3

LEMMA NoticesInitially == NotificationsInit => NoticesInv
<1> SUFFICES ASSUME NotificationsInit PROVE NoticesInv
  OBVIOUS
<1>1. NoticeRows
  BY DEF NotificationsInit, NoticeRows, EmailStatuses, WorkerStates
<1>2. \A w \in Workers : worker[w] = Idle
  BY DEF NotificationsInit
<1>3. RowsHeld /\ HeldByOne
  BY <1>2 DEF RowsHeld, HeldByOne, HoldsRows, Mailing
<1>4. MailsCounted
  BY DEF NotificationsInit, MailsCounted
<1> QED BY <1>1, <1>3, <1>4 DEF NoticesInv

(* A worker that takes up nothing another holds, and changes no row that   *)
(* another holds, leaves the others as they were.                          *)
LEMMA WorkerGoesOn ==
  ASSUME NoticesInv, NEW w \in Workers, NEW r \in WorkerStates,
         worker' = [worker EXCEPT ![w] = r],
         email' \in [Notices -> EmailStatuses], {copies', doubts'} \subseteq [Notices -> Nat],
         HoldsRows(w, r, email'),
         \A v \in Workers \ {w} : /\ Mailing(r) \cap Mailing(worker[v]) = {}
                                  /\ \A n \in Mailing(worker[v]) : email'[n] = email[n]
  PROVE  (NoticeRows /\ RowsHeld /\ HeldByOne)'
<1>1. worker'[w] = r /\ \A v \in Workers \ {w} : worker'[v] = worker[v]
  BY DEF NoticesInv, NoticeRows
<1>2. NoticeRows'
  BY DEF NoticesInv, NoticeRows
<1>3. RowsHeld'
  <2> SUFFICES ASSUME NEW v \in Workers PROVE HoldsRows(v, worker'[v], email')
    BY DEF RowsHeld
  <2>1. CASE v = w
    BY <2>1, <1>1
  <2>2. CASE v # w
    BY <2>2, <1>1 DEF NoticesInv, RowsHeld, HoldsRows
  <2> QED BY <2>1, <2>2
<1>4. HeldByOne'
  BY <1>1 DEF NoticesInv, HeldByOne
<1> QED BY <1>2, <1>3, <1>4

(* Nobody but the worker that holds a notice records anything about it.    *)
LEMMA RecordedByItsHolder ==
  ASSUME NoticesInv, NEW w \in Workers, worker[w].pc \in {"send", "record"},
         NEW v \in Workers, NEW n, Unrecorded(worker[v], n), n \in Mailing(worker[w])
  PROVE  v = w
<1>1. worker[v] # Idle
  BY DEF Unrecorded, Idle
<1>2. worker[v] \in WorkerStates /\ worker[v].todo # <<>> /\ worker[v].pc = "record"
  BY <1>1 DEF NoticesInv, NoticeRows, RowsHeld, HoldsRows, Unrecorded
<1>3. worker[v].todo \in Seq(Notices)
  BY <1>1, <1>2 DEF WorkerStates
<1>4. Head(worker[v].todo) \in ToSet(worker[v].todo)
  BY <1>1, <1>2, <1>3, HeadAndTail DEF NoticesInv, RowsHeld, HoldsRows
<1>5. n \in Mailing(worker[v])
  BY <1>1, <1>2, <1>4 DEF Mailing, Unrecorded
<1> QED BY <1>5 DEF NoticesInv, HeldByOne

-----------------------------------------------------------------------------
LEMMA Serving ==
  ASSUME NoticesInv, NEW w \in Workers, worker[w] # Idle
  PROVE  LET r == worker[w] IN
         /\ r \in WorkerStates /\ HoldsRows(w, r, email)
         /\ r.pc \in {"create", "text", "send", "record"} /\ r.job \in {"create", "send"}
         /\ r.pc \in {"create", "text"} => r.job = "create"
         /\ r.pc = "send" => r.attempts \in 0..MaxEmailAttempts
         /\ r.pc = "record" => r.status \in {"SENT", "FAILED"}
         /\ r.todo \in Seq(Notices) /\ r.todo # <<>> /\ OnceEach(r.todo)
         /\ Head(r.todo) \in Notices /\ Head(r.todo) \in ToSet(r.todo)
         /\ Tail(r.todo) \in Seq(Notices) /\ OnceEach(Tail(r.todo))
         /\ Head(r.todo) \notin ToSet(Tail(r.todo)) /\ ToSet(Tail(r.todo)) \subseteq ToSet(r.todo)
         /\ r.pc # "text" => Mailing(r) = ToSet(r.todo)
         /\ r.pc = "text" => Mailing(r) = ToSet(Tail(r.todo))
<1> DEFINE r == worker[w]
<1>1. r \in WorkerStates /\ HoldsRows(w, r, email) /\ r # Idle
  BY DEF NoticesInv, NoticeRows, RowsHeld
<1> HIDE DEF r
<1>2. r.todo # <<>> /\ OnceEach(r.todo)
  BY <1>1 DEF HoldsRows
<1>3. /\ r.pc \in {"create", "text", "send", "record"} /\ r.job \in {"create", "send"}
      /\ r.pc \in {"create", "text"} => r.job = "create"
      /\ r.pc = "send" => r.attempts \in 0..MaxEmailAttempts
      /\ r.pc = "record" => r.status \in {"SENT", "FAILED"}
      /\ r.todo \in Seq(Notices)
  BY <1>1 DEF WorkerStates
<1>4. /\ r.pc # "text" => Mailing(r) = ToSet(r.todo)
      /\ r.pc = "text" => Mailing(r) = ToSet(Tail(r.todo))
  BY <1>1 DEF Mailing
<1>5. /\ Head(r.todo) \in Notices /\ Head(r.todo) \in ToSet(r.todo)
      /\ Tail(r.todo) \in Seq(Notices) /\ OnceEach(Tail(r.todo))
      /\ Head(r.todo) \notin ToSet(Tail(r.todo)) /\ ToSet(Tail(r.todo)) \subseteq ToSet(r.todo)
  BY <1>2, <1>3, HeadAndTail
<1> QED BY <1>1, <1>2, <1>3, <1>4, <1>5 DEF r

(* While a notice is being mailed its row does not say that it was sent.   *)
LEMMA BeingMailed ==
  ASSUME NoticesInv, NEW w \in Workers, worker[w].pc \in {"send", "record"}
  PROVE  LET n == Head(worker[w].todo) IN
         /\ worker[w] # Idle /\ n \in Mailing(worker[w]) /\ n \in Notices
         /\ email[n] # "SENT" /\ \A v \in Workers : Unrecorded(worker[v], n) => v = w
<1>1. worker[w] # Idle
  BY DEF Idle
<1> DEFINE n == Head(worker[w].todo)
<1>2. n \in Mailing(worker[w]) /\ n \in Notices
  BY <1>1, Serving
<1>3. email[n] # "SENT"
  BY <1>1, <1>2, Serving DEF HoldsRows
<1>4. \A v \in Workers : Unrecorded(worker[v], n) => v = w
  BY <1>2, RecordedByItsHolder
<1> QED BY <1>1, <1>2, <1>3, <1>4

(* The count is kept where rows, mails and doubts of a notice stay, unless *)
(* the worker was recording it.                                            *)
LEMMA CountsKept ==
  ASSUME NoticesInv, NEW w \in Workers, NEW r, worker' = [worker EXCEPT ![w] = r],
         NEW m \in Notices, copies'[m] = copies[m], doubts'[m] = doubts[m],
         email'[m] = email[m] \/ email[m] # "SENT",
         Unrecorded(worker[w], m) => Unrecorded(r, m)
  PROVE  /\ copies'[m] <= doubts'[m] + 1
         /\ copies'[m] = doubts'[m] + 1 => CopyAllowed(m)'
<1>1. worker'[w] = r /\ \A v \in Workers \ {w} : worker'[v] = worker[v]
  BY DEF NoticesInv, NoticeRows
<1>2. CopyAllowed(m) => CopyAllowed(m)'
  BY <1>1 DEF CopyAllowed
<1> QED BY <1>2 DEF NoticesInv, MailsCounted

LEMMA CreationKeeps ==
  ASSUME NoticesInv, NEW w \in Workers, CreateNotice(w) \/ CreateFails(w) PROVE NoticesInv'
<1> DEFINE o == worker[w]
           n == Head(o.todo)
<1>1. o # Idle /\ o.pc = "create"
  BY DEF CreateNotice, CreateFails, At, Idle
<1>2. /\ o.job = "create" /\ o.todo \in Seq(Notices) /\ o.todo # <<>> /\ OnceEach(o.todo)
      /\ n \in Notices /\ n \in ToSet(o.todo)
      /\ Tail(o.todo) \in Seq(Notices) /\ OnceEach(Tail(o.todo))
      /\ n \notin ToSet(Tail(o.todo)) /\ ToSet(Tail(o.todo)) \subseteq ToSet(o.todo)
      /\ Mailing(o) = ToSet(o.todo)
  BY <1>1, Serving
<1>3. \A m \in ToSet(o.todo) : email[m] = "NONE"
  BY <1>1, <1>2 DEF NoticesInv, RowsHeld, HoldsRows
<1>4. \A v \in Workers \ {w} : Mailing(o) \cap Mailing(worker[v]) = {}
  BY DEF NoticesInv, HeldByOne
<1>5. email \in [Notices -> EmailStatuses] /\ {copies, doubts} \subseteq [Notices -> Nat]
  BY DEF NoticesInv, NoticeRows
<1>6. CASE CreateNotice(w)
  <2> DEFINE r == Sending(o.todo, "create")
  <2>1. /\ worker' = [worker EXCEPT ![w] = r] /\ email' = [email EXCEPT ![n] = "PENDING"]
        /\ copies' = copies /\ doubts' = doubts
    BY <1>6 DEF CreateNotice, Continue
  <2>2. r = [pc |-> "send", todo |-> o.todo, job |-> "create", attempts |-> 0]
    BY DEF Sending
  <2> HIDE DEF o, n, r
  <2>3. r \in WorkerStates
    BY <1>2, <2>2, BatchAssumption DEF WorkerStates
  <2>4. r # Idle /\ r.pc = "send" /\ r.todo = o.todo /\ r.job = "create"
    BY <2>2 DEF Idle
  <2>5. Mailing(r) = Mailing(o)
    BY <1>2, <2>4 DEF Mailing
  <2>6. email'[n] = "PENDING" /\ \A m \in Notices : m # n => email'[m] = email[m]
    BY <2>1, <1>5, <1>2
  <2>7. \A v \in Workers : v # w => n \notin Mailing(worker[v])
    BY <1>2, <1>4
  <2>8. \A v \in Workers \ {w} : \A m \in Mailing(worker[v]) : email'[m] = email[m]
    BY <2>1, <2>7, <1>5
  <2>9. \A m \in ToSet(o.todo) : m \in Notices
    BY <1>2 DEF ToSet
  <2>10. \A m \in ToSet(o.todo) : email'[m] = IF m = n THEN "PENDING" ELSE "NONE"
    BY <2>6, <2>9, <1>3
  <2>11. HoldsRows(w, r, email')
    BY <2>4, <2>5, <2>10, <1>2 DEF HoldsRows, n
  <2>12. email' \in [Notices -> EmailStatuses]
    BY <2>1, <1>5 DEF EmailStatuses
  <2>13. (NoticeRows /\ RowsHeld /\ HeldByOne)'
    BY <2>1, <2>3, <2>5, <2>8, <2>11, <2>12, <1>4, <1>5, WorkerGoesOn
  <2>14. \A m \in Notices : email[m] # "SENT" \/ email'[m] = email[m]
    BY <1>2, <1>3, <2>6
  <2>15. \A m : ~Unrecorded(worker[w], m)
    BY <1>1 DEF o, Unrecorded
  <2>16. MailsCounted'
    BY <2>1, <2>14, <2>15, CountsKept DEF MailsCounted
  <2> QED BY <2>13, <2>16 DEF NoticesInv
<1>7. CASE CreateFails(w)
  <2> DEFINE r == Proceed(Tail(o.todo), "create")
  <2>1. /\ worker' = [worker EXCEPT ![w] = r] /\ email' = email
        /\ copies' = copies /\ doubts' = doubts
    BY <1>7 DEF CreateFails, Continue
  <2> HIDE DEF o, n
  <2>2. /\ r \in WorkerStates /\ Mailing(r) \subseteq ToSet(Tail(o.todo))
        /\ HoldsRows(w, r, email)
    BY <1>2, <1>3, ProceedRow
  <2> HIDE DEF r
  <2>3. (NoticeRows /\ RowsHeld /\ HeldByOne)'
    <3>1. \A v \in Workers \ {w} : /\ Mailing(r) \cap Mailing(worker[v]) = {}
                                   /\ \A m \in Mailing(worker[v]) : email'[m] = email[m]
      BY <2>1, <2>2, <1>2, <1>4
    <3>2. HoldsRows(w, r, email') /\ email' \in [Notices -> EmailStatuses]
      BY <2>1, <2>2, <1>5
    <3>3. {copies', doubts'} \subseteq [Notices -> Nat]
      BY <2>1, <1>5
    <3> QED BY <2>1, <2>2, <3>1, <3>2, <3>3, WorkerGoesOn
  <2>4. \A m : ~Unrecorded(worker[w], m)
    BY <1>1 DEF o, Unrecorded
  <2>5. MailsCounted'
    BY <2>1, <2>4, CountsKept DEF MailsCounted
  <2> QED BY <2>3, <2>5 DEF NoticesInv
<1> QED BY <1>6, <1>7

LEMMA AcceptKeeps ==
  ASSUME NoticesInv, NEW w \in Workers, NEW n \in Notices, Accept(w, n) PROVE NoticesInv'
<1> DEFINE o == worker[w]
           r == Recording(w, "SENT")
<1>1. o.pc = "send" /\ n = Head(o.todo)
  BY DEF Accept, At
<1>2. o # Idle
  BY <1>1 DEF Idle
<1>3. /\ o.job \in {"create", "send"} /\ o.todo \in Seq(Notices) /\ Mailing(o) = ToSet(o.todo)
      /\ HoldsRows(w, o, email)
  BY <1>1, <1>2, Serving
<1>4. /\ worker' = [worker EXCEPT ![w] = r] /\ copies' = [copies EXCEPT ![n] = @ + 1]
      /\ email' = email /\ doubts' = doubts
  BY DEF Accept, Continue
<1>5. r = [pc |-> "record", todo |-> o.todo, job |-> o.job, status |-> "SENT"]
  BY DEF Recording
<1>6. email \in [Notices -> EmailStatuses] /\ {copies, doubts} \subseteq [Notices -> Nat]
  BY DEF NoticesInv, NoticeRows
<1>7. \A v \in Workers \ {w} : Mailing(o) \cap Mailing(worker[v]) = {}
  BY DEF NoticesInv, HeldByOne
<1>8. email[n] # "SENT" /\ \A v \in Workers : Unrecorded(worker[v], n) => v = w
  BY <1>1, BeingMailed
<1>9. \A m : ~Unrecorded(worker[w], m)
  BY <1>1 DEF Unrecorded
<1> HIDE DEF r
<1>10. worker'[w] = r
  BY <1>4 DEF NoticesInv, NoticeRows
<1> HIDE DEF o
<1>11. r \in WorkerStates
  BY <1>3, <1>5 DEF WorkerStates
<1>12. r # Idle /\ r.pc = "record" /\ r.todo = o.todo /\ r.job = o.job /\ r.status = "SENT"
  BY <1>5 DEF Idle
<1>13. Mailing(r) = Mailing(o)
  BY <1>3, <1>12 DEF Mailing
<1>14. HoldsRows(w, r, email)
  BY <1>1, <1>2, <1>3, <1>12, <1>13 DEF HoldsRows
<1>15. copies' \in [Notices -> Nat] /\ doubts' \in [Notices -> Nat]
  BY <1>4, <1>6
<1>16. (NoticeRows /\ RowsHeld /\ HeldByOne)'
  BY <1>4, <1>6, <1>7, <1>11, <1>13, <1>14, <1>15, WorkerGoesOn
<1>17. ~CopyAllowed(n)
  BY <1>8, <1>9 DEF CopyAllowed
<1>18. copies[n] <= doubts[n] + 1 /\ (copies[n] = doubts[n] + 1 => CopyAllowed(n))
  BY DEF NoticesInv, MailsCounted
<1>19. copies[n] \in Nat /\ doubts[n] \in Nat
  BY <1>6
<1>20. copies'[n] = copies[n] + 1 /\ \A m \in Notices : m # n => copies'[m] = copies[m]
  BY <1>4, <1>6
<1>21. CopyAllowed(n)'
  BY <1>1, <1>10, <1>12 DEF CopyAllowed, Unrecorded
<1>22. MailsCounted'
  <2> SUFFICES ASSUME NEW m \in Notices
               PROVE  /\ copies'[m] <= doubts'[m] + 1
                      /\ copies'[m] = doubts'[m] + 1 => CopyAllowed(m)'
    BY DEF MailsCounted
  <2>1. CASE m = n
    <3>1. copies[n] <= doubts[n]
      BY <1>17, <1>18, <1>19
    <3>2. copies'[n] <= doubts'[n] + 1
      BY <3>1, <1>4, <1>19, <1>20
    <3> QED BY <2>1, <3>2, <1>21
  <2>2. CASE m # n
    <3>1. copies'[m] = copies[m] /\ doubts'[m] = doubts[m] /\ email'[m] = email[m]
      BY <2>2, <1>4, <1>20
    <3> QED BY <3>1, <1>4, <1>9, CountsKept
  <2> QED BY <2>1, <2>2
<1> QED BY <1>16, <1>22 DEF NoticesInv

LEMMA AttemptFailsKeeps ==
  ASSUME NoticesInv, NEW w \in Workers, AttemptFails(w) PROVE NoticesInv'
<1> DEFINE o == worker[w]
           n == Head(o.todo)
           r == IF o.attempts + 1 < MaxEmailAttempts THEN [o EXCEPT !.attempts = @ + 1]
                ELSE Recording(w, "FAILED")
<1>1. o.pc = "send"
  BY DEF AttemptFails, At
<1>2. o # Idle
  BY <1>1 DEF Idle
<1>3. /\ o \in WorkerStates /\ o.attempts \in 0..MaxEmailAttempts
      /\ o.job \in {"create", "send"} /\ o.todo \in Seq(Notices) /\ Mailing(o) = ToSet(o.todo)
      /\ HoldsRows(w, o, email) /\ n \in Notices
  BY <1>1, <1>2, Serving
<1>4. worker' = [worker EXCEPT ![w] = r] /\ email' = email
  BY DEF AttemptFails, Continue
<1>5. \/ copies' = copies /\ doubts' = doubts
      \/ copies' = [copies EXCEPT ![n] = @ + 1] /\ doubts' = [doubts EXCEPT ![n] = @ + 1]
  BY DEF AttemptFails, Doubt
<1>6. email \in [Notices -> EmailStatuses] /\ {copies, doubts} \subseteq [Notices -> Nat]
  BY DEF NoticesInv, NoticeRows
<1>7. \A v \in Workers \ {w} : Mailing(o) \cap Mailing(worker[v]) = {}
  BY DEF NoticesInv, HeldByOne
<1>8. \A m : ~Unrecorded(o, m)
  BY <1>1 DEF Unrecorded
<1>9. Recording(w, "FAILED") = [pc |-> "record", todo |-> o.todo, job |-> o.job, status |-> "FAILED"]
  BY DEF Recording
<1> HIDE DEF o
<1>10. /\ r \in WorkerStates /\ r # Idle /\ r.pc \in {"send", "record"}
       /\ r.todo = o.todo /\ r.job = o.job
  <2>1. CASE o.attempts + 1 < MaxEmailAttempts
    <3>1. r = [o EXCEPT !.attempts = @ + 1]
      BY <2>1
    <3>2. o \in [pc : {"send"}, todo : Seq(Notices), job : {"create", "send"}, attempts : 0..MaxEmailAttempts]
      BY <1>1, <1>3 DEF WorkerStates, Idle
    <3>3. o.attempts + 1 \in 0..MaxEmailAttempts
      BY <2>1, <1>3, BatchAssumption
    <3>4. r \in [pc : {"send"}, todo : Seq(Notices), job : {"create", "send"}, attempts : 0..MaxEmailAttempts]
      BY <3>1, <3>2, <3>3
    <3>5. r.todo = o.todo /\ r.job = o.job
      BY <3>1, <3>2
    <3> HIDE DEF r
    <3> QED BY <3>4, <3>5 DEF WorkerStates, Idle
  <2>2. CASE ~(o.attempts + 1 < MaxEmailAttempts)
    <3>1. r = [pc |-> "record", todo |-> o.todo, job |-> o.job, status |-> "FAILED"]
      BY <2>2, <1>9
    <3> HIDE DEF r
    <3>2. r \in WorkerStates
      BY <3>1, <1>3 DEF WorkerStates
    <3> QED BY <3>1, <3>2 DEF Idle
  <2> QED BY <2>1, <2>2
<1> HIDE DEF r, n
<1>11. Mailing(r) = Mailing(o)
  BY <1>3, <1>10 DEF Mailing
<1>12. HoldsRows(w, r, email)
  BY <1>1, <1>2, <1>3, <1>10, <1>11 DEF HoldsRows
<1>13. copies' \in [Notices -> Nat] /\ doubts' \in [Notices -> Nat]
  BY <1>5, <1>6
<1>14. (NoticeRows /\ RowsHeld /\ HeldByOne)'
  BY <1>4, <1>6, <1>7, <1>10, <1>11, <1>12, <1>13, WorkerGoesOn
<1>15. email[n] # "SENT" /\ \A v \in Workers : Unrecorded(worker[v], n) => v = w
  BY <1>1, BeingMailed DEF o, n
<1>16. ~CopyAllowed(n)
  BY <1>8, <1>15 DEF CopyAllowed, o
<1>17. copies[n] <= doubts[n] + 1 /\ (copies[n] = doubts[n] + 1 => CopyAllowed(n))
  BY <1>3 DEF NoticesInv, MailsCounted
<1>18. copies[n] \in Nat /\ doubts[n] \in Nat
  BY <1>3, <1>6
<1>19. copies[n] <= doubts[n]
  BY <1>16, <1>17, <1>18
<1>20. \/ copies'[n] = copies[n] /\ doubts'[n] = doubts[n]
       \/ copies'[n] = copies[n] + 1 /\ doubts'[n] = doubts[n] + 1
  BY <1>3, <1>5, <1>6
<1>21. copies'[n] <= doubts'[n]
  BY <1>18, <1>19, <1>20
<1>22. copies'[n] \in Nat /\ doubts'[n] \in Nat
  BY <1>18, <1>20
<1>23. \A m \in Notices : m # n => copies'[m] = copies[m] /\ doubts'[m] = doubts[m]
  BY <1>5, <1>6
<1>24. MailsCounted'
  <2> SUFFICES ASSUME NEW m \in Notices
               PROVE  /\ copies'[m] <= doubts'[m] + 1
                      /\ copies'[m] = doubts'[m] + 1 => CopyAllowed(m)'
    BY DEF MailsCounted
  <2>1. CASE m = n
    BY <2>1, <1>21, <1>22
  <2>2. CASE m # n
    BY <2>2, <1>4, <1>8, <1>23, CountsKept DEF o
  <2> QED BY <2>1, <2>2
<1> QED BY <1>14, <1>24 DEF NoticesInv

LEMMA HeldAreNotices ==
  ASSUME NoticesInv, NEW w \in Workers PROVE Mailing(worker[w]) \subseteq Notices
<1>1. CASE worker[w] = Idle
  BY <1>1 DEF Mailing
<1>2. CASE worker[w] # Idle
  <2>1. worker[w].todo \in Seq(Notices) /\ ToSet(Tail(worker[w].todo)) \subseteq ToSet(worker[w].todo)
        /\ (Mailing(worker[w]) = ToSet(worker[w].todo) \/ Mailing(worker[w]) = ToSet(Tail(worker[w].todo)))
    BY <1>2, Serving
  <2>2. ToSet(worker[w].todo) \subseteq Notices
    BY <2>1 DEF ToSet
  <2> QED BY <2>1, <2>2
<1> QED BY <1>1, <1>2

(* After its mail: a text for a new row, the next of the batch otherwise.  *)
LEMMA AfterMailRow ==
  ASSUME NoticesInv, NEW w \in Workers, worker[w].pc = "record", NEW mail,
         \A m \in ToSet(Tail(worker[w].todo)) : mail[m] = email[m]
  PROVE  LET r == AfterMail(worker[w]) IN
         /\ r \in WorkerStates /\ Mailing(r) \subseteq Mailing(worker[w])
         /\ HoldsRows(w, r, mail) /\ \A m : ~Unrecorded(r, m)
<1> DEFINE o == worker[w]
           r == AfterMail(o)
<1>1. o # Idle
  BY DEF Idle
<1>2. /\ o.job \in {"create", "send"} /\ o.todo \in Seq(Notices) /\ o.todo # <<>>
      /\ OnceEach(o.todo) /\ Mailing(o) = ToSet(o.todo) /\ HoldsRows(w, o, email)
      /\ Tail(o.todo) \in Seq(Notices) /\ OnceEach(Tail(o.todo))
      /\ Head(o.todo) \notin ToSet(Tail(o.todo)) /\ ToSet(Tail(o.todo)) \subseteq ToSet(o.todo)
  BY <1>1, Serving
<1>3. CASE o.job = "create"
  <2>1. r = [pc |-> "text", todo |-> o.todo, job |-> "create"]
    BY <1>3 DEF AfterMail
  <2>2. \A m \in ToSet(Tail(o.todo)) : email[m] = "NONE"
    BY <1>1, <1>2, <1>3 DEF HoldsRows
  <2>3. \A m \in ToSet(Tail(o.todo)) : mail[m] = "NONE"
    BY <2>2
  <2> HIDE DEF o, r
  <2>4. r \in WorkerStates
    BY <2>1, <1>2 DEF WorkerStates
  <2>5. r # Idle /\ r.pc = "text" /\ r.todo = o.todo /\ r.job = "create"
    BY <2>1 DEF Idle
  <2>6. Mailing(r) = ToSet(Tail(o.todo))
    BY <2>5 DEF Mailing
  <2>7. HoldsRows(w, r, mail)
    BY <2>3, <2>5, <2>6, <1>2 DEF HoldsRows
  <2>8. \A m : ~Unrecorded(r, m)
    BY <2>5 DEF Unrecorded
  <2>9. Mailing(r) \subseteq Mailing(o)
    BY <2>6, <1>2
  <2> QED BY <2>4, <2>7, <2>8, <2>9 DEF r, o
<1>4. CASE o.job = "send"
  <2>1. r = Proceed(Tail(o.todo), "send")
    BY <1>4 DEF AfterMail
  <2>2. w \in Retries /\ \A m \in ToSet(Tail(o.todo)) : email[m] = "FAILED"
    BY <1>1, <1>2, <1>4 DEF HoldsRows
  <2>3. \A m \in ToSet(Tail(o.todo)) : mail[m] = "FAILED"
    BY <2>2
  <2> DEFINE rest == Tail(o.todo)
  <2>4. rest \in Seq(Notices) /\ OnceEach(rest) /\ \A m \in ToSet(rest) : mail[m] = "FAILED"
    BY <2>3, <1>2
  <2>5. r = Proceed(rest, "send")
    BY <2>1
  <2> HIDE DEF o, r, rest
  <2>6. /\ Proceed(rest, "send") \in WorkerStates
        /\ Mailing(Proceed(rest, "send")) \subseteq ToSet(rest)
        /\ HoldsRows(w, Proceed(rest, "send"), mail)
        /\ \A m : ~Unrecorded(Proceed(rest, "send"), m)
    BY <2>2, <2>4, ProceedRow
  <2>7. /\ r \in WorkerStates /\ Mailing(r) \subseteq ToSet(Tail(o.todo))
        /\ HoldsRows(w, r, mail) /\ \A m : ~Unrecorded(r, m)
    BY <2>5, <2>6 DEF rest
  <2>8. Mailing(r) \subseteq Mailing(o)
    BY <2>7, <1>2
  <2> QED BY <2>7, <2>8 DEF r, o
<1> QED BY <1>2, <1>3, <1>4

LEMMA RecordKeeps ==
  ASSUME NoticesInv, NEW w \in Workers, RecordEmail(w) \/ RecordFails(w) PROVE NoticesInv'
<1> DEFINE o == worker[w]
           n == Head(o.todo)
           r == AfterMail(o)
<1>1. o.pc = "record"
  BY DEF RecordEmail, RecordFails, At
<1>2. o # Idle
  BY <1>1 DEF Idle
<1>3. /\ o.status \in {"SENT", "FAILED"} /\ n \in Notices /\ n \in Mailing(o)
      /\ n \notin ToSet(Tail(o.todo)) /\ Tail(o.todo) \in Seq(Notices)
  BY <1>1, <1>2, Serving
<1>4. email \in [Notices -> EmailStatuses] /\ {copies, doubts} \subseteq [Notices -> Nat]
  BY DEF NoticesInv, NoticeRows
<1>5. \A v \in Workers \ {w} : Mailing(o) \cap Mailing(worker[v]) = {}
  BY DEF NoticesInv, HeldByOne
<1>6. /\ worker' = [worker EXCEPT ![w] = r] /\ copies' = copies
      /\ \/ email' = [email EXCEPT ![n] = o.status] /\ doubts' = doubts
         \/ email' = email /\ doubts' = [doubts EXCEPT ![n] = doubts[n] + 1]
         \/ email' = email /\ doubts' = doubts /\ o.status # "SENT"
  BY DEF RecordEmail, RecordFails, Continue, Doubt
<1>7. email[n] # "SENT" /\ \A v \in Workers : Unrecorded(worker[v], n) => v = w
  BY <1>1, BeingMailed
<1>8. \A m : Unrecorded(o, m) => m = n
  BY DEF Unrecorded
<1> HIDE DEF n
<1>9. \A m \in Notices : m # n => email'[m] = email[m]
  BY <1>4, <1>6
<1>10. email' \in [Notices -> EmailStatuses] /\ doubts' \in [Notices -> Nat] /\ copies' \in [Notices -> Nat]
  <2>1. o.status \in EmailStatuses
    BY <1>3 DEF EmailStatuses
  <2> HIDE DEF o
  <2>2. email' \in [Notices -> EmailStatuses]
    BY <2>1, <1>4, <1>6
  <2>3. doubts' \in [Notices -> Nat] /\ copies' \in [Notices -> Nat]
    BY <1>3, <1>4, <1>6
  <2> QED BY <2>2, <2>3
<1>11. \A m \in ToSet(Tail(o.todo)) : email'[m] = email[m]
  BY <1>3, <1>9 DEF ToSet
<1>12. /\ r \in WorkerStates /\ Mailing(r) \subseteq Mailing(o)
       /\ HoldsRows(w, r, email') /\ \A m : ~Unrecorded(r, m)
  BY <1>1, <1>11, AfterMailRow
<1> HIDE DEF r, o
<1>13. \A v \in Workers \ {w} : /\ Mailing(r) \cap Mailing(worker[v]) = {}
                               /\ \A m \in Mailing(worker[v]) : email'[m] = email[m]
  BY <1>3, <1>5, <1>9, <1>12, HeldAreNotices
<1>14. {copies', doubts'} \subseteq [Notices -> Nat]
  BY <1>10
<1>15. (NoticeRows /\ RowsHeld /\ HeldByOne)'
  BY <1>6, <1>10, <1>12, <1>13, <1>14, WorkerGoesOn
<1>16. copies[n] <= doubts[n] + 1 /\ (copies[n] = doubts[n] + 1 => CopyAllowed(n))
  BY <1>3 DEF NoticesInv, MailsCounted
<1>17. copies[n] \in Nat /\ doubts[n] \in Nat
  BY <1>3, <1>4
<1>18. copies'[n] <= doubts'[n] + 1 /\ (copies'[n] = doubts'[n] + 1 => email'[n] = "SENT")
  <2>1. CASE doubts' = [doubts EXCEPT ![n] = doubts[n] + 1]
    <3>1. copies'[n] = copies[n] /\ doubts'[n] = doubts[n] + 1
      BY <2>1, <1>3, <1>4, <1>6
    <3> QED BY <3>1, <1>16, <1>17
  <2>2. CASE email' = [email EXCEPT ![n] = o.status] /\ doubts' = doubts
    <3>1. copies'[n] = copies[n] /\ doubts'[n] = doubts[n] /\ email'[n] = o.status
      BY <2>2, <1>3, <1>4, <1>6
    <3>2. CopyAllowed(n) => o.status = "SENT"
      BY <1>7 DEF CopyAllowed, Unrecorded, o
    <3>3. CASE o.status = "SENT"
      BY <3>1, <3>3, <1>16
    <3>4. CASE o.status # "SENT"
      BY <3>1, <3>2, <3>4, <1>16, <1>17
    <3> QED BY <3>3, <3>4
  <2>3. CASE doubts' = doubts /\ o.status # "SENT"
    <3>1. copies'[n] = copies[n] /\ doubts'[n] = doubts[n] /\ ~CopyAllowed(n)
      BY <2>3, <1>6, <1>7 DEF CopyAllowed, Unrecorded, o
    <3> QED BY <3>1, <1>16, <1>17
  <2> QED BY <2>1, <2>2, <2>3, <1>6
<1>19. MailsCounted'
  <2> SUFFICES ASSUME NEW m \in Notices
               PROVE  /\ copies'[m] <= doubts'[m] + 1
                      /\ copies'[m] = doubts'[m] + 1 => CopyAllowed(m)'
    BY DEF MailsCounted
  <2>1. CASE m = n
    BY <2>1, <1>18 DEF CopyAllowed
  <2>2. CASE m # n
    <3>1. copies'[m] = copies[m] /\ doubts'[m] = doubts[m] /\ email'[m] = email[m]
      BY <2>2, <1>4, <1>6, <1>9
    <3>2. ~Unrecorded(worker[w], m)
      BY <2>2, <1>8 DEF o
    <3> QED BY <3>1, <3>2, <1>6, CountsKept
  <2> QED BY <2>1, <2>2
<1> QED BY <1>15, <1>19 DEF NoticesInv

LEMMA SmsKeeps ==
  ASSUME NoticesInv, NEW w \in Workers, DeliverSms(w) PROVE NoticesInv'
<1> DEFINE o == worker[w]
           r == Proceed(Tail(o.todo), "create")
<1>1. o.pc = "text"
  BY DEF DeliverSms, At
<1>2. o # Idle
  BY <1>1 DEF Idle
<1>3. /\ o.job = "create" /\ Tail(o.todo) \in Seq(Notices) /\ OnceEach(Tail(o.todo))
      /\ HoldsRows(w, o, email) /\ Mailing(o) = ToSet(Tail(o.todo))
  BY <1>1, <1>2, Serving
<1>4. \A m \in ToSet(Tail(o.todo)) : email[m] = "NONE"
  BY <1>1, <1>2, <1>3 DEF HoldsRows
<1>5. \A v \in Workers \ {w} : Mailing(o) \cap Mailing(worker[v]) = {}
  BY DEF NoticesInv, HeldByOne
<1>6. /\ worker' = [worker EXCEPT ![w] = r]
      /\ email' = email /\ copies' = copies /\ doubts' = doubts
  BY DEF DeliverSms, Continue
<1>7. \A m : ~Unrecorded(worker[w], m)
  BY <1>1 DEF Unrecorded
<1> HIDE DEF o
<1>8. /\ r \in WorkerStates /\ Mailing(r) \subseteq ToSet(Tail(o.todo)) /\ HoldsRows(w, r, email)
  BY <1>3, <1>4, ProceedRow
<1> HIDE DEF r
<1>9. \A v \in Workers \ {w} : /\ Mailing(r) \cap Mailing(worker[v]) = {}
                              /\ \A m \in Mailing(worker[v]) : email'[m] = email[m]
  BY <1>3, <1>5, <1>6, <1>8
<1>10. /\ email' \in [Notices -> EmailStatuses] /\ {copies', doubts'} \subseteq [Notices -> Nat]
       /\ HoldsRows(w, r, email')
  BY <1>6, <1>8 DEF NoticesInv, NoticeRows
<1>11. (NoticeRows /\ RowsHeld /\ HeldByOne)'
  BY <1>6, <1>8, <1>9, <1>10, WorkerGoesOn
<1>12. MailsCounted'
  BY <1>6, <1>7, CountsKept DEF MailsCounted
<1> QED BY <1>11, <1>12 DEF NoticesInv

-----------------------------------------------------------------------------
LEMMA BatchSequence ==
  ASSUME NEW S \in SUBSET Notices, NEW todo \in SetToSeqs(S)
  PROVE  /\ todo \in Seq(Notices) /\ OnceEach(todo) /\ ToSet(todo) \subseteq S
         /\ S # {} => todo # <<>>
<1>1. IsFiniteSet(S)
  BY NoticesAssumption, FS_Subset
<1>2. Cardinality(S) \in Nat /\ (S # {} => Cardinality(S) # 0)
  BY <1>1, FS_CardinalityType, FS_EmptySet
<1>3. /\ todo \in [1..Cardinality(S) -> S]
      /\ \A i, j \in 1..Cardinality(S) : i # j => todo[i] # todo[j]
  BY DEF SetToSeqs
<1>4. todo \in Seq(S) /\ Len(todo) = Cardinality(S) /\ DOMAIN todo = 1..Cardinality(S)
  BY <1>2, <1>3
<1>5. todo \in Seq(Notices)
  BY <1>2, <1>3
<1>6. S # {} => todo # <<>>
  BY <1>2, <1>4
<1> QED BY <1>3, <1>4, <1>5, <1>6 DEF OnceEach, ToSet

LEMMA BeginsKeeps ==
  ASSUME NoticesInv, NEW w \in Workers, worker[w] = Idle,
         NEW todo \in Seq(Notices), OnceEach(todo), NEW job \in {"create", "send"},
         worker' = [worker EXCEPT ![w] = Proceed(todo, job)],
         email' = email, copies' = copies, doubts' = doubts,
         job = "send" => w \in Retries /\ \A n \in ToSet(todo) : email[n] = "FAILED",
         job = "create" => \A n \in ToSet(todo) : email[n] = "NONE",
         \A v \in Workers \ {w} : ToSet(todo) \cap Mailing(worker[v]) = {}
  PROVE  NoticesInv'
<1> DEFINE r == Proceed(todo, job)
<1>1. r \in WorkerStates /\ Mailing(r) \subseteq ToSet(todo) /\ HoldsRows(w, r, email)
  BY ProceedRow
<1> HIDE DEF r
<1>2. worker' = [worker EXCEPT ![w] = r]
  BY DEF r
<1>3. \A v \in Workers \ {w} : /\ Mailing(r) \cap Mailing(worker[v]) = {}
                              /\ \A m \in Mailing(worker[v]) : email'[m] = email[m]
  BY <1>1
<1>4. /\ email' \in [Notices -> EmailStatuses] /\ {copies', doubts'} \subseteq [Notices -> Nat]
      /\ HoldsRows(w, r, email')
  BY <1>1 DEF NoticesInv, NoticeRows
<1>5. (NoticeRows /\ RowsHeld /\ HeldByOne)'
  BY <1>1, <1>2, <1>3, <1>4, WorkerGoesOn
<1>6. \A m : ~Unrecorded(worker[w], m)
  BY DEF Unrecorded, Idle
<1>7. MailsCounted'
  BY <1>2, <1>6, CountsKept DEF MailsCounted
<1> QED BY <1>5, <1>7 DEF NoticesInv

LEMMA NotifyKeeps ==
  ASSUME NoticesInv, NEW w \in Workers, NEW ns \in SUBSET Notices, NEW todo \in SetToSeqs(ns),
         NotifyAll(w, todo)
  PROVE  NoticesInv'
<1>1. todo \in Seq(Notices) /\ OnceEach(todo)
  BY BatchSequence
<1>2. /\ worker[w] = Idle /\ worker' = [worker EXCEPT ![w] = Proceed(todo, "create")]
      /\ email' = email /\ copies' = copies /\ doubts' = doubts
  BY DEF NotifyAll, Begin
<1>3. \A n \in ToSet(todo) : /\ email[n] = "NONE"
                             /\ \A v \in Workers : worker[v] # Idle => n \notin ToSet(worker[v].todo)
  BY DEF NotifyAll
<1>4. \A v \in Workers \ {w} : ToSet(todo) \cap Mailing(worker[v]) = {}
  <2> SUFFICES ASSUME NEW v \in Workers PROVE ToSet(todo) \cap Mailing(worker[v]) = {}
    OBVIOUS
  <2>1. CASE worker[v] = Idle
    BY <2>1 DEF Mailing
  <2>2. CASE worker[v] # Idle
    <3>1. Mailing(worker[v]) \subseteq ToSet(worker[v].todo)
      BY <2>2, Serving
    <3> QED BY <2>2, <3>1, <1>3
  <2> QED BY <2>1, <2>2
<1> QED BY <1>1, <1>2, <1>3, <1>4, BeginsKeeps

LEMMA RetryKeeps ==
  ASSUME \A v, w \in Retries : v = w, NoticesInv, NEW w \in Workers, StartRetry(w)
  PROVE  NoticesInv'
<1> DEFINE failed == {n \in Notices : Retryable(n)}
           batch  == {n \in failed : Cardinality({m \in failed : Age(m) < Age(n)}) < BatchSize}
<1>1. /\ w \in Retries /\ batch # {} /\ email' = email /\ copies' = copies /\ doubts' = doubts
  BY DEF StartRetry
<1>2. \A n \in batch : n \in Notices /\ email[n] = "FAILED"
  BY DEF Retryable
<1>3. PICK todo \in SetToSeqs(batch) : Begin(worker, w, Sending(todo, "send"))
  BY DEF StartRetry
<1> HIDE DEF failed, batch
<1>4. /\ todo \in Seq(Notices) /\ OnceEach(todo) /\ todo # <<>>
      /\ \A n \in ToSet(todo) : email[n] = "FAILED"
  BY <1>1, <1>2, BatchSequence
<1>5. worker[w] = Idle /\ worker' = [worker EXCEPT ![w] = Proceed(todo, "send")]
  BY <1>3, <1>4 DEF Begin, Proceed
<1>6. \A v \in Workers \ {w} : ToSet(todo) \cap Mailing(worker[v]) = {}
  <2> SUFFICES ASSUME NEW v \in Workers \ {w}, NEW n \in Mailing(worker[v])
               PROVE  email[n] # "FAILED"
    BY <1>4
  <2>1. worker[v] # Idle
    BY DEF Mailing
  <2>2. HoldsRows(v, worker[v], email) /\ worker[v].job \in {"create", "send"}
    BY <2>1, Serving
  <2>3. worker[v].job = "create"
    BY <2>1, <2>2, <1>1 DEF HoldsRows
  <2> QED BY <2>1, <2>2, <2>3 DEF HoldsRows
<1> QED BY <1>1, <1>4, <1>5, <1>6, BeginsKeeps

LEMMA StopKeeps == NoticesInv /\ Stop => NoticesInv'
<1> SUFFICES ASSUME NoticesInv, Stop PROVE NoticesInv'
  OBVIOUS
<1>1. /\ worker' = [w \in Workers |-> Idle] /\ email' = email /\ copies' = copies
      /\ doubts' = [n \in Notices |-> IF \E w \in Workers : Unrecorded(worker[w], n)
                                      THEN doubts[n] + 1 ELSE doubts[n]]
  BY DEF Stop, Unrecorded
<1>2. email \in [Notices -> EmailStatuses] /\ {copies, doubts} \subseteq [Notices -> Nat]
  BY DEF NoticesInv, NoticeRows
<1>3. doubts' \in [Notices -> Nat]
  BY <1>1, <1>2
<1>4. NoticeRows'
  BY <1>1, <1>2, <1>3 DEF NoticeRows, WorkerStates
<1>5. RowsHeld' /\ HeldByOne'
  BY <1>1 DEF RowsHeld, HeldByOne, HoldsRows, Mailing
<1>6. MailsCounted'
  <2> SUFFICES ASSUME NEW m \in Notices
               PROVE  /\ copies'[m] <= doubts'[m] + 1
                      /\ copies'[m] = doubts'[m] + 1 => CopyAllowed(m)'
    BY DEF MailsCounted
  <2>1. copies[m] <= doubts[m] + 1 /\ (copies[m] = doubts[m] + 1 => CopyAllowed(m))
    BY DEF NoticesInv, MailsCounted
  <2>2. copies[m] \in Nat /\ doubts[m] \in Nat
    BY <1>2
  <2>3. CASE \E w \in Workers : Unrecorded(worker[w], m)
    <3>1. doubts'[m] = doubts[m] + 1
      BY <1>1, <2>3
    <3> QED BY <1>1, <2>1, <2>2, <3>1
  <2>4. CASE ~ \E w \in Workers : Unrecorded(worker[w], m)
    <3>1. doubts'[m] = doubts[m]
      BY <1>1, <2>4
    <3> QED BY <1>1, <2>1, <2>4, <3>1 DEF CopyAllowed
  <2> QED BY <2>3, <2>4
<1> QED BY <1>4, <1>5, <1>6 DEF NoticesInv

LEMMA NoticesUntouched ==
  ASSUME NoticesInv, UNCHANGED <<email, copies, doubts, worker>> PROVE NoticesInv'
<1>1. NoticeRows' /\ RowsHeld' /\ HeldByOne'
  BY DEF NoticesInv, NoticeRows, RowsHeld, HeldByOne
<1>2. MailsCounted'
  BY DEF NoticesInv, MailsCounted, CopyAllowed
<1> QED BY <1>1, <1>2 DEF NoticesInv

(* With one retry job running, no notice is mailed twice but for the times *)
(* its mail was taken for lost or its process stopped before recording it, *)
(* for any number of notices, requests and attempts: the job takes up only *)
(* rows that have failed, and those no request holds.                      *)
THEOREM MailedOnce ==
  ASSUME \A v, w \in Retries : v = w
  PROVE  NotificationsSpec => []DeliveredOnce
<1>1. NoticesInv /\ [NotificationsNext]_notificationVars => NoticesInv'
  <2> SUFFICES ASSUME NoticesInv, [NotificationsNext]_notificationVars PROVE NoticesInv'
    OBVIOUS
  <2>1. CASE UNCHANGED notificationVars
    BY <2>1, NoticesUntouched DEF notificationVars
  <2>2. ASSUME NEW w \in Workers, WorkerStep(w) PROVE NoticesInv'
    BY <2>2, CreationKeeps, AcceptKeeps, AttemptFailsKeeps, RecordKeeps, SmsKeeps, RetryKeeps
       DEF WorkerStep
  <2>3. ASSUME NEW w \in Workers, NEW ns \in SUBSET Notices, NEW todo \in SetToSeqs(ns),
               NotifyAll(w, todo)
        PROVE  NoticesInv'
    BY <2>3, NotifyKeeps
  <2>4. ASSUME NEW n \in Notices, MarkRead(n) PROVE NoticesInv'
    BY <2>4, NoticesUntouched DEF MarkRead
  <2> QED BY <2>1, <2>2, <2>3, <2>4, StopKeeps DEF NotificationsNext
<1>2. NoticesInv => DeliveredOnce
  BY DEF NoticesInv, NoticeRows, MailsCounted, DeliveredOnce
<1> QED BY <1>1, <1>2, NoticesInitially, PTL DEF NotificationsSpec
=============================================================================
