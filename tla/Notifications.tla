--------------------------- MODULE Notifications ----------------------------
(***************************************************************************)
(* Notices to people: a row for each, an attempt to mail it at once, and a *)
(* nightly job that tries again what has failed, a few at a time, in the   *)
(* order in which the rows were last written.  A mail may arrive and still *)
(* be taken for lost.                                                      *)
(***************************************************************************)
EXTENDS Requests, Naturals, SequencesExt

CONSTANTS
  Notices,      \* notices that events give rise to
  Bouncing,     \* those whose address never accepts a mail
  Events,       \* requests that notify somebody
  Retries,      \* the retry job of each instance
  MaxEmailAttempts,  \* MAX_EMAIL_ATTEMPTS
  BatchSize,    \* the limit of retryFailedEmails (50 in the code)
  MaxDoubts,    \* bound on mails taken for lost, per notice
  MaxStops      \* bound on stops of the process

ASSUME NoticesAssumption  == IsFiniteSet(Notices)
ASSUME BouncingAssumption == Bouncing \subseteq Notices
ASSUME BatchAssumption    == BatchSize \in Nat \ {0} /\ MaxEmailAttempts \in Nat \ {0}

VARIABLES
  email,   \* emailStatus of each notice, "NONE" before its row is created
  unread,  \* notices whose readAt is null
  updated, \* rows by updatedAt, oldest first
  copies,  \* mails that arrived
  doubts,  \* mails that arrived and were not recorded as sent
  worker,  \* requests and jobs in flight
  stops    \* stops of the process so far

notificationVars == <<email, unread, updated, copies, doubts, worker, stops>>

EmailStatuses == {"NONE", "PENDING", "SENT", "FAILED"}
Workers == Events \cup Retries

(* job is what the worker goes on with: "create" a row for the next        *)
(* recipient, or "send" the next row of the batch.                         *)
WorkerStates ==
  {Idle} \cup [pc : {"create", "text"}, todo : Seq(Notices), job : {"create"}]
  \cup [pc : {"send"}, todo : Seq(Notices), job : {"create", "send"}, attempts : 0..MaxEmailAttempts]
  \cup [pc : {"record"}, todo : Seq(Notices), job : {"create", "send"}, status : {"SENT", "FAILED"}]

NotificationsTypeOK ==
  /\ email \in [Notices -> EmailStatuses]
  /\ unread \in SUBSET Notices
  /\ updated \in Seq(Notices)
  /\ {copies, doubts} \subseteq [Notices -> Nat]
  /\ worker \in [Workers -> WorkerStates]
  /\ \A w \in Workers : worker[w] # Idle => worker[w].todo # <<>>
  /\ stops \in Nat

NotificationsInit ==
  /\ email = [n \in Notices |-> "NONE"]
  /\ unread = {} /\ updated = <<>>
  /\ copies = [n \in Notices |-> 0] /\ doubts = [n \in Notices |-> 0]
  /\ worker = [w \in Workers |-> Idle]
  /\ stops = 0

(* Mutant of Touched: rows stay in the order they were created.            *)
Untouched(n) == updated
Touched(n)   == Append(SelectSeq(updated, LAMBDA m : m # n), n)

Doubt(n) == doubts[n] < MaxDoubts /\ doubts' = [doubts EXCEPT ![n] = @ + 1]

Sending(todo, job) == [pc |-> "send", todo |-> todo, job |-> job, attempts |-> 0]
Proceed(todo, job) ==
  IF todo = <<>> THEN Idle
  ELSE IF job = "create" THEN [pc |-> "create", todo |-> todo, job |-> job]
  ELSE Sending(todo, job)

-----------------------------------------------------------------------------
(* createFor: one recipient after the other; a failure with one costs      *)
(* nobody else theirs.                                                     *)
NotifyAll(w, todo) ==
  /\ w \in Events
  /\ \A n \in ToSet(todo) : email[n] = "NONE" /\ \A v \in Workers :
       worker[v] # Idle => n \notin ToSet(worker[v].todo)
  /\ Begin(worker, w, Proceed(todo, "create"))
  /\ UNCHANGED <<email, unread, updated, copies, doubts, stops>>

CreateNotice(w) ==
  LET n == Head(worker[w].todo) IN
  /\ At(worker, w, "create")
  /\ email' = [email EXCEPT ![n] = "PENDING"]
  /\ unread' = unread \cup {n}
  /\ updated' = Append(updated, n)
  /\ Continue(worker, w, Sending(worker[w].todo, "create"))
  /\ UNCHANGED <<copies, doubts, stops>>

CreateFails(w) ==
  /\ At(worker, w, "create")
  /\ Continue(worker, w, Proceed(Tail(worker[w].todo), "create"))
  /\ UNCHANGED <<email, unread, updated, copies, doubts, stops>>

-----------------------------------------------------------------------------
(* deliverEmail.                                                           *)

Recording(w, status) ==
  [pc |-> "record", todo |-> worker[w].todo, job |-> worker[w].job, status |-> status]

Accept(w, n) ==
  /\ At(worker, w, "send") /\ n = Head(worker[w].todo) /\ n \notin Bouncing
  /\ copies' = [copies EXCEPT ![n] = @ + 1]
  /\ Continue(worker, w, Recording(w, "SENT"))
  /\ UNCHANGED <<email, unread, updated, doubts, stops>>

(* The server refuses the mail, or takes it and the answer is lost.        *)
AttemptFails(w) ==
  LET r == worker[w] IN
  /\ At(worker, w, "send")
  /\ \/ UNCHANGED <<copies, doubts>>
     \/ /\ Head(r.todo) \notin Bouncing /\ Doubt(Head(r.todo))
        /\ copies' = [copies EXCEPT ![Head(r.todo)] = @ + 1]
  /\ Continue(worker, w, IF r.attempts + 1 < MaxEmailAttempts THEN [r EXCEPT !.attempts = @ + 1]
                         ELSE Recording(w, "FAILED"))
  /\ UNCHANGED <<email, unread, updated, stops>>

AfterMail(r) ==
  IF r.job = "create" THEN [pc |-> "text", todo |-> r.todo, job |-> "create"]
  ELSE Proceed(Tail(r.todo), "send")

RecordEmail(w) ==
  LET r == worker[w]
      n == Head(r.todo)
  IN
  /\ At(worker, w, "record")
  /\ email' = [email EXCEPT ![n] = r.status]
  /\ updated' = Touched(n)
  /\ Continue(worker, w, AfterMail(r))
  /\ UNCHANGED <<unread, copies, doubts, stops>>

(* A failure to record is logged and swallowed; a mail that arrived is     *)
(* then in doubt, one that failed is not.                                  *)
RecordFails(w) ==
  LET r == worker[w] IN
  /\ At(worker, w, "record")
  /\ IF r.status = "SENT" THEN Doubt(Head(r.todo)) ELSE UNCHANGED doubts
  /\ Continue(worker, w, AfterMail(r))
  /\ UNCHANGED <<email, unread, updated, copies, stops>>

(* deliverSms: one attempt, whose outcome is written to the same row if a  *)
(* text was due.                                                           *)
DeliverSms(w) ==
  LET r == worker[w] IN
  /\ At(worker, w, "text")
  /\ updated' \in {updated, Touched(Head(r.todo))}
  /\ Continue(worker, w, Proceed(Tail(r.todo), "create"))
  /\ UNCHANGED <<email, unread, copies, doubts, stops>>

-----------------------------------------------------------------------------
(* Mutant of Retryable: what an earlier process left pending is taken too. *)
RetryablePending(n) == email[n] \in {"PENDING", "FAILED"}
Retryable(n)        == email[n] = "FAILED"

(* When the row of a notice was last written.                              *)
Age(n) == CHOOSE i \in DOMAIN updated : updated[i] = n

(* retryFailedEmails, under the scheduler's lock: a job never overlaps     *)
(* itself.  The rows longest untouched, oldest first.                      *)
StartRetry(w) ==
  LET failed == {n \in Notices : Retryable(n)}
      batch  == {n \in failed : Cardinality({m \in failed : Age(m) < Age(n)}) < BatchSize}
  IN
  /\ w \in Retries
  /\ batch # {}
  /\ \E todo \in SetToSeqs(batch) :
       /\ \A i, j \in DOMAIN todo : i < j => Age(todo[i]) < Age(todo[j])
       /\ Begin(worker, w, Sending(todo, "send"))
  /\ UNCHANGED <<email, unread, updated, copies, doubts, stops>>

(* markRead, markAllRead: once per notice, and the row counts as written.  *)
MarkRead(n) ==
  /\ n \in unread
  /\ unread' = unread \ {n}
  /\ updated' = Touched(n)
  /\ UNCHANGED <<email, copies, doubts, worker, stops>>

(* The process stops; a mail that was not yet recorded as sent is in doubt. *)
Stop ==
  LET unrecorded(n) == \E w \in Workers : /\ worker[w].pc = "record" /\ worker[w].status = "SENT"
                                          /\ Head(worker[w].todo) = n
  IN
  /\ stops < MaxStops
  /\ stops' = stops + 1
  /\ worker' = [w \in Workers |-> Idle]
  /\ doubts' = [n \in Notices |-> IF unrecorded(n) THEN doubts[n] + 1 ELSE doubts[n]]
  /\ UNCHANGED <<email, unread, updated, copies>>

-----------------------------------------------------------------------------
WorkerStep(w) ==
  \/ CreateNotice(w) \/ CreateFails(w) \/ AttemptFails(w) \/ (\E n \in Notices : Accept(w, n))
  \/ RecordEmail(w) \/ RecordFails(w) \/ DeliverSms(w) \/ StartRetry(w)

NotificationsNext ==
  \/ \E w \in Workers : \/ WorkerStep(w)
                        \/ \E ns \in SUBSET Notices : \E todo \in SetToSeqs(ns) : NotifyAll(w, todo)
  \/ \E n \in Notices : MarkRead(n)
  \/ Stop

(* The retry job runs every night and a worker goes on; a good address     *)
(* does not refuse every night, nor does the database.                     *)
KeepsTrying ==
  /\ \A w \in Workers : WF_notificationVars(WorkerStep(w))
  /\ \A w \in Retries : /\ SF_notificationVars(RecordEmail(w))
                        /\ \A n \in Notices \ Bouncing : SF_notificationVars(Accept(w, n))

NotificationsSpec ==
  NotificationsInit /\ [][NotificationsNext]_notificationVars /\ KeepsTrying

-----------------------------------------------------------------------------
(* A mail reaches its recipient once, but for the times it was taken for   *)
(* lost: the retry takes up no row that a request is still delivering      *)
(* (retryFailedEmails leaves PENDING alone).                               *)
DeliveredOnce == \A n \in Notices : copies[n] <= 1 + doubts[n]

(* However many addresses bounce for good, they do not use up the batches: *)
(* a mail that failed and can be delivered is delivered (the batch is the  *)
(* rows longest untouched, and a failed attempt touches its row).          *)
NoneStarved == \A n \in Notices \ Bouncing : email[n] = "FAILED" ~> email[n] = "SENT"
=============================================================================
