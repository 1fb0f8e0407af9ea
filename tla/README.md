# Verification of the NCA data-collection portal

The portal collects periodic returns from telecommunications operators for a
regulator. An operator opens a return for a reporting period, answers a
questionnaire, signs and submits it; a Checker, a Verifier and an Approver
review it in turn; a clean record lets an operator skip the Checker; a rejection
opens a new version. Around that core sit enforcement (cases and penalties for
returns not filed), payments, complaints, notifications and scheduled jobs.

The backend (`src/backend/src`, NestJS over Prisma and PostgreSQL) holds all the
logic with state. Its services share one habit that decides how they are
modelled: a handler reads rows, checks them, and writes with one `await` per
statement. Few writes repeat in their `where` clause what the handler checked,
and few handlers use a transaction, so two requests may interleave between any
two statements, and a process may stop between any two.

## Inventory

| Part | State | Operations | What makes it correct |
|---|---|---|---|
| submissions | `submissions`, `submission_values` | open, save, submit, revise, delete | one current return per period; what is filed is what was signed; nothing filed is lost |
| workflow | `review_steps`, `compliance_streaks` | decide, streak upserts | stages in order; no account reviews twice; an approved return is final; the fast track is earned |
| reporting periods | `reporting_periods` | create, update, open, close, remove | no live return in a deleted period; closing ends filing and starts the sweep |
| entities | `entities` | status, licence change, delete | an inactive operator cannot work on returns |
| reference numbers | unique numbers in three tables | count, try, retry | unique, and never locked out by holes |
| enforcement | `enforcement_cases`, `penalty_rules` | sweep, accrue, resolve, waive | one case per default; no charge in the notice or after the filing; what is payable stays so |
| enforcement orders | `enforcement_orders` | draft, issue, lift | an order in force belongs to an open case |
| payments, balances | `payments` | record, reverse | one transfer is recorded once; balances follow the ledger |
| complaints | `complaints` | file, track, attach, change status | the limit on files; a terminal status carries its date |
| notifications | `notifications` | create, deliver, retry | every message is sent or marked failed |
| scheduler | per-process `running` set | seven cron jobs | a job never overlaps itself; jobs are idempotent |
| scheduled reports | `report_schedules` | run when due, send now | a report that is due goes out |
| network feeds | `network_feeds`, `feed_runs`, agreements | pull when due, pull now | one attempt per window |
| licence documents | `document_records` | upload, replace, sweep for expiry | each stage is alerted once |
| templates | `reporting_templates` and parts | draft, publish, version, archive, restore | a questionnaire in use does not change |
| auth, second factor, phone | challenges, codes, tokens | sign in, lock, verify | limits hold, codes are used once |
| users | `users` | create, change, remove, sign up | the Authority keeps an administrator |
| attachments, bulk upload | files and rows | upload, delete, import | a filed return's files are fixed |
| levy | `levy_rates` | enter, change, remove a rate; assess | a charge follows the rate in force |
| validation | none (pure) | compute | |
| portal, analytics, benchmarking, exports, geo, agents, reference data, machine API, signatures, settings, orders, audit, mail, health | tables of their own | read or single-row edits | out of scope: no protocol |
| frontend autosave | the form, refs of `useAutosave`, requests | type, save on a timer, retry | what is shown as saved is saved, and nothing typed is dropped |
| rest of the frontend, deploy, tools, scripts | none | | out of scope: clients and operations |

Interactions: `submit` and `decide` share the submission row and the streak;
`ReportingPeriodsService.close` calls the enforcement sweep, which reads
submissions; accrual reads submissions and penalty rules and writes cases,
which payments read; the scheduler calls enforcement, notifications, documents,
reports and feeds; every handler ends with an audit record and many with a
best-effort notification. `PROJECT.json` lists each component with its status,
and under `hazards` the places where its code is hard to test.

## Modules

| Module | What it is |
|---|---|
| `Filing` | returns from opening to sign-off: submissions, workflow, periods, entities |
| `ReturnLifecycle`, `FilingRefinement` | the abstract life of one operator's return for one period, and the mapping under which `Filing` implements it |
| `ReferenceSequence` | the numbering loop of submissions, payments and complaints |
| `Autosave` | the hook that saves the questionnaire while the operator types |
| `PenaltySchedule` | a line of the schedule, what it charges, which line prices a case |
| `Enforcement` | the sweep, the penalty run, the staff and the schedule |
| `Ledger` | payments, levies and balances, composed with `Enforcement` |
| `Notifications` | notices, their delivery, the retry job |
| `Documents` | licence documents and the expiry sweep |
| `Reports` | scheduled reports and the hourly job |
| `Feeds` | network feeds, agreements and the hourly job |
| `Complaints` | one complaint, its files and its status |
| `Questionnaires` | versions of questionnaires, their rules, the periods bound to them |
| `SecondFactor` | challenges, recovery codes, enrolment of one account |
| `Users` | accounts and their administrators |
| `Requests` | slots of requests in flight, shared by the smaller services |
| `MCFiling`, `MCEnforcement`, `MCLedger`, `MCServices` | instances for TLC |
| `FilingProofs`, `FilingSerialProofs`, `ReferenceSequenceProofs`, `AutosaveProofs`, `EnforcementProofs`, `LedgerProofs`, `JobsProofs`, `ServicesProofs` | TLAPS proofs; `JobsProofs` is about `Documents`, `Feeds` and `Notifications`, `ServicesProofs` about `Complaints`, `SecondFactor`, `Users` and `Questionnaires` |

In all of them a handler that may interleave is a chain of actions: the first
takes the reads and checks and leaves in a slot what the handler knows, each
later one is a write, and one action ends the chain at any point (a crash, a
failed statement). What a slot holds is what the code holds in local variables
across an `await`.

### Filing

State. `ret` is the submissions table as a function from its unique key, entity,
period and version, to rows. A row keeps the status, stage, `deletedAt`,
`lockedAt` and `isLate` flags, its values as one opaque content, the content its
signature was taken over, its review steps in order, and whether a filing of it
took the fast track. A revision supersedes the version before it, so
`supersedesId` is the key with the version less one. `period` and `active` hold
what handlers read of periods and entities, `streak` the compliance streak of
one questionnaire family. `req` holds the requests in flight.

Steps. A handler is a chain of actions. The first (`OpenDraft`, `SaveValues`,
`Submit`, `Revise`, `Remove`, `Decide`, `RemovePeriod`) takes its reads and its
checks, and leaves a record in `req` of what it will write; each later action is
one write. `submit` is `Submit`, `FileReturn` and, when late or after a change of
services, `ResetStreak`; `decide` is `Decide`, `RecordStep`, then `Reject`,
`Advance` or `SignOff`, then a streak step. Handlers with one write and no check
worth separating (`OpenPeriod`, `ClosePeriod`, `SetStatus`, `ChangeLicence`) are
one action. The number of requests in flight is `Slots`: with one slot requests
are served one after another, with two they interleave at every write.
`Abandon` ends a request at any point: a crash, a failed statement, or no
reference number found. What was written stays.

`signed` is the values `submit` read when it validated them, kept for every return
that is filed: over these the code takes the digest that a certificate's signature
is checked against, when there is one. A return filed without a certificate has
no digest, but it has been validated on the same read, and `FiledIsSigned` says of
both that what is on file is what was read then.

Abstractions. Answers are opaque: validation is the set `Valid`, which services
an answer declares is a free choice whenever an earlier filed return exists. The
clock is the free choice of `late`: `now` is read per request and `update` may
move the due date either way. Roles are chosen per request, because an
administrator may change an account's role between two requests and the guard
reads it each time. The reads a handler makes before its first write are one
step. Entity deletion is not an action: for these handlers it reads as inactive.
Template deletion, attachments and notifications are left out.

### ReferenceSequence

One kind and one year. `CountRows` counts, `WriteRow` or `Collide` is the insert
under the unique index, `End` is a caller told to try again or a process that
stops. `issued` is the numbers in use. `counted` is a history variable: the
count when the request began.

### Autosave

The form, the hook's refs (`lastSaved`, `inFlight`), its state, whether a
debounce timer is pending, the requests on their way and the values on the
server. `Edit` is a render with the effect that follows it; `TimerFires` is the
timer's callback with the call to `save`; `Store` and `Answer` are the two halves
of a request that succeeds; `Fail` is a request lost, refused or answered in
vain. `AutosaveInit` is the return just loaded: `markClean` ran on the render before the
form was seeded, so the first save resends what was loaded. One editor session
is modelled, with nobody else writing the row; the page's own saves, its
refetches and leaving it are in the plan.

### PenaltySchedule and Enforcement

State. `case` is `enforcement_cases` keyed by its unique index, operator and
period; `schedule` is `penalty_rules`; `closed`, `obliged`, `filed` and `revenue`
are what enforcement reads of periods, entities and returns. `basis` is a
history variable: the terms the amount on a case was worked out under. Time is
whole days, and money whole cents.

Steps. `sweepDue` is `StartSweep`, then for each period `SweepPeriod` (its phase,
who owes, who filed), and for each operator missing a return `PriceCase` and
`OpenCase`; `PeriodFails` is its per-period catch. `accrue` is `StartAccrual`,
which reads the open cases, the first filing and the terms of each, and the time,
then one of `CloseFiled`, `Reprice` or `LeaveCase` for each case. The sweep of one
period by `ReportingPeriodsService.close` is `ClosePeriod`. `resolve` and `waive`
read the status and write by id (`Close`, `WriteClosure`). A line is entered,
edited in place or removed (`EnterLine`, `RemoveLine`). The rest of the system
acts in between: `FileReturn`, `Audit` of a revenue, `SetObliged`, `Tick`.

Abstractions. Periods are open from the start and their grace window is fixed
(a scheduled period is not swept). Who is told of what is left out. A case's
dates other than the due date of the remedy notice follow from the rest.

### Ledger

`Ledger` extends `Enforcement`: any of its steps may come between two steps at a
desk. `record` is `RecordPayment` (is the charge payable, is it a duplicate) and
`Insert`; `reverse` is `Reverse` and `WriteReversal`. Levy rates are entered,
changed and removed; `LevyDue` is the assessment of an approved return at the
rate in force on the due date. What is owed is never stored: `Charges`, `Orphans`
and `AllCharges` are the rows of the balances page, `DueOn`, `PaidOn`,
`OutstandingOn` and `OverpaidOn` its columns, and `Total` what stands under a
column. The receipt number is `ReferenceSequence`'s subject.

### Services

* `Notifications`: `createFor` creates and delivers for one recipient after the
  other (`CreateNotice`, `Accept` or `AttemptFails`, `RecordEmail`, `DeliverSms`);
  `StartRetry` is `retryFailedEmails`, the rows longest untouched first (`Age`,
  the place of a row in the order of `updatedAt`). A mail
  may arrive and be taken for lost, or its row's update be lost (`RecordFails`), which
  `doubts` counts; `copies` counts what
  arrived. `MarkRead` touches a row, and so reorders the batches.
* `Documents`: an upload looks and then creates, under a unique index that keeps
  out the second replacement; the sweep reads, claims with a conditional update
  (`Claim`) and notifies. `alerts` counts what the operator got.
* `Reports`: `runDue` settles what is due when it starts and mails one recipient
  at a time; the row is stamped after the last. Monthly and quarterly timetables;
  the weekly one differs in its due moment only. A list may be empty: the job passes
  over it and the button refuses it. An hour is the unit of time.
* `Feeds`: `runDue` and `run` with the four statements of `runFeed`: the run row,
  the fetch, the outcome, the stamp. `attempts` counts the job's runs for each
  window, `breaks` the pulls that ended before their stamp. The fetch is an
  outcome; what was fetched is left out. A feed's agreement is not changed here.
* `Complaints`: an upload counts, stores the file (`FirstWrite`), creates the row; files may be removed and the
  status changed at any point in between.
* `Questionnaires`: of a rule only the field it reads is told apart, of a field
  its section and whether it is numeric; labels, order and other types are not.
  One administrator at a time.
* `SecondFactor`: one account. `Challenge`, `Supersede`, `CreateChallenge` are the
  second half of `login`; a code is looked for (`FindCode`), spent (`SpendCode`)
  and acted on (`SignIn`, `Disable`, `Regenerate`) in separate steps.
* `Users`: one request at a time, because its property is about sequences of them.

`MCServices` puts these eight, `ReferenceSequence` and `Autosave` side by side.
They share no state, so a product of their behaviours would show nothing that the
behaviours one by one do not; the variable `service` says which one a behaviour is
about.

## Runs

| Run | Bounds | What it shows |
|---|---|---|
| `filing_serial` | 1 operator, 2 versions of 1 period or 1 version of each of 2, a valid and an invalid content, 3 reviewers, 1 slot, 4 review steps, threshold 1, no streak to begin with | `TypeOK`, `OneCurrentReturn`, `SeparationOfDuties`, `NoStrandedReturn`, `OfferedCanStart`, `FastTrackEarned` and `ImplementsLifecycle`, for handlers one at a time that may fail at any step |
| `filing_race` | 2 slots, 2 versions, 2 reviewers; 3 review steps with the period open, or 1 with the period closed, reopened and deleted; saves and submits of 1 version, with 2 contents | under every interleaving of two requests, `ReviewTrail`, `VersionChain`, `RequestsBacked`, `FiledOnce`, and `FiledStaysFiled`, `LockedStaysLocked`, `DeletedStaysEmpty` |
| `enforcement` | 1 operator, 1 period, 1 per-day line, notice of 1 day, 3 days, a sweep, a penalty run, a clerk | `NothingDueInRemedy`, `NoChargeAfterFiling`, and under fairness `EveryDefaultCaught`, `FiledIsClosed`, `PenaltyFallsDue` |
| `ledger` | a line on a share of revenue, 2 days, 1 rate, 1 transfer, 2 officers; 2 penalty runs and a desk, or a run, a desk and a levy, or 2 desks | `StaysPayable`, `NoMoneyInRemedy`, `EntriesBounded`, `NothingVanishes` |
| `services` | see below | `SequenceTypeOK`, `LoneRequestNumbered`, `GaveUpOnlyIfBeaten`, `AutosaveTypeOK`, `SavedIsStored`, `NoRedundantSave`, `NextEditTriesAgain`, `DeliveredOnce`, `NoneStarved`, `StageAlertedOnce`, `DueGoesOut`, `OneAttemptPerWindow`, `EvidenceStored`, `OneInForce`, `RulesResolve`, `RecoveryCodeOnce`, `AuthorityHasAdmin` |
| `filing_locked` | 2 slots, 1 return | violation of `LockedIsFinal` |
| `filing_retained` | 2 slots, 1 return | violation of `SubmittedRetained` |
| `filing_signed` | 2 slots, 1 return | violation of `FiledIsSigned` |
| `ledger_twice` | 2 desks, 1 transfer | violation of `NoDoubleEntry` |
| `complaint_files` | the code's limit of 3, 2 uploads | violation of `FilesWithinLimit` |
| `enforcement_payable` | as `enforcement`, with a fixed penalty | violation of `PenaltyFallsDue` |
| `autosave_safe` | 3 contents | violation of `SavedMeansSafe` |

Why the bounds are enough. Two versions reach a rejection, a revision, a deleted
revision and its reclaiming. Four review steps reach a rejection followed by a
full approval, or a full approval with one abandoned request. A threshold of
one, not the code's three, makes the fast track happen within a few steps, and
the threshold is only compared. `filing_serial` starts without a streak and earns
one, on another period, since a streak counts approvals of other returns;
`filing_race` starts at the threshold, so that both the full and the fast review
are explored there. Two slots show every pairwise race; the proofs
below cover any number. A run may be of several scenes (`Scenes`), each of which
bounds rows, review steps and streaks and may hold periods open, operators
active and answers empty: two requests over two versions with the period deleted in between is more
than TLC gets through with three review steps and saves as well, and these hardly
meet. A
scene is a constraint, so states past its bounds are checked but not explored further.
Deadlock is not checked: with every row decided the service has nothing to do.

In `enforcement` three days reach a default on the first, a notice that lapses on
the second and a payable figure that is still running on the third; a run may
read on one day and write on the next. It may be that no line is in force when a case
opens, so cases nobody has priced occur. `ledger` adds the
share of revenue, where a figure waits for an audit and vanishes if the notice is
answered; no sweeper is given there, so cases are opened by the sweep of a closed
period. Its scenes are the nightly run and the button at once with a desk that
takes money, one of each on the last day with levies owed too, and two desks that record and
reverse up to three payments between two runs. Two runs need a notice that lapses
between the times they read: two days. One transfer with one amount is the
interesting case of a duplicate. `services` has two notices,
one of which bounces, batches of one and one stop, so that a bad address can
block the queue; two documents, one of which may replace the other, and two
sweeps; two reports with one reader nobody can reach, an empty list, and two
windows; three requests for numbers with two attempts each, so that a request
gives up; four contents of a form; a feed whose agreement lapses; a limit of two
files and two uploads; two versions of one questionnaire; two recovery codes in sets of one, so that a set is replaced; three
accounts, of which one may belong to an operator.

Properties of `Filing` come in three groups. The first holds however requests
interleave, because the code orders its writes (the review step before the move)
or guards one (`updateMany` on a draft). The second is what its guards make of
races that they do not exclude: a request that read before a return was filed,
approved, or its period deleted may still write, but no later one can
(`FiledStaysFiled`, `LockedStaysLocked`, `DeletedStaysEmpty`). Each says so of every
return from the moment nothing that could undo it is in flight, and that its
standing then is for good; a guard that let one later request through would break
them. The third group is what the handlers establish one at a time, failures at
any step included, in `filing_serial`; with two requests on one return most of it
breaks, at the hazards named in `PROJECT.json`.

Seven runs show where the code departs from what it says of itself:

* `filing_locked`. `decide` moves a return by id alone. Two Checkers read it at
  their stage; one decision is written, the return goes on to the Approver and
  is locked; the other decision's late update sets it back to `UNDER_REVIEW`.
  The schema says an approved return is permanently locked.
* `filing_retained`. `remove` checks for a draft and then deletes by id alone. A
  submit in between files the return, and the delete hides it. The comment says
  submitted returns are not deletable there; and the operator, offered the period
  again, can never start it, which is what `reviveDeletedDraft` was written to
  prevent.
* `filing_signed`. A save looks for a draft and then writes the answers without
  looking again; `submit` files on the status alone. A save in flight changes the
  answers after `submit` validated them and took their digest, though the comment
  says that what is signed and what is filed are necessarily the same thing.
* `ledger_twice`. The look for a duplicate and the insert are two statements and no
  unique key backs them: two officers who key one transfer at once record it
  twice. The comment calls that doubling the money on the books, and another, at
  the receipt number, allows for two officers at the same moment.
  `EntriesBounded` is what is left: never more often than requests in flight.
* `complaint_files`. Two uploads each count two files and both go on, and the
  complaint has four, against a limit whose comment and message say three.
  `OverrunBounded`, proved below, says how far past the limit it can go.
* `autosave_safe`. A timer is set only by a change of the form, and its call to
  `save` returns at once while a save is in flight. An edit made during a save
  can so be left with no timer and no save to come, while the page says "Saved"
  and navigation is not blocked. The trace found types back to the last saved
  content during a save; with three contents a timer that fires into the flag
  does the same.
* `enforcement_payable`. `accrue` passes over a case whose figure has not moved
  before it reaches the write that stamps the case as payable. A fixed penalty is
  on the case from the day it is opened, unstamped, and never moves; a figure that
  reaches its cap within the notice does not either. Such a penalty never becomes
  payable while the return is missing, and no payment can be recorded against it.
  The comments say the accrual sets the stamp once the notice has run out.

Others were met while modelling and have no run of their own. They are behaviours
of the modules, which is why some properties are stated as they are:

* A case resolved or waived after `accrue` read it is priced or closed again by
  its late update, against "Closed cases are never touched".
* `curedInTime` is judged on the clock of the penalty run, not on the day of the
  filing: a return filed within the notice and noticed after it pays the share.
* Two penalty runs at once, the nightly one and the button (which takes no lock of
  the scheduler's), can take a stamp back that a payment relied on, if one of them
  read the time before the notice ran out. `StaysPayable` says that no other can.
* A draft opened between the count and the deletion of a period is stranded in it,
  which the comment in `remove` means to prevent; `DeletedStaysEmpty` says that no
  request can do so that starts later.
* Two requests of one account, or two Approvers, that pass the checks of `decide` at
  once: the account reviews twice, the streak counts one approval twice.
* An edit of a schedule line in place reprices the open cases that record it,
  including for days before the edit.
* A notice left `PENDING` by a stop is never retried: the retry looks at `FAILED`.
  A stop between the claim and the notice of an expiry stage loses that alert.
* A report whose list fails in the middle is sent again to its first recipients,
  and one that fails until its month is over skips the month.
* The hourly job judges a feed's agreement on what it read when it started.
* A questionnaire that `publish` archived while periods are open on it may be
  restored and edited under them.
* Two administrators who demote each other at once both count the other.
* A challenge of the app survives the app being disabled, and a set of codes
  regenerated while the factor is disabled outlives it.

`filing_serial` also checks refinement: `CurrentOf` maps the one live version
that was not rejected to where the return stands, and every step of `Filing` is
then a step of `ReturnLifecycle` or a stutter: no step skips a stage, loses a
filed return or moves an approved one; `LifecycleImplemented` below proves it
for every instance in which no two requests in flight are about one return.
`Filing` claims no liveness: nothing moves a return but its users, so no fairness is assumed.

Fairness is assumed where the code has a timer, and no further:

* `Autosave`: a timer that is not cleared fires (`WF_vars(TimerFires)`), which is
  the browser's contract. Nothing is assumed of the network, because the client
  sets no time limit on a request; `NextEditTriesAgain` needs none, and would fail
  if the `finally` of `save` ran on success only.
* `Enforcement`, `NightlyRuns`: the scheduler starts both runs every night and a
  run that has started goes on (weak fairness of the step of a run); a statement
  that is tried every night does not fail every night (strong fairness of each,
  since a crash or a failed period takes the step away in between). Nothing is
  assumed of operators, staff, or the clock.
* `Notifications`, `KeepsTrying`: a worker goes on, the retry job among them; a
  good address does not refuse every night (strong fairness of `Accept`), nor does
  the database refuse every update of the retry job (of `RecordEmail`). Nothing is
  assumed of an address that bounces.
* `Reports`, `HourlyJob`: time passes, the job starts every hour and goes on, and
  a mail to a reader who can be reached is not refused in every hour it is tried.
  The clock is bounded, so the last window is the one that must be served.

## Proofs

`FilingProofs` proves, for any operators, periods, versions, reviewers and
requests in flight, and any streak threshold:

* `TypeCorrect`: `Spec => []TypeOK`;
* `ReviewTrailHolds`, `VersionChainHolds`, `RequestsBackedHolds`;
* `FiledOnceHolds`: no step replaces the signature of a return that has left
  `DRAFT`;
* `FiledForGood`, `LockedForGood`, `DeletedForGood`: `FiledStaysFiled`,
  `LockedStaysLocked`, `DeletedStaysEmpty`. None assumes anything of the requests in
  flight.

The assumptions are the four of `Filing` on its constants. Neither `ReviewTrail`
nor `VersionChain` is inductive: a request in flight may write long after it
read. The inductive invariant `IInv` adds `RequestsBacked`, which says that what
such a request relies on (earlier approvals, its own review step, the rejection
it revises after) is still on record, and `AbsentRowsBlank`. The argument is
that these facts only ever gain: `HistoryGrows` says that no step shortens a
return's review history, takes back its fast track, or removes the row, so a
fact about the history that was true at the read is true at the write. Each
write then preserves the invariant (`Creations`, `DraftWrites`, `Filings`,
`Recording`, `Applying`), and each read starts a request that is backed
(`OperatorReads`, `DecideKeeps`).

The last three theorems look at the handlers from both ends. `Starting` says what a
handler has read of the tables when it moves on to a write: a draft, for the three
that edit one; a row that is deleted, for those that reclaim one; a return in
review, for a decision. So a return that is live and past `DRAFT` gets no new
request that could undo its filing (`NoNewEdit`), and an approved one none that
decides. `Writing` says what each write may do to a row, and hence that with no
such request in flight nothing is left that can (`SealKept`).

`FilingSerialProofs` proves the third group of properties of `Filing`, for any
operators, periods, versions, reviewers, thresholds and requests in flight, under
one hypothesis, `[]Apart`: no two of those requests are about the same return, and
none about a return of a period that is being deleted. The code takes no lock that
would see to this, and the theorems do not say that it does: they say that each
handler is right by itself, whatever the others did before it, wherever one of
them stopped, and whatever goes on beside it on other returns of the same
operator. What is left to be said of handlers that race on one return is in
`FilingProofs` and in the three violations; properties that only such a race could
break (`LockedIsFinal`, `SubmittedRetained`, `FiledIsSigned`) have no theorem here.
Requests served one after another, as in `filing_serial`, are a special case
(`OneAtATime`).

* `OneCurrentHolds`, `DutiesSeparated` and `OffersHold` follow from `SerialInv`. To
  `IInv` it adds `RowsSound` (the columns of a row agree: status with stage, lock,
  review trail and signature), `VersionsInOrder` (every version but the last was
  rejected), `NoStrandedReturn`, and `RequestsReady`: what a request found when it
  read is still so when it writes. The last is what a second request on the return
  would break; a write to another return leaves it (`ReadyElsewhere`), and the
  statements of administrators (a role, a period, a licence) do fall between a
  request's writes, and `Ready` says only what they cannot change. Nearly all steps
  write one row at most, so one lemma, `SerialWrite`, says what such a write has to
  respect.
* `FastTrackHolds` needs `EarnedInv`: the streak is at most the on-time approvals
  counted, less one for each sign-off whose increment is still to be made (`Owed`,
  the number of requests in flight that owe it; `StreakEarned`). Resets and
  increments may fall in any order: an increment moves one from what is owed to the
  streak, and a reset only lowers it.
* `LifecycleImplemented`: the initial states map to `ReturnLifecycle`'s, and each
  step to a step of it or none, by the action that was taken. `OthersRejected`
  gives the mapping its sense: where a version stands that was not rejected, it
  is the only one, so that `CurrentOf` has nothing to choose.

`ReferenceSequenceProofs` proves `NeverLockedOut` and `GivesUpHonestly` for any
number of issuers and attempts. The invariant behind both is `WithinReach`: a
number in use exceeds the count of numbers by less than `MaxAttempts`, because
each was computed as count, plus one, plus an attempt, and the count has grown
by at least one when it is written. So the last number a request tries alone is
always free. `Trying` ties a number about to be tried to the count when its
request began. It uses the assumption that `MaxAttempts` is positive, and the
library's facts on cardinality.

`AutosaveProofs` proves `SavedIsTrue` and `OneSaveAtATime` for any contents.
`InFlightSave` is the strengthening: there is a request exactly while the flag is
up and the page says "Saving", and once stored it is what the server has.
`NothingSentTwice` proves `NoRedundantSave`: only a timer can start a save outside
an error, and it compares the form with `lastSaved` once more when it fires.

`EnforcementProofs` proves, for any operators, periods, lines, revenues and any
number of sweeps, penalty runs and staff requests at once: `TypeCorrect`;
`PriceWithinBounds` (a price is pending, or lies between floor and cap);
`RemedyRespected` (`NothingDueInRemedy`) and `MeterStopsAtFiling`
(`NoChargeAfterFiling`). The inductive invariant `IInv` joins to them `Opened`
(a case that exists has a notice), `RunsHold` (what a run read is of the past: its
time, the filings it found, the cases it holds; a filing it did not find came
after it) and `Dated`; `Charged` bounds what is payable by the price up to the
filing, or up to now while there is none, and holds because a price never falls
as days go by (`BoundMonotone`) and a run prices at a day that is past.
`PayableForGood` (`StaysPayable`) holds for any number of penalty runs, the nightly
one and the button's: `RunInv` adds that an open case has not been ended by a
filing, and `RunsGoOn` that a run which is under way after a step was under way
before it with the same time, or starts now. So once no run is left that read
within the notice there is none again, and what the others write keeps the stamp.

`LedgerProofs` proves three things of payments beside any enforcement.

* `MoneyAfterRemedy` (`NoMoneyInRemedy`) for any number of penalty runs and desks.
  What is on record, or about to be, is against a penalty whose notice has run out
  or whose case the filing closed (`FallenDue`). A stamp implies it, by
  `RemedyRespected`, and no step undoes it (`FallenKept`), though a stamp may go.
* `EntriesHeld` (`EntriesBounded`) for any number of desks: the entries of a transfer
  that stand, and the desks about to insert it, are together at most the desks
  (`EntriesInv`). A desk that looks and finds one goes no further; one that finds
  none starts from none. One desk by itself so records a transfer once.
* `BalancesComplete` (`NothingVanishes`) with no hypothesis, for any number of
  operators, periods, rates, payments and desks; it follows from the types
  (`LedgerTypes`). Its first half says that the payments that stand fall into
  groups, one for each charge shown: every payment has a charge or an orphan row
  of its own, no key has two rows (`OneChargePerKey`), and a row with money
  against it is shown (`PaidTyped`). So the sum of the groups is the sum of the
  payments (`PaidByGroup`). Its second half holds row by row, and so for the
  totals (`SumsBalance`).

The last needs facts on sums over finite sets which the library states for
operators only. They are proved in the same module for `SumFunctionOnSet` from
its definition: a least counterexample (`WFMin` on the naturals) gives induction
over finite sets in the form of a set closed under adding elements
(`FiniteInduction`), which shows that the recursion behind the sum has a solution
(`SumsDefined`), that the order of summing does not matter (`SumRemove`), and that
sums of disjoint sets add (`SumOfParts`).

`JobsProofs` is about three of the scheduled jobs.

* `AlertedOnce` (`StageAlertedOnce`) for any number of sweeps. A stage has a rank,
  claims only raise the rank on a document, and whoever raised it is the one who
  sends; so the alerts sent and the alert about to be sent, of each stage, are at
  most one.
* `OnePullPerWindow` (`OneAttemptPerWindow`) for any feeds, agreements, buttons and
  timetables under one scheduler: an attempt is in hand until the feed is stamped
  or the pull breaks off, and a stamp is not earlier than the window it was made
  for. The two hypotheses, one job and slots of their own for buttons, are those
  of one instance.
* `MailedOnce` (`DeliveredOnce`) for any notices, batch size and creating requests
  under one retry job. A notice in the hands of a worker is in nobody else's
  (`HeldByOne`), because a new one is `PENDING`, which the job passes over, until
  its creator writes the outcome; a row the job holds is `FAILED` until it is
  written (`RowsHeld`); and a copy beyond those doubted exists only where the
  outcome has still to be written or says sent (`MailsCounted`).

`ServicesProofs` is about four of the request-driven services.

* `LimitNearlyKept` (`OverrunBounded`) for any limit and any number of uploads.
  `RoomFound` bounds the files together with the uploads in flight: an upload that
  starts finds room, and at most `Uploads` less one others are in flight then.
* `EvidenceKept` (`EvidenceStored`) for any number of uploads: a row about to be
  created has its file stored already (`StoredFirst`).
* `CodeSpentOnce` (`RecoveryCodeOnce`) for any number of racing requests:
  `Ledgered` says that a code that is neither spent nor gone has let nobody in,
  `CodesNamed` that a request names a code there is.
* `NeverLockedOut` (`AuthorityHasAdmin`) for any accounts and operators, with
  `Belonging` (an account of the Authority belongs to no operator, so that an
  operator's administrator cannot reach it) as strengthening.
* `OneVersionInForce` (`OneInForce`) and `RulesOfWhatIsInForce` (`RulesResolve`) for
  any number of versions, fields and rules: only `publish` brings a version into
  force, it archives the others of the name and looks at every rule, and a version
  in force is not edited.

The assumptions behind the theorems are the named ones of the modules on their
constants, each evaluated by TLC on its instance: sets that a table makes finite
are finite, bounds and limits are positive, and values are ones a DTO admits
(`AmountsAssumption`: an amount is at least one cent; `RatesAssumption`: a rate is
between 0 and 100 percent). Beside them some theorems have a hypothesis of their
own on what is in flight at once: one process of `Retries` for `MailedOnce` and one
hourly job for `OnePullPerWindow`, for which the scheduler's lock in one instance is
the reason, and `Apart` for those of `FilingSerialProofs`, for which there is none in
the code: it is a restriction of what they say, as told above. `AuthorityHasAdmin` and
the questionnaires are about one administrator at a time by the shape of their
modules.

Of what runs pass, every safety invariant, action property and refinement is thus
proved, `NoStrandedReturn` within `SerialInv`. Model-checked only is liveness, which
is out of the prover's reach: `NoneStarved`, `DueGoesOut`, `NextEditTriesAgain`,
`EveryDefaultCaught`, `FiledIsClosed` and `PenaltyFallsDue`.

## Not modelled

The interface (`src/frontend`, but for the autosave hook) is a large part of the
repository: screens over calls whose guards the server repeats, so nothing that
the modules claim depends on them. Seeds and demonstration questionnaires are
data. Neither has a state machine to translate, and together with DTOs, modules,
controllers and tests they are why only a small share of the lines is mapped.

In the backend:

* read-only aggregation, rendering and export (analytics, benchmarking, portal,
  exports, tracking, the machine API's data access): they change nothing;
* single-table edits guarded by one read (agents, geo, reference data, settings,
  enforcement orders, certificates): no other component depends on their state;
* the lockout counter, token refresh, password resets and phone codes: single-row
  updates of the shape `SecondFactor` shows for challenges;
* attachments and blobs: the digest that is signed covers answers only, so no
  state of `Filing` depends on a file; that an upload may land after the submit is
  in the list of hazards;
* the validation engine, a pure function that `Filing` takes as the constant
  `Valid`, and the workbook parser in front of `saveValues`;
* audit, mail and storage as such: they appear as steps that may fail;
* cryptography, deployment and operations scripts.

Partly modelled are reporting periods (dates move by the free choice of `late`;
enforcement keeps its grace window fixed), entities (creation and deletion), the
scheduler (its lock is the slot of each job; its run log is only looked at), the
sessions of `auth`, and the editor page around the autosave hook, whose own saves
and refetches depend on a query cache that is not modelled.

What a next step would prove: safety of `Reports` (which reader of a report may
get it twice, and how often).
