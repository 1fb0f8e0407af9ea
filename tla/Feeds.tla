------------------------------- MODULE Feeds --------------------------------
(***************************************************************************)
(* Network feeds: the hourly job pulls every feed whose window has come    *)
(* round, one after the other, from what it read at its start; an          *)
(* administrator may pull one by hand.  A feed is governed by an           *)
(* agreement.  What a pull collects is not told apart.                     *)
(***************************************************************************)
EXTENDS Requests, Integers

CONSTANTS
  Feeds,          \* feeds there may be
  Agreements,     \* data-sharing agreements there may be
  FeedTimetables, \* frequency, hour and day of the week an administrator may choose
  Terms,          \* status and dates an agreement may have
  Day, Week,      \* hours in a day, days in a week
  LastTick,       \* bound on the clock, in hours
  FeedJobs,       \* slots of the hourly job
  Pullers,        \* slots of the "run now" button
  MaxBreaks,      \* bound on pulls broken off, per feed
  NotYet          \* no window, no end, no agreement, lastRunAt of a feed never pulled

ASSUME FeedAssumption ==
  /\ Day \in Nat \ {0} /\ Week \in Nat \ {0} /\ LastTick \in Nat /\ MaxBreaks \in Nat
  /\ FeedTimetables \subseteq [frequency : {"HOURLY", "DAILY", "WEEKLY"}, hour : 0..Day - 1, day : 0..Week - 1]
  /\ NotYet \notin Int

VARIABLES
  tick,      \* the clock
  agreement, \* data_sharing_agreements
  feed,      \* network_feeds
  pull,      \* the job and the buttons in flight
  attempts,  \* feed_runs the job created, for each feed and window
  breaks     \* pulls that ended before the feed was stamped, for each feed

feedVars == <<tick, agreement, feed, pull, attempts, breaks>>

Outcomes == {"SUCCEEDED", "FAILED", "SKIPPED"}
Windows  == -(Day * Week)..LastTick
AgreementStatuses == {"DRAFT", "ACTIVE", "EXPIRED", "TERMINATED"}
AllTerms == [status : AgreementStatuses, startsAt : Nat, endsAt : Nat \cup {NotYet}]

ASSUME TermsAssumption == Terms \subseteq AllTerms /\ NotYet \notin AllTerms

AgreementRows == [live : BOOLEAN, terms : AllTerms \cup {NotYet}]
FeedRows == [live : BOOLEAN, isEnabled : BOOLEAN, agreement : Agreements \cup {NotYet},
             timetable : FeedTimetables \cup {NotYet}, lastRunAt : Nat \cup {NotYet}]
NoFeed == [live |-> FALSE, isEnabled |-> FALSE, agreement |-> NotYet, timetable |-> NotYet,
           lastRunAt |-> NotYet]
(* What runnableSelect reads of a feed: its row and its agreement's terms. *)
Runnables == [row : FeedRows, terms : AllTerms \cup {NotYet}]
PullStates ==
  {Idle} \cup [pc : {"feeds"}, todo : SUBSET Feeds, read : [Feeds -> Runnables], now : Nat]
  \cup [pc : {"attempt", "fetch"}, todo : SUBSET Feeds, read : [Feeds -> Runnables], now : Nat, feed : Feeds]
  \cup [pc : {"record", "stamp"}, todo : SUBSET Feeds, read : [Feeds -> Runnables], now : Nat, feed : Feeds,
        outcome : Outcomes]

FeedsTypeOK ==
  /\ tick \in Nat
  /\ agreement \in [Agreements -> AgreementRows]
  /\ feed \in [Feeds -> FeedRows]
  /\ pull \in [FeedJobs \cup Pullers -> PullStates]
  /\ attempts \in [Feeds \X Windows -> Nat] /\ breaks \in [Feeds -> Nat]

FeedsInit ==
  /\ tick = 0
  /\ agreement = [a \in Agreements |-> [live |-> FALSE, terms |-> NotYet]]
  /\ feed = [f \in Feeds |-> NoFeed]
  /\ pull = [s \in FeedJobs \cup Pullers |-> Idle]
  /\ attempts = [x \in Feeds \X Windows |-> 0]
  /\ breaks = [f \in Feeds |-> 0]

-----------------------------------------------------------------------------
(* feedWindowStart, isFeedDue and agreementInForce.                        *)

FeedWindow(timetable, t) ==
  LET daysSince == IF timetable.frequency = "WEEKLY" THEN (t \div Day - timetable.day) % Week ELSE 0
      due == (t \div Day - daysSince) * Day + timetable.hour
  IN IF timetable.frequency = "HOURLY" THEN t ELSE IF due > t THEN NotYet ELSE due

IsFeedDue(row, t) ==
  LET due == FeedWindow(row.timetable, t) IN
  due # NotYet /\ (row.lastRunAt = NotYet \/ row.lastRunAt < due)

InForce(terms, t) ==
  terms.status = "ACTIVE" /\ terms.startsAt <= t /\ (terms.endsAt = NotYet \/ t <= terms.endsAt)

-----------------------------------------------------------------------------
(* runDue, run and runFeed.                                                *)

Runnable(f) == [row |-> feed[f], terms |-> agreement[feed[f].agreement].terms]
GoOnPulling(r, todo) ==
  IF todo = {} THEN Idle ELSE [pc |-> "feeds", todo |-> todo, read |-> r.read, now |-> r.now]
Pulling(r, todo, f) == [pc |-> "attempt", todo |-> todo, read |-> r.read, now |-> r.now, feed |-> f]
ReadOf(fs) == [f \in Feeds |-> IF f \in fs THEN Runnable(f) ELSE [row |-> NoFeed, terms |-> NotYet]]

StartFeedJob(s) ==
  LET enabled == {f \in Feeds : feed[f].live /\ feed[f].isEnabled /\ agreement[feed[f].agreement].live} IN
  /\ s \in FeedJobs
  /\ Begin(pull, s, GoOnPulling([read |-> ReadOf(enabled), now |-> tick], enabled))
  /\ UNCHANGED <<tick, agreement, feed, attempts, breaks>>

RunFeed(s, f) ==
  /\ s \in Pullers /\ feed[f].live
  /\ Begin(pull, s, Pulling([read |-> ReadOf({f}), now |-> tick], {}, f))
  /\ UNCHANGED <<tick, agreement, feed, attempts, breaks>>

TakeFeed(s, f) ==
  LET r == pull[s]
      rest == r.todo \ {f}
  IN
  /\ At(pull, s, "feeds") /\ f \in r.todo
  /\ Continue(pull, s, IF IsFeedDue(r.read[f].row, r.now) THEN Pulling(r, rest, f)
                       ELSE GoOnPulling(r, rest))
  /\ UNCHANGED <<tick, agreement, feed, attempts, breaks>>

Become(r, pc, outcome) == [pc |-> pc, todo |-> r.todo, read |-> r.read, now |-> r.now, feed |-> r.feed,
                           outcome |-> outcome]

(* The run row is created before anything is fetched, as skipped or failed. *)
CreateRun(s) ==
  LET r == pull[s]
      window == <<r.feed, FeedWindow(r.read[r.feed].row.timetable, r.now)>>
  IN
  /\ At(pull, s, "attempt")
  /\ Continue(pull, s, IF InForce(r.read[r.feed].terms, tick) THEN [r EXCEPT !.pc = "fetch"]
                       ELSE Become(r, "stamp", "SKIPPED"))
  /\ attempts' = IF s \in FeedJobs THEN [attempts EXCEPT ![window] = @ + 1] ELSE attempts
  /\ UNCHANGED <<tick, agreement, feed, breaks>>

Fetch(s, outcome) ==
  /\ At(pull, s, "fetch") /\ outcome # "SKIPPED"
  /\ Continue(pull, s, Become(pull[s], "record", outcome))
  /\ UNCHANGED <<tick, agreement, feed, attempts, breaks>>

RecordRun(s) ==
  /\ At(pull, s, "record")
  /\ Continue(pull, s, [pull[s] EXCEPT !.pc = "stamp"])
  /\ UNCHANGED <<tick, agreement, feed, attempts, breaks>>

(* Mutant of LastRun: a skip does not count as a run.                      *)
LastRunUnlessSkipped(r) == IF r.outcome = "SKIPPED" THEN feed[r.feed].lastRunAt ELSE tick
LastRun(r)              == tick

StampFeed(s) ==
  LET r == pull[s] IN
  /\ At(pull, s, "stamp")
  /\ feed' = [feed EXCEPT ![r.feed].lastRunAt = LastRun(r)]
  /\ Continue(pull, s, GoOnPulling(r, r.todo))
  /\ UNCHANGED <<tick, agreement, attempts, breaks>>

(* The database fails a pull, which costs the others nothing, or the       *)
(* process stops.                                                          *)
BreakOff(s) ==
  LET r == pull[s] IN
  /\ r.pc \in {"attempt", "fetch", "record", "stamp"}
  /\ breaks[r.feed] < MaxBreaks
  /\ breaks' = [breaks EXCEPT ![r.feed] = @ + 1]
  /\ Continue(pull, s, GoOnPulling(r, r.todo)) \/ Finish(pull, s)
  /\ UNCHANGED <<tick, agreement, feed, attempts>>

-----------------------------------------------------------------------------
(* Agreements and feeds.                                                   *)

CreateAgreement(a, terms) ==
  /\ agreement[a].terms = NotYet
  /\ agreement' = [agreement EXCEPT ![a] = [live |-> TRUE, terms |-> terms]]
  /\ UNCHANGED <<tick, feed, pull, attempts, breaks>>

UpdateAgreement(a, terms) ==
  /\ agreement[a].live
  /\ agreement' = [agreement EXCEPT ![a].terms = terms]
  /\ UNCHANGED <<tick, feed, pull, attempts, breaks>>

RemoveAgreement(a) ==
  /\ agreement[a].live /\ \A f \in Feeds : feed[f].agreement = a => ~feed[f].live
  /\ agreement' = [agreement EXCEPT ![a].live = FALSE, ![a].terms.status = "TERMINATED"]
  /\ UNCHANGED <<tick, feed, pull, attempts, breaks>>

CreateFeed(f, a, timetable) ==
  /\ feed[f] = NoFeed /\ agreement[a].live
  /\ feed' = [feed EXCEPT ![f] = [live |-> TRUE, isEnabled |-> TRUE, agreement |-> a,
                                  timetable |-> timetable, lastRunAt |-> NotYet]]
  /\ UNCHANGED <<tick, agreement, pull, attempts, breaks>>

UpdateFeed(f, isEnabled, timetable) ==
  /\ feed[f].live
  /\ feed' = [feed EXCEPT ![f].isEnabled = isEnabled, ![f].timetable = timetable]
  /\ UNCHANGED <<tick, agreement, pull, attempts, breaks>>

RemoveFeed(f) ==
  /\ feed[f].live
  /\ feed' = [feed EXCEPT ![f].live = FALSE, ![f].isEnabled = FALSE]
  /\ UNCHANGED <<tick, agreement, pull, attempts, breaks>>

NextTick ==
  /\ tick < LastTick
  /\ tick' = tick + 1
  /\ UNCHANGED <<agreement, feed, pull, attempts, breaks>>

-----------------------------------------------------------------------------
PullStep(s) ==
  \/ StartFeedJob(s) \/ CreateRun(s) \/ RecordRun(s) \/ StampFeed(s) \/ BreakOff(s)
  \/ \E f \in Feeds : TakeFeed(s, f) \/ RunFeed(s, f)
  \/ \E outcome \in Outcomes : Fetch(s, outcome)

FeedsNext ==
  \/ NextTick
  \/ \E s \in FeedJobs \cup Pullers : PullStep(s)
  \/ \E a \in Agreements : \/ RemoveAgreement(a)
                           \/ \E x \in Terms : CreateAgreement(a, x) \/ UpdateAgreement(a, x)
  \/ \E f \in Feeds : \/ RemoveFeed(f)
                      \/ \E k \in FeedTimetables : \/ \E a \in Agreements : CreateFeed(f, a, k)
                                                   \/ \E b \in BOOLEAN : UpdateFeed(f, b, k)

FeedsSpec == FeedsInit /\ [][FeedsNext]_feedVars

-----------------------------------------------------------------------------
(* The job makes one attempt at a feed in each of its windows, and one     *)
(* more only for each that broke off before the feed was stamped, whatever *)
(* the outcome, though the window is judged on what was read and a button, *)
(* or an edit of the timetable, may come in between (run and stamp).       *)
OneAttemptPerWindow == \A x \in Feeds \X Windows : attempts[x] <= 1 + breaks[x[1]]
=============================================================================
