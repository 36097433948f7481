# NotAfter, specified

NotAfter keeps a board of certificates and tells people before they expire: a
daily job sends emails and Teams cards, an hourly one repeats them for what has
expired, and every certificate has one event in people's calendars. This
directory holds TLA+ modules of that behaviour, TLC instances that check them,
and theorems about them that TLAPS checks. `PROJECT.json` lists the components,
the runs, the lines of source behind every definition, the findings, the
hazards and the theorems; this file explains them.

    tlc -config MCJobs_overlap.cfg MCJobs       one run
    tlapm JobsProofs.tla                        the proofs of one module

## 1. Inventory

One process: a FastAPI application and an APScheduler on one asyncio event
loop, with one SQLite database. Code between two awaits is atomic with respect
to every other coroutine; an await, almost always a send to a mail or Teams
provider, lets everything else run. The dependency that identifies the caller
(`current_user`) is not a coroutine and runs in a thread of its own; what it
shares is behind a lock.

| Component | State | Operations | What makes it correct |
|---|---|---|---|
| Notification jobs, `app/jobs.py`, `app/routes/api.py` | `job_run` rows; of a run: the list it read, failures | daily run, run by hand, hourly escalation | what is due is settled or counted as a failure; runs end; failures of one certificate stay its own |
| Once-only log, `app/notifier.py`, `app/models.py` | `notification_log`, unique on certificate, channel and key | `_deliver`, `_upsert_log`, `mark_superseded` | a message goes out once; "sent" is true; a settled row is final; reminders only come nearer |
| Scheduler, `app/jobs.py` | next trigger times, in memory | start, trigger, shutdown | one instance of each job; a late run is caught up; no expiry day passes untried |
| Health report, `app/routes/api.py` | none of its own | read the newest `job_run` row | a failed run shows |
| Teams and email delivery, `app/notify/` | tries of one card | send, retry, time out | a time limit on every await |
| Certificate records, `app/services.py` | `certificate` | create, edit, attach, archive, restore, renew | one record per certificate; a verified date is the certificate's; something replaces what was renewed |
| Calendar invites, `app/notifier.py`, `app/notify/ics.py` | `calendar_invite`, and what is in people's calendars | publish, cancel, retire the legacy event | rows tell what people hold; an event is up to date; SEQUENCE grows; nothing is left behind |
| Global settings, `app/routes/settings_page.py` | `app_settings` | save, re-issue invites | a timing change reaches the events out there |
| Rate limiter, `app/security.py` | a window of hits per bucket and user | check | the limit in any window; a useful retry hint |
| Sign-in record, `app/auth.py` | a bounded map of sessions seen | arrive, record | one audit line per sign-in |
| Authentication, roles, CSRF, headers, size limits | none | request filters | pure decisions |
| Parsing, `app/parsing.py`, and browser extraction, `web/src/extract.ts` | none | bytes to certificates | both pick the same end-entity certificate; nothing that may hold a private key is taken |
| Upload form, `web/src/upload.ts` | what is shown and chosen | choose, read, unlock, pick, send | what is sent is what was shown, whichever answer is last; the page never hangs |
| Storage, `app/db.py` | tables, write lock | session, commit | a commit that fails loses one request only |
| Audit trail, pages, configuration, logging, migrations | rows, none | append, render, read | presentation and wiring |

How they interact: the routes change a record, commit, and then await the
notifier, which sends and commits its own row. The scheduler starts the jobs,
which read records and settings once and await the notifier for every
certificate. A run started by hand does the same inside a request. They share
only the database, and what one read before an await may be stale after it.
`/healthz` reads the table the jobs write.

What is hard here, and what `hazards` in `PROJECT.json` lists at its lines:
a row read before a send and written after it, by two runs or two requests; a
provider that took a message and whose answer never came; a process that stops
between a send and its commit; edits in the middle of a run; a unique
constraint that is hit after the message went out; a write lock held across an
await; triggers that come late or not at all; keys that outlive the date they
were made for; sequences of renewals and attachments with the same files;
answers in the browser that overtake each other.

## 2. Modules

| Module | Models |
|---|---|
| `Reminders` | `plan_for` and the dedupe keys: which message is due, and which thresholds it overtakes |
| `Jobs` | the three kinds of run, `notify_expiry`, `_deliver`, the log, `job_run`, crashes, edits |
| `Delivery` | the abstract promise of the log: what is settled stays settled and is not begun again |
| `JobsProperties` | the properties of the jobs, and the refinement mapping to `Delivery` |
| `JobsProofs`, `JobsRunProofs`, `JobsHeardProofs` | theorems about the jobs: their log, their runs, and the day nobody should hear nothing |
| `Schedule` (extends `JobsProperties`), `ScheduleProofs` | when the jobs run: triggers in local time, coalescing, grace times, restarts, sleeps; its property; theorems |
| `Records` | the certificate records and the operations of `services.py` |
| `Calendar` (extends `Records`) | the routes, `send_invites`, `cancel_invites`, the rows, people's calendars, the write lock |
| `CalendarProperties` | properties of the calendar |
| `CalendarProofs`, `CalendarSerialProofs` | theorems about records and calendar under any interleaving; theorems about requests in turn |
| `Extraction` | what the browser finds in a file: kinds, PKCS#12 blobs, passwords, which certificates are offered |
| `Parsing` (extends `Extraction`) | what the server refuses, reads and picks |
| `UploadForm` (extends `Parsing`), `UploadProofs` | the upload form in the browser and the routes it posts to: reading, unlocking, picking and sending, with late answers; theorems about the form and about the two ways to pick |
| `Access`, `AccessProofs` | what every request passes first: the sign-in record, roles, the rate limiter; theorems |
| `MCJobs`, `MCJobsHeard`, `MCSchedule`, `MCCalendar`, `MCUploadForm`, `MCAccess` | values for TLC; `MCJobsHeard` adds a history variable: who heard about which record on which day |

### Jobs and the code

`pc[r]` is where run `r` is: `plan` at the head of the loop over certificates,
`check` before a channel of `notify_expiry`, `sending` while it awaits the
provider, `accepted` once the provider has the message and the answer is on
its way. `run[r]` is what the coroutine's local variables hold. `found[r]` is
the status of the row `_deliver` read before it sent; whether the write after
the send is an insert (which can hit `uq_notification_once`), an update, or no
change at all depends on it, because SQLAlchemy writes only columns whose value
differs from the one it read. `copies` is what people received, which no
variable of the program knows. `Accept` and `Tick` are the world's; every
action of the program needs `LoopFree`, or belongs to the one run that holds
the loop.

`Abort` is a commit outside the loop's `try` that finds the database locked, as
a cancellation in `Calendar` can leave it for a while: the run ends and its row
keeps `ok`, which is true by default. A commit inside the `try` that fails is
an `AnswerRaise`.

Certificates are handled in any order: the code sorts them by expiry, which no
property depends on. Time is in hours; a day has `HoursPerDay` of them. A
message is a certificate, a channel and a key, and its text is left out.

### Records, Calendar and the code

A file stands for a certificate's fingerprint, and `ExpiryOf` is the day it
states. `Timing` is a record's lead time and alarms together, its own or the
global ones. Each operation of `services.py` is one step: it never awaits. A
route takes that step and leaves `work[r]`, the calls to `send_invites` it has
to make; a call becomes a list of steps, one for each kind of event. `loaded[r]`
is the row as it was read, `Merge` keeps columns that another request wrote and
this one did not change, `Collides` is `uq_invite_kind`. `cancel_invites` sends
two messages before one commit. Its second look-up flushes the first change, so
from then on it holds SQLite's write lock across an await: `writer`. Another
request's commit then waits on the event loop for five seconds, which also
stops the holder, and fails. `held` is each person's calendar: a message
replaces an event it has only when its SEQUENCE is higher, which is what
`send_invites` relies on. `untold` is a history variable: the records whose
event was last published while nobody was to be told, so that `send_invites`
did nothing. A `Legacy` instance starts with a record from before
the single event, with a separate renewal event that is to be withdrawn.

Not in these two modules: labels, notes and every other text, the rate limit
at the head of each route, the audit rows, an installation without email.

### Schedule and the code

APScheduler keeps its jobs in memory, so `nextRun` is made anew by every `Boot`
and a trigger missed while the process was down is forgotten. `Fire` is the
timer's wake-up: of the times that are due it takes the last (`coalesce`), skips
it while the job is still running (`max_instances`) or when it is later than
`Grace` allows, and otherwise takes the start action of `Jobs`. The clock of
`Jobs` is UTC, as `today_utc()` is; the daily trigger is at an hour of
`TIMEZONE`, and `OffsetAt` says how far that is ahead. An hour passes only when
no trigger is due; `Sleep` is the machine asleep for longer, when the run is
late, by as much as the grace time or more. The grace time of ten minutes is
less than the model's hour, so a late escalation is always missed. `calm` is a
history variable: since which hour nothing kept a run from its time and nobody
changed anything. Runs started by hand are left to `Jobs`.

### Extraction, Parsing, UploadForm and the code

A file is what its bytes hold: an armour, a structure, certificates, and for
PKCS#12 its blobs with the passwords that open each (`FileBytes`). `key` says
who sees a private key in it: the page looks for `PRIVATE KEY-----` in upper
case, the server for a list of words in each label, so some keys are keys to
the server only.
`ExtractLeaves` is `extract.ts` from `detectKind` to `selectLeaves`, with the
order in which its errors win; `ParseUpload` is the server's `parse_upload` for
the same file, posted by a browser without the script.

`task[t]` is an asynchronous call that is going on: reading a file, extracting
its certificates, or trying a password. `handleFile` cancels nothing, so each
goes on to the end and then changes `chosen` and `preview`, which stand for
`this.chosen` and what the page shows. `post` is the certificate being sent,
and `busy` while there is one; its answer may be a success, a refusal, or
never come although the server took it. `PlainPost` is the browser's own
submit while nothing is chosen. `shown` is a history variable: the certificate
last shown under "What will be saved". The other fields of the form, the
password's characters and the tabs are left out.

### Access and the code

`request[r]` is where a request is between identifying the caller and its
route. `seen` is `SignInRecorder._seen`, the least recent session first; marking
is one step, under its lock, and the commit of the audit line another, which
may fail. `hits` keeps everything the limiter accepted and `dropped` how many of
it the deque has let go of, so that a property can look back further than the
code. Time is in ticks, of which a second has several, because the retry hint
cuts off the part of a second.

## 3. Checks

Runs that pass. All of them stop when their bounds are used up, so deadlock is
not checked.

| Run | Instance | Properties |
|---|---|---|
| `overlap` | one certificate expiring on day 1, two one-hour days, daily, hourly and manual runs, three runs in all, every fault, a locked database included | `TypeOK`, `SentWasReceived`, `CleanRunSettles`, `SettledStays`, `PromiseKept`, `NeverFarther` |
| `schedule` | one certificate, a day of three hours and an hour of the next, two starts of the process, sleeps, five runs, refusals and exceptions, one change of any kind, two tries of a card, fairness | `AtMostOnce`, `RunsFinish`, `ExpiryDayIsTried` |
| `edits` | Teams only, two overlapping runs, lost answers, two tries of a card, all four kinds of edit, as often as one likes | `QuietForGood` |
| `calendar` | two files, two days, two timings, one person, default and own lists that have them or nobody, three requests in turn of any of the nine routes, a legacy record, refused and unanswered mails | `RowTells`, `EventIsCurrent`, `OneRecordPerFile`, `VerifiedExpiry`, `SequenceGrows` |
| `calendar_overlap` | two requests at once, a legacy record and a new one, refusals and crashes, fairness | `TypeOK`, `RequestsEnd` |
| `upload` | fourteen kinds of file, two calls going on at once, two passwords, five things a person does, fairness | `FactsAreChosen`, `RegisteredIsLeaf`, `SentWasShown`, `KeyFilesAreRefused`, `ReadingEnds` |
| `access` | two sessions of one editor and one of a viewer, a memory of two, two requests at once, five in all, two actions in four ticks, a restart | `SignInsAreCounted`, `WindowBound`, `RetryIsAccepted` |

What they show. A row that says "sent" was received by somebody, whatever stale
row the run that wrote it had read; a settled row never changes, although a
slower run may fail after a faster one succeeded; a run that reports no failure
has settled every email that was due, even when another run did the sending; a
farther reminder is never begun after a nearer one was sent, even by a run from
yesterday; and the log implements `Delivery`. The jobs as they are scheduled
send nothing twice, every run ends, and the expiry day of a certificate does not
end untried if nothing kept the run from it, a machine that slept past the
trigger by no more than the grace time included; where the trigger is in the
last hour of the UTC day this last part fails, see below. For the calendar, with
requests one after the other, a row marked sent tells what people hold, events
carry today's date and alarms after any route unless there was nobody to tell
when they changed, and every message is newer than what it replaces. The upload
form shows what a submit would send, whichever file is answered last, and sends
only what it showed last. It does not promise more: between the choices of a new
file and a pick, a late answer of an earlier one may have made that file's
certificate the one a submit sends. However a file gets in, what is registered
is an end-entity certificate of it, nothing is taken from a file in which
whoever read it, the page or the server, saw a private key, and the page is
never left at "Reading". Every sign-in has one line, or a commit that failed and
lost it (a session seen before a restart, or pushed out of the memory, signs in
again when it returns); the limit holds in every window, and whoever waits as
told, and the second that was cut off, gets in.

The list of certificates is read once per run, so one muted or archived while
the run waits is still notified. `edits` contains such runs; no property forbids
them.

Runs that TLC refutes, each the disagreement of a document with the code:

| Run | Refutes | How |
|---|---|---|
| `second_run` | `AtMostOnce` | a run by hand starts while the daily run waits for the provider; the constraint rejects the second row after the second message |
| `health` | `FailureShows` | the hourly escalation's row hides a failed daily run |
| `moved` | `ExpiryDayIsHeard` | the key of the expiry-day message does not name the day, so after the expiry moved the new day passes in silence |
| `calendar_left` | `NothingLeftBehind` | somebody taken off the list keeps the event when the record is archived |
| `calendar_renew` | `ReplacementIsActive` | A is renewed by B, then B by A's file: both records are archived |

Some disagreements have no run of their own:

- The daily trigger is in local time and the days are UTC days, so a run shortly
  after local midnight gives the UTC day on which the clocks go back no run at
  all (in Amsterdam, one between 01:00 and 02:00), and a certificate that expires
  that day is not notified on it, although `README.md:141-142` says that this day
  always is. With `OffsetAt <- ClocksGoBack`, `DailyAt = 1`, `ExpiryDays = {1}`,
  `MaxHour = 6` and `MaxRuns = 7` in `MCSchedule_schedule.cfg`, TLC refutes
  `ExpiryDayIsTried`.
- A run whose trigger is in the last hour of the UTC day and that comes late,
  within the grace time, counts for the next day (`jobs.py:103`): the day it was
  for ends untried, against the same lines. With `DailyAt = 0` in
  `MCSchedule_schedule.cfg` (the local clock is one hour ahead, so that is the last
  hour of the UTC day), TLC refutes `ExpiryDayIsTried`.
- The list of default recipients may be empty (`settings_page.py:137-138`; it is
  when the program is installed, `models.py:251-256`). A timing changed while it
  is goes to nobody, filling the list sends nothing, and the row still says
  "sent" of the old event, although `README.md:181-184` says that changing a
  timing re-sends the invitation so that nothing disagrees with what is already
  out there. `EventIsCurrent` leaves such events out (`untold`); without that
  conjunct TLC refutes it in two requests, one after the other: the list is
  emptied and a timing changed in one save, then the list is filled.
- Two requests for one record at once send the same SEQUENCE twice, because the
  row is read before the send and written after it, although
  `notifier.py:290-291` says that every send carries a higher one:
  `SequenceGrows` fails with two `Requests`.
- Page and server do not agree on what a private key is. A certificate that
  stands in a PEM file beside a label only `parsing.py:34-42` knows, such as a
  PGP private key block, is registered by the page (`extract.ts:61`), which says
  of other keys that the file has to be cleaned first; the server refuses the
  same file. The key stays in the browser. `KeyFilesAreRefused` asks each
  for what it sees, and the file `pgp` of `MCUploadForm` is such a file.
- `new.html:17-19` says that the file itself is never sent anywhere. A submit
  while nothing is chosen posts it (`upload.ts:82-85`), and a `.pfx` that waits
  for its password is such a file: `PlainPost`. The server refuses it; no
  property depends on that refusal, because the parser of certificates would
  find none in it.

Bounds, and why they are enough. Two concurrent senders of one message show
every order of two reads, two sends and two writes; `overlap` adds a third run
for what a later run finds. The interesting differences of days are before, on
and after the threshold and the expiry day: two days and a threshold of one day
give them all, and thresholds 1 and 0 give a nearer and a farther one. `schedule` has a day with an hour before
the daily run and one after it, which is what a late run needs to be still of
that day, and `MCSchedule` allows one change, after which the property has
nothing more to say. With one certificate a run has one turn: that a failure
leaves the turns of others alone is proved (`CleanRunsLeaveNothing`), not
run. `MaxTries = 2` separates the first try of a card from the last. Three
requests in turn set a record up, change it and change it back or withdraw it;
two records are a certificate and its successor. One person is enough for the
serial run because everybody on the list gets the same message; those who leave
it are `calendar_left`. The `calendar` run takes the two timings for alike, and
the two files together with the days they state: the modules only compare them,
and that run checks no liveness. Five actions let a file be chosen, another
before the first is read, a password tried, one picked and sent. A limit of two
in a window of two seconds of two ticks has hits at, before and after both ends
of a window. `MaxHour`, `MaxRuns`, `MaxBoots`, `MaxServed`, `MaxRecords`,
`MaxSteps`, `MaxRequests`, `MaxTime`, `MaxRestarts` and `MaxThreshold` are the bounds in guards and ranges;
nothing in the program corresponds to them. `Faults`, `Edits` and `Routes` say
which disturbances an instance has.

Fairness is weak, per run and per request, on its next step. The event loop
resumes a coroutine whose await has ended, and every await ends: Resend and
Teams are called with a 20-second limit (`email.py:162`, `teams.py:231`) and
SMTP with its own (`email.py:243`). In the browser, reading a file and
extracting end as well (`Progress` in `UploadForm`); an answer of the server to
a submit is not assumed. Nothing is assumed of people, of the clock or of when
the process is started.

Every property of a passing run has a mutant in `PROJECT.json`: a variant of
one definition, as a plausible mistake would make it, under which the same run
fails. The variants stand next to the definitions they spoil, marked "variant
with a fault", and nothing else uses them.

## 4. Proofs

Each holds for every value of the constants, from the assumptions stated with
them (`JobsAssumption`, `ScheduleAssumption`, `RecordsAssumption`,
`CalendarAssumption`, `NamesAssumption`, `ExtractionAssumption`, `ParsingAssumption`,
`UploadAssumption`, `AccessAssumption`).

| Theorem | Says | Argument |
|---|---|---|
| `TypeCorrect` | `[]TypeOK` | inductive by itself; a run has a message in hand exactly while it is past `plan` |
| `SentRowsAreTrue` | `[]SentWasReceived` | from `LogInv` |
| `SettledRowsAreFinal` | `SettledStays` | from `LogInv` |
| `JobsImplementDelivery` | `PromiseKept` | each step is a step of `Delivery` or a stutter |
| `SettledIsQuiet` | `QuietForGood` | `Delivery` has it, and the jobs implement `Delivery` |
| `ScheduledRunsSendOnce` | `[]AtMostOnce`, without manual runs, crashes, lost answers and a locked database | from `OnceInv` |
| `ScheduleImplementsJobs` | every behaviour under the scheduler is one of `Jobs` | each step of `Schedule` is a step of `Jobs` or leaves its variables alone |
| `SchedulerSendsOnce` | `[]AtMostOnce` of the scheduled jobs, under the same conditions | from the two before |
| `NoExpiryDayIsMissed` | `ExpiryDayIsTried`, where every day has the configured local hour (`DailyTimeExists`) and it is not the last of the UTC day (`GraceWithinDay`) | from `ServedInv` |
| `CleanRunsLeaveNothing` | `[]CleanRunSettles`, while expiries, reminders and settings stay | from `CleanInv` |
| `RemindersComeNearer` | `NeverFarther`, while the reminder lists stay | from `NearInv` |
| `NoExpiryDayIsSilent` | `ExpiryDayIsHeard`, with email set up, without crashes and a locked database, while no expiry day is moved | from `HeardInv` |
| `OneRecordPerCertificate` | `[]OneRecordPerFile` | from `RecordsInv` |
| `VerifiedRecordsAreRight` | `[]VerifiedExpiry` | from `RecordsInv` |
| `CalendarImplementsRecords` | every behaviour of the calendar that starts without an old record is one of `Records` | each step of `Calendar` is a step of `Records` or leaves the records alone |
| `ReplacementsAreActive` | `ReplacementIsActive`, while nobody renews with the file of an archived record | by cases of the step |
| `CalendarTypeCorrect` | `[]TypeOK` of the calendar: every request, row and message keeps its type and is about a record that exists; the write lock belongs to a request that is sending | from `CallInv` and `RecordsInv` |
| `RowsTellTheTruth` | `[]RowTells`, with one request at a time and no crash | from `RowsInv` |
| `SequenceAlwaysGrows` | `SequenceGrows`, under the same conditions | from `RowsInv` |
| `EventsAreCurrent` | `[]EventIsCurrent`, under the same conditions | from `EventsInv` |
| `NothingElseIsLeft` | `[]NothingLeftBehind`, under the same conditions, while nobody is taken off a record and only active records' events are published | from `LeftInv` |
| `PageTellsTheTruth` | `[]FactsAreChosen` | from `FormInv` |
| `OnlyTheShownIsSent` | `SentWasShown` | from `FormInv` |
| `OnlyLeavesAreRegistered` | `[]RegisteredIsLeaf` | from `OfferInv` |
| `NothingFromKeyFiles` | `KeyFilesAreRefused` | from `OfferInv` |
| `OfferedAreEndEntities` | `selectLeaves` offers end-entity certificates only | by cases of its definition |
| `ServerLeafIsOffered` | what the server picks, the browser would have offered | by cases |
| `SingleChoiceAgrees` | where the browser does not ask, the server picks the same | by cases |
| `NoWindowHoldsMore` | `[]WindowBound` | from `LimiterInv` |
| `WaitingHelps` | `RetryIsAccepted` | from `RetryInv` |
| `EverySignInIsCounted` | `[]SignInsAreCounted` | from `MemoryInv` and `RecorderInv` |

`SentWasReceived` alone is not inductive: a run whose message was taken is about
to write "sent". `LogInv` adds that such a message was received, and
`FoundIsCurrent`, that the row is still what the run read, or has moved on in
one of the ways another run can move it. That is what makes the stale write
after the send harmless.

`OnceInv` says that the two scheduled jobs never have the same message in hand
(the daily run works on thresholds and days, the escalation on hour slots), and
that a message nobody settled, and that is not in an `accepted` send, was not
received yet. It needs the absence of manual runs, crashes, lost answers and
locked commits (`Undisturbed`), each of which separates a send from its row;
`second_run` shows that manual runs break it.

`ServedInv` joins the clock, the triggers and the run. `TriggerInv`: the next
daily run is not later than the next hour its trigger fires at; an hour that is
due is within the grace time, unless the history says otherwise; and for one of
today that is over, whoever expires today was tried. `DailyInv`: while a daily
run of today goes on without failures, whoever expires today is still on its
list, or is the email in hand, or has a row. `RowsAreOwn`: a run's `job_run` row
is its own and has its hour, so that a run that ends with `ok` on it has handled
everybody. The lemmas about `NextTime` and `LastDue` say what their `CHOOSE`
returns; that a least time exists is the well-foundedness of the naturals.
`DailyTimeExists` fails on the clock change described in section 3, and
`GraceWithinDay`, with `DailyAt = 0`, on the late run described there. A day that
is slept over is no exception: `TriggerWasReached` finds the trigger of the day
that ends among the hours the clock showed, however the day ends.

`CleanInv` follows one run through its loop: what it has handled is settled, of
the certificate in hand the email is settled once it goes on to Teams, and the
plan it would make now is the plan it made, which is why edits are excluded
(`Unedited`).

`NearInv` says that where a reminder was sent, every farther one has a row, and
that a run with a reminder in hand has been through `mark_superseded`: on its
channels every farther one has a row. A step only adds rows, so neither an edit
of an expiry day nor a crash disturbs it; an edit of the reminder list does, as
it adds thresholds that nobody marked.

Four theorems are about claims that a run refutes: the run shows one way in
which the code breaks the claim, the theorem excludes it, with whatever else
breaks it, and proves the rest. For `AtMostOnce` that is
`ScheduledRunsSendOnce`, for `NothingLeftBehind` and `ReplacementIsActive`
`NothingElseIsLeft` and `ReplacementsAreActive`. `NoExpiryDayIsSilent` is the
one for `ExpiryDayIsHeard`. `HeardInv` says that the expiry-day email is in hand
only where the record's day is the day of the run, so that no earlier day can
use up its key; that it is never marked as overtaken, because 0 is the nearest
threshold there is; that somebody has heard where it was taken or its row says
"sent"; and that a run without failures has each record of its day on its list,
in hand or settled. Moving the day breaks the first part. A crash or a commit
that finds the database locked (`Uninterrupted`) ends a run before its list
does. The fifth such claim, `FailureShows`, has no theorem: its only
exception, a newer row of the hourly job, is there every hour.

`RecordsInv` is the two properties and the shape of the table. It is proved of
the operations of `Records`, and every step of `Calendar`, with all its
interleavings, failures and crashes, is one of those operations or leaves the
records alone (`CalendarStepIsRecordsStep`).

`CallInv` adds to the calendar's `TypeOK` what a request relies on between its
steps: the calls it has left are about records that exist, which holds because
no operation deletes one (`TableGrows`); a change that waits for a commit is
there only before the second cancellation; and a row read before a send is still
there after it, which is why writing back only the changed columns gives a row
(`MergeIsRow`). `NamesAssumption` says that `NoRow` and `NoEvent` are no row and
no message.

`RowsInv` and `EventsInv` are about requests in turn (`OneAtATime`: one request,
no crash), which is how one person uses the board and what the `calendar` run
has. `RowInv` takes the row of each event as the request sees it (`RowNow`: with
its pending change) and says that it names the highest SEQUENCE anybody holds,
that a row marked sent is what the people it names hold, unless the answer to a
message about it is still to come (`RowsTold`); that the message in hand is
newer than all of them (`SendInv`); and that an accepted one arrived
(`Arrived`). `EventInv` adds that the event of every active record is current
(`Fresh`), or the request has a call, a step or a record of its re-issue left
that will make it so (`Coming`). The conditions are needed: two requests read
the same row and send the same SEQUENCE, and a crash between a send and its
commit leaves a row behind what people hold. The lists may be empty, so for an
active record there is a third case: its last call to publish found nobody to
tell, and it is in `untold` until a later one does.

`LeftInv` is about a claim that `calendar_left` refutes: who is taken off a
record's list keeps its event. It says that whoever has an event is on the list
of its record, so that the next message reaches them; that a message about an
active record stays about one until it is sent; and that the event of an
archived record is in nobody's calendar, or its row says that the provider
refused it, or a call or a step that withdraws it is left. The theorem needs two
conditions on the run: nobody is taken off (`NobodyIsTakenOff`), and every
call to publish is about an active record (`OnlyActiveIsPublished`), which
resending the invites of an archived record, or attaching a file to it, does not meet. So these two are the
only ways in which an event that was delivered stays after its record is gone.

`FormInv` adds to `FactsAreChosen` that what is chosen was shown last, which a
submit relies on long after the page has moved on to a note or to choices.
`OfferInv` says that whatever is offered, chosen or being sent was found in some
file by `ExtractLeaves`, with some password.

`LimiterInv` says that the hits are in order and none is later than now, that
those let go of are older than the window, and that of any `Limit` + 1 in a row
the last came more than a window after the first. `RetryInv` adds that a hint
is later than the moment at which the oldest of the last `Limit` hits leaves
the window.

`MemoryInv` relates the sign-in record to the history beside it: a session's
place in `seen` tells which others came after it, and one that is forgotten has
seen `Capacity` others since. That is what makes the code's answer "new" the
sign-in the documents count. `RecorderInv` adds the types and the sum itself.

Model-checked only: liveness under fairness (`RunsFinish`, `RequestsEnd`,
`ReadingEnds`), which the prover does not do. Every other property of a passing
run is a theorem, under the conditions the table names.

## 5. Not modelled, and why

Byte formats, ciphers and digests: a file is what they hold and which password
opens it. Pages, texts, logging, audit rows and migrations have no behaviour
worth a state machine. Verifying a token, CSRF, headers and the size limit are
pure decisions per request. `/healthz` shows the scheduler's state as well,
which no property is about. A threshold list is a set of days; how the form's
text becomes one, and how numbers are clamped, is left out. In `Jobs` a
certificate's recipients do not change during a run, which the log does not
look at. `Jobs` and `Calendar` share one database, and each has the other only
as a lock that is held by somebody else. `renew` commits twice without an await
in between; a process that stops between the two leaves what an upload of the
same file and a crash leave. `SCHEDULER_ENABLED=false` leaves only what `Jobs`
says of runs by hand.

## 6. Plan

Done: jobs, log, delivery, schedule, records, calendar, extraction, parsing,
upload form, access, and the theorems above.

Next theorems: `EventsAreCurrent` and `NothingElseIsLeft` with two requests
that work on different records.

Next properties: two-request versions of the calendar's properties that hold
under overlap (an event in a calendar has a row unless a commit failed), a
record archived during a re-issue.

Next modules: the settings form, its clamping and its list of days, as
operators checked against reference definitions over small inputs.
