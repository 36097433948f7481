--------------------------------- MODULE Jobs ---------------------------------
(***************************************************************************)
(* The notification jobs: the scheduled daily run, runs started by hand    *)
(* from /api/jobs/run, and the hourly escalation (app/jobs.py), with the   *)
(* once-only log they keep through Notifier._deliver (app/notifier.py).    *)
(*                                                                         *)
(* Every run is a coroutine on one event loop.  Between two awaits nothing *)
(* else runs, so a run that is not waiting for a provider holds the loop   *)
(* and the other runs and the routes wait: LoopFree.  The only await is    *)
(* the send, and everything a run read before it may be stale after it.    *)
(* The process may crash at any point; the database rows survive, the runs *)
(* do not.                                                                 *)
(***************************************************************************)
EXTENDS Reminders, Sequences

CONSTANTS
    Certs,              \* certificate records
    Manual,             \* requests to /api/jobs/run that may be open at once
    Nothing,            \* "no message"
    WithRecipients,     \* the certificates somebody is told about by email
    EmailConfigured,    \* whether an email provider is configured
    MaxThreshold,       \* bound: the largest reminder day
    ThresholdSets,      \* the reminder lists the records may have
    ExpiryDays,         \* the expiry days the records may have
    Intervals,          \* values of expired_teams_every_hours
    Edits,              \* which kinds of change people make while jobs run
    Faults,             \* what may go wrong: see FaultKinds
    MaxHour,            \* bound on the clock
    MaxRuns,            \* bound on the job runs started
    MaxTries            \* teams.MAX_ATTEMPTS: tries of one card in one send

Slots == {"daily", "escalation"} \union Manual
FaultKinds == {"crash",         \* the process stops
               "refused",       \* the provider refuses a message
               "lost",          \* it took the message but its answer is lost
               "raise",         \* a send fails with anything but DeliveryError
               "locked"}        \* somebody else holds the database's write lock
EditKinds == {"watch", "expiry", "reminders", "settings"}
Channels == {"email", "teams"}

Keys == {ThresholdKey(t) : t \in 0 .. MaxThreshold}
        \union {ExpiredKey(DayOf(h)) : h \in 0 .. MaxHour}
        \union {ExpiredHourKey(h, every) : h \in 0 .. MaxHour, every \in Intervals \union {0}}

Messages == [cert : Certs, channel : Channels, key : Keys]

ASSUME JobsAssumption ==
    /\ Manual \intersect {"daily", "escalation"} = {}
    /\ Nothing \notin Messages
    /\ WithRecipients \subseteq Certs
    /\ EmailConfigured \in BOOLEAN
    /\ MaxThreshold \in Nat
    /\ ThresholdSets \subseteq SUBSET (1 .. MaxThreshold)
    /\ ExpiryDays \subseteq Int
    /\ Intervals \subseteq Nat
    /\ Edits \subseteq EditKinds
    /\ Faults \subseteq FaultKinds
    /\ MaxHour \in Nat
    /\ MaxRuns \in Nat
    /\ MaxTries \in Nat \ {0}

VARIABLES
    hour,               \* the clock, in hours
    watched,            \* records that are active and not muted
    notAfter,           \* the expiry day of each record
    thresholds,         \* Certificate.thresholds: its own list or the default
    settings,           \* the AppSettings the jobs read
    log,                \* notification_log: the status of each row, or "none"
    jobRuns,            \* the job_run table
    pc,                 \* where each run is
    run,                \* what each run remembers
    msg,                \* the message a run has in hand
    found,              \* the log row _deliver read before it sent
    tries,              \* tries of the card in hand
    copies              \* how many times people received each message

dataVars == <<watched, notAfter, thresholds, settings>>
vars == <<hour, dataVars, log, jobRuns, pc, run, msg, found, tries, copies>>

Statuses == {"none", "error", "sent", "skipped"}
Settled(m) == log[m] \in {"sent", "skipped"}

NoRun == [id |-> 0, hour |-> 0, every |-> 0, channels |-> {}, due |-> {},
          listed |-> {}, todo |-> {}, failures |-> 0]

InFlight(r) == pc[r] \in {"sending", "accepted"}
LoopFree == \A r \in Slots : pc[r] = "idle" \/ InFlight(r)

Init ==
    /\ hour = 0
    /\ watched \in SUBSET Certs
    /\ notAfter \in [Certs -> ExpiryDays]
    /\ thresholds \in [Certs -> ThresholdSets]
    /\ settings \in [webhook : BOOLEAN, every : Intervals, dailyWhenExpired : BOOLEAN]
    /\ log = [m \in Messages |-> "none"]
    /\ jobRuns = <<>>
    /\ pc = [r \in Slots |-> "idle"]
    /\ run = [r \in Slots |-> NoRun]
    /\ msg = [r \in Slots |-> Nothing]
    /\ found = [r \in Slots |-> "none"]
    /\ tries = [r \in Slots |-> 0]
    /\ copies = [m \in Messages |-> 0]

-----------------------------------------------------------------------------
(* Starting a run: insert the JobRun row (ok is TRUE by default), commit,   *)
(* and read the certificates once.                                         *)

Reference(r) == DayOf(run[r].hour)

StartRun(r, channels, listed) ==
    /\ LoopFree
    /\ pc[r] = "idle"
    /\ Len(jobRuns) < MaxRuns
    /\ jobRuns' = Append(jobRuns, [slot |-> r, started |-> hour, finished |-> FALSE, ok |-> TRUE])
    /\ pc' = [pc EXCEPT ![r] = "plan"]
    /\ run' = [run EXCEPT ![r] =
                [id |-> Len(jobRuns) + 1, hour |-> hour, every |-> settings.every,
                 channels |-> channels, due |-> {}, listed |-> listed,
                 todo |-> listed, failures |-> 0]]
    /\ UNCHANGED <<hour, dataVars, log, msg, found, tries, copies>>

JobChannels == IF settings.webhook THEN {"email", "teams"} ELSE {"email"}

StartDaily == StartRun("daily", JobChannels, watched)

StartManual == \E r \in Manual : StartRun(r, JobChannels, watched)

StartEscalation ==
    StartRun("escalation", {"teams"},
             IF settings.every # 0 /\ settings.webhook
             THEN {c \in watched : notAfter[c] < DayOf(hour)}
             ELSE {})

-----------------------------------------------------------------------------
(* The loop over the certificates.                                         *)

Plan(r, c) ==
    IF r = "escalation"
    THEN {[key |-> ExpiredHourKey(run[r].hour, run[r].every), superseded |-> {}]}
    ELSE PlanFor(notAfter[c] - Reference(r), thresholds[c], Reference(r),
                 settings.dailyWhenExpired)

(* While a certificate is expired, Teams is driven by the escalation. *)
DueChannels(r, c) ==
    IF r # "escalation" /\ notAfter[c] < Reference(r) /\ settings.every # 0
    THEN run[r].channels \ {"teams"}
    ELSE run[r].channels

(* Variant with a fault: overtaken thresholds are not recorded. *)
MarkNothing(c, superseded, channels) == log

(* mark_superseded: a row for every crossed threshold that has none. *)
MarkSuperseded(c, superseded, channels) ==
    [m \in Messages |->
        IF /\ m.cert = c
           /\ m.channel \in channels
           /\ m.key \in {ThresholdKey(t) : t \in superseded}
           /\ log[m] = "none"
        THEN "skipped" ELSE log[m]]

(* Variant with a fault: the certificate stays on the list. *)
PlanCertAgain(r) ==
    \E c \in run[r].todo : \E p \in Plan(r, c) :
        /\ pc[r] = "plan"
        /\ log' = MarkSuperseded(c, p.superseded, run[r].channels)
        /\ run' = [run EXCEPT ![r].due = DueChannels(r, c)]
        /\ msg' = [msg EXCEPT ![r] = [cert |-> c, channel |-> "email", key |-> p.key]]
        /\ pc' = [pc EXCEPT ![r] = "check"]
        /\ UNCHANGED <<hour, dataVars, jobRuns, found, tries, copies>>

PlanCert(r) ==
    \E c \in run[r].todo :
        /\ pc[r] = "plan"
        /\ \/ /\ Plan(r, c) = {}
              /\ run' = [run EXCEPT ![r].todo = @ \ {c}]
              /\ UNCHANGED <<log, pc, msg>>
           \/ \E p \in Plan(r, c) :
              /\ log' = MarkSuperseded(c, p.superseded, run[r].channels)
              /\ run' = [run EXCEPT ![r].todo = @ \ {c}, ![r].due = DueChannels(r, c)]
              /\ msg' = [msg EXCEPT ![r] = [cert |-> c, channel |-> "email", key |-> p.key]]
              /\ pc' = [pc EXCEPT ![r] = "check"]
        /\ UNCHANGED <<hour, dataVars, jobRuns, found, tries, copies>>

(* notify_expiry: email first, then Teams; a channel is tried only if it is *)
(* due and somebody listens on it now.                                     *)
Wanted(r, m) ==
    /\ m.channel \in run[r].due
    /\ m.channel = "email" => EmailConfigured /\ m.cert \in WithRecipients
    /\ m.channel = "teams" => settings.webhook

NextChannel(r) ==
    IF msg[r].channel = "email"
    THEN /\ pc' = [pc EXCEPT ![r] = "check"]
         /\ msg' = [msg EXCEPT ![r].channel = "teams"]
    ELSE /\ pc' = [pc EXCEPT ![r] = "plan"]
         /\ msg' = [msg EXCEPT ![r] = Nothing]

(* Variants with a fault: the failure is not counted; the message is kept. *)
NextCertUncounted(r) ==
    /\ pc' = [pc EXCEPT ![r] = "plan"]
    /\ msg' = [msg EXCEPT ![r] = Nothing]
    /\ UNCHANGED run

NextCertKeepsMessage(r) ==
    /\ pc' = [pc EXCEPT ![r] = "plan"]
    /\ run' = [run EXCEPT ![r].failures = @ + 1]
    /\ UNCHANGED msg

(* An exception leaves notify_expiry: the other channel is not tried. *)
NextCert(r) ==
    /\ pc' = [pc EXCEPT ![r] = "plan"]
    /\ msg' = [msg EXCEPT ![r] = Nothing]
    /\ run' = [run EXCEPT ![r].failures = @ + 1]

SkipChannel(r) ==
    /\ pc[r] = "check"
    /\ ~ Wanted(r, msg[r]) \/ Settled(msg[r])
    /\ NextChannel(r)
    /\ UNCHANGED <<hour, dataVars, log, jobRuns, run, found, tries, copies>>

(* Variant with a fault: the row read before the send is not looked at. *)
BeginSendAgain(r) ==
    /\ pc[r] = "check"
    /\ Wanted(r, msg[r])
    /\ found' = [found EXCEPT ![r] = log[msg[r]]]
    /\ tries' = [tries EXCEPT ![r] = 1]
    /\ pc' = [pc EXCEPT ![r] = "sending"]
    /\ UNCHANGED <<hour, dataVars, log, jobRuns, run, msg, copies>>

BeginSend(r) ==
    /\ pc[r] = "check"
    /\ Wanted(r, msg[r])
    /\ ~ Settled(msg[r])
    /\ found' = [found EXCEPT ![r] = log[msg[r]]]
    /\ tries' = [tries EXCEPT ![r] = 1]
    /\ pc' = [pc EXCEPT ![r] = "sending"]
    /\ UNCHANGED <<hour, dataVars, log, jobRuns, run, msg, copies>>

-----------------------------------------------------------------------------
(* The provider.  These steps happen outside the process.                  *)

Accept(r) ==
    /\ pc[r] = "sending"
    /\ copies' = [copies EXCEPT ![msg[r]] = @ + 1]
    /\ pc' = [pc EXCEPT ![r] = "accepted"]
    /\ UNCHANGED <<hour, dataVars, log, jobRuns, run, msg, found, tries>>

(* The send fails, as DeliveryError or before the provider sees it. *)
Unanswered(r) ==
    \/ pc[r] = "sending" /\ "refused" \in Faults
    \/ pc[r] = "accepted" /\ "lost" \in Faults

(* post_card tries again by itself after a failed or unanswered request. *)
RetryCard(r) ==
    /\ LoopFree
    /\ Unanswered(r)
    /\ msg[r].channel = "teams"
    /\ tries[r] < MaxTries
    /\ tries' = [tries EXCEPT ![r] = @ + 1]
    /\ pc' = [pc EXCEPT ![r] = "sending"]
    /\ UNCHANGED <<hour, dataVars, log, jobRuns, run, msg, found, copies>>

-----------------------------------------------------------------------------
(* The answer comes back: _upsert_log and commit.                          *)

(* The insert hits uq_notification_once: another run recorded the message  *)
(* while this one was sending it.                                          *)
Collides(r) == found[r] = "none" /\ log[msg[r]] # "none"

(* Variant with a fault: the row is written whatever was read from it. *)
UpsertAlways(r, status) == log' = [log EXCEPT ![msg[r]] = status]

(* Columns whose value did not change since they were read are not written, *)
(* so an error after an error leaves a row that became "sent" as it is.     *)
UpsertLog(r, status) ==
    log' = IF found[r] = status THEN log ELSE [log EXCEPT ![msg[r]] = status]

Record(r, status) ==
    /\ found' = [found EXCEPT ![r] = "none"]
    /\ tries' = [tries EXCEPT ![r] = 0]
    /\ \/ /\ Collides(r)
          /\ NextCert(r)
          /\ UNCHANGED log
       \/ /\ ~ Collides(r)
          /\ UpsertLog(r, status)
          /\ NextChannel(r)
          /\ run' = [run EXCEPT ![r].failures = IF status = "error" THEN @ + 1 ELSE @]
    /\ UNCHANGED <<hour, dataVars, jobRuns, copies>>

AnswerOk(r) == LoopFree /\ pc[r] = "accepted" /\ Record(r, "sent")

(* Variant with a fault: an error is recorded as a delivery. *)
AnswerErrorAsSent(r) == LoopFree /\ Unanswered(r) /\ Record(r, "sent")

(* The card's own tries are used up before post_card raises; a refusal it   *)
(* does not retry may come at any try.                                     *)
AnswerError(r) ==
    /\ LoopFree
    /\ Unanswered(r)
    /\ pc[r] = "accepted" /\ msg[r].channel = "teams" => tries[r] = MaxTries
    /\ Record(r, "error")

(* Any other exception, from the send or from the commit after it:         *)
(* run_daily_job rolls back and counts a failure.                          *)
AnswerRaise(r) ==
    /\ LoopFree
    /\ \/ pc[r] = "sending" /\ "raise" \in Faults
       \/ InFlight(r) /\ "locked" \in Faults
    /\ NextCert(r)
    /\ found' = [found EXCEPT ![r] = "none"]
    /\ tries' = [tries EXCEPT ![r] = 0]
    /\ UNCHANGED <<hour, dataVars, log, jobRuns, copies>>

Finish(r) ==
    /\ pc[r] = "plan"
    /\ run[r].todo = {}
    /\ jobRuns' = [jobRuns EXCEPT ![run[r].id] =
                     [@ EXCEPT !.finished = TRUE, !.ok = (run[r].failures = 0)]]
    /\ pc' = [pc EXCEPT ![r] = "idle"]
    /\ run' = [run EXCEPT ![r] = NoRun]
    /\ UNCHANGED <<hour, dataVars, log, msg, found, tries, copies>>

(* A commit outside the loop's try fails: of the overtaken thresholds, or   *)
(* of the row at the end.  The run ends there, and its row stays as it was. *)
Abort(r) ==
    /\ pc[r] = "plan"
    /\ "locked" \in Faults
    /\ \/ run[r].todo = {}
       \/ \E c \in run[r].todo : \E p \in Plan(r, c) :
             MarkSuperseded(c, p.superseded, run[r].channels) # log
    /\ pc' = [pc EXCEPT ![r] = "idle"]
    /\ run' = [run EXCEPT ![r] = NoRun]
    /\ UNCHANGED <<hour, dataVars, log, jobRuns, msg, found, tries, copies>>

-----------------------------------------------------------------------------
(* The world around the jobs.                                              *)

(* Time passes; the machine may be asleep for some of it. *)
Tick ==
    /\ LoopFree
    /\ hour' \in hour + 1 .. MaxHour
    /\ UNCHANGED <<dataVars, log, jobRuns, pc, run, msg, found, tries, copies>>

(* The process stops and starts again: no run survives, every row does. *)
Crash ==
    /\ "crash" \in Faults
    /\ \E r \in Slots : pc[r] # "idle"
    /\ pc' = [r \in Slots |-> "idle"]
    /\ run' = [r \in Slots |-> NoRun]
    /\ msg' = [r \in Slots |-> Nothing]
    /\ found' = [r \in Slots |-> "none"]
    /\ tries' = [r \in Slots |-> 0]
    /\ UNCHANGED <<hour, dataVars, log, jobRuns, copies>>

Edit(kind) ==
    /\ LoopFree
    /\ kind \in Edits
    /\ UNCHANGED <<hour, log, jobRuns, pc, run, msg, found, tries, copies>>

(* Mute, archive, renew; unmute, restore. *)
EditWatched ==
    /\ Edit("watch")
    /\ \E c \in Certs : watched' \in {watched \union {c}, watched \ {c}}
    /\ UNCHANGED <<notAfter, thresholds, settings>>

(* attach_facts with a confirmed replacement. *)
EditExpiry ==
    /\ Edit("expiry")
    /\ \E c \in Certs, d \in ExpiryDays : notAfter' = [notAfter EXCEPT ![c] = d]
    /\ UNCHANGED <<watched, thresholds, settings>>

(* A record's own reminder days. *)
EditReminders ==
    /\ Edit("reminders")
    /\ \E c \in Certs, T \in ThresholdSets : thresholds' = [thresholds EXCEPT ![c] = T]
    /\ UNCHANGED <<watched, notAfter, settings>>

EditSettings ==
    /\ Edit("settings")
    /\ settings' \in [webhook : BOOLEAN, every : Intervals, dailyWhenExpired : BOOLEAN]
    /\ UNCHANGED <<watched, notAfter, thresholds>>

-----------------------------------------------------------------------------
Step(r) ==
    \/ PlanCert(r) \/ SkipChannel(r) \/ BeginSend(r)
    \/ Accept(r) \/ RetryCard(r)
    \/ AnswerOk(r) \/ AnswerError(r) \/ AnswerRaise(r)
    \/ Finish(r) \/ Abort(r)

Next ==
    \/ StartDaily \/ StartManual \/ StartEscalation
    \/ \E r \in Slots : Step(r)
    \/ Tick \/ Crash
    \/ EditWatched \/ EditExpiry \/ EditReminders \/ EditSettings

Spec == Init /\ [][Next]_vars

(* A run that holds the loop goes on, and every send is answered in the    *)
(* end: both providers are called with a time limit.                       *)
Fairness == \A r \in Slots : WF_vars(Step(r))

FairSpec == Spec /\ Fairness
=============================================================================
