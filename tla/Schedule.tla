------------------------------- MODULE Schedule -------------------------------
(***************************************************************************)
(* When the jobs run: NotificationScheduler (app/jobs.py) over APScheduler, *)
(* which keeps its triggers in memory, in the process that the lifespan of *)
(* app/main.py starts and stops.                                           *)
(*                                                                         *)
(* The clock of Jobs is UTC, which the days of a certificate are counted   *)
(* in; the daily trigger is at an hour of the configured time zone.  Time  *)
(* passes only when no trigger is due: the scheduler's timer is exact      *)
(* unless the machine sleeps.  Runs started by hand are left to Jobs.      *)
(***************************************************************************)
EXTENDS JobsProperties

CONSTANTS
    DailyAt,            \* DAILY_RUN_TIME, an hour of the local day
    OffsetAt,           \* how far local time is ahead, at each hour of the clock
    MaxBoots            \* bound on the starts of the process

ASSUME ScheduleAssumption ==
    /\ DailyAt \in 0 .. HoursPerDay - 1
    /\ OffsetAt \in [0 .. MaxHour -> Nat]
    /\ MaxBoots \in Nat

VARIABLES
    up,                 \* whether the process runs
    nextRun,            \* next_run_time of each job
    boots,              \* bound
    calm                \* history: since this hour nothing kept a run from its
                        \* hour, and nobody changed what it works on

scheduleVars == <<up, nextRun, boots, calm>>
allVars == <<vars, scheduleVars>>

ScheduledJobs == {"daily", "escalation"}
Never == MaxHour + 1

(* The two CronTriggers: once a day, and every hour on the hour. *)
Fires(j, h) == j = "daily" => (h + OffsetAt[h]) % HoursPerDay = DailyAt

(* get_next_fire_time *)
NextTime(j, from) ==
    CHOOSE t \in from .. Never :
        /\ t = Never \/ Fires(j, t)
        /\ \A h \in from .. t - 1 : ~ Fires(j, h)

(* coalesce=True: of the times that are due only the last one counts. *)
LastDue(j) ==
    CHOOSE t \in nextRun[j] .. hour :
        Fires(j, t) /\ \A h \in t + 1 .. hour : ~ Fires(j, h)

(* misfire_grace_time, in hours *)
Grace == [daily |-> 1, escalation |-> 0]

(* Variant with a fault: a late run is a missed run. *)
MissedWhenLate(j) == LastDue(j) < hour

Missed(j) == hour - LastDue(j) > Grace[j]

ScheduleInit ==
    /\ Init
    /\ up = FALSE
    /\ nextRun = [j \in ScheduledJobs |-> Never]
    /\ boots = 0
    /\ calm = 0

-----------------------------------------------------------------------------
(* start.  Whatever was missed while the process was down is forgotten: the *)
(* job store is new.  The trigger of this very hour may be over or not.    *)
Boot ==
    /\ ~ up
    /\ boots < MaxBoots
    /\ boots' = boots + 1
    /\ up' = TRUE
    /\ calm' \in {hour, hour + 1}
    /\ nextRun' = [j \in ScheduledJobs |-> NextTime(j, calm')]
    /\ UNCHANGED vars

(* shutdown(wait=False): a run that is going on is lost. *)
Stop ==
    /\ up
    /\ up' = FALSE
    /\ nextRun' = [j \in ScheduledJobs |-> Never]
    /\ UNCHANGED <<boots, calm>>
    /\ IF \A r \in Slots : pc[r] = "idle" THEN UNCHANGED vars ELSE Crash

(* max_instances=1: while the job is still running its trigger is skipped. *)
Fire(j) ==
    /\ up
    /\ LoopFree
    /\ nextRun[j] <= hour
    /\ nextRun' = [nextRun EXCEPT ![j] = NextTime(j, hour + 1)]
    /\ calm' = IF pc[j] = "idle" THEN calm ELSE hour + 1
    /\ IF pc[j] # "idle" \/ Missed(j) THEN UNCHANGED vars
       ELSE \/ j = "daily" /\ StartDaily
            \/ j = "escalation" /\ StartEscalation
    /\ UNCHANGED <<up, boots>>

Quiet == up => \A j \in ScheduledJobs : nextRun[j] > hour

PassHour ==
    /\ Quiet
    /\ hour' = hour + 1
    /\ Tick
    /\ UNCHANGED scheduleVars

(* The machine sleeps for more than an hour; its timers do not run. *)
Sleep ==
    /\ Quiet
    /\ Tick
    /\ hour' > hour + 1
    /\ calm' = IF hour' - hour - 1 > Grace["daily"] THEN hour' ELSE calm
    /\ UNCHANGED <<up, nextRun, boots>>

Change ==
    /\ up
    /\ EditWatched \/ EditExpiry \/ EditReminders \/ EditSettings
    /\ calm' = hour + 1
    /\ UNCHANGED <<up, nextRun, boots>>

RunStep(r) == up /\ Step(r) /\ UNCHANGED scheduleVars

ScheduleNext ==
    \/ Boot \/ Stop
    \/ \E j \in ScheduledJobs : Fire(j)
    \/ \E r \in Slots : RunStep(r)
    \/ Change \/ PassHour \/ Sleep

ScheduleSpec == ScheduleInit /\ [][ScheduleNext]_allVars

-----------------------------------------------------------------------------
(* README.md, "Notifications": the expiry day itself is always notified.    *)
(* When the expiry day of a certificate ends, and all through it the        *)
(* process was up and nobody changed a thing, its email was tried, or a     *)
(* daily run of that day shows that it was not.  A machine that slept past  *)
(* the hour of the run catches up within the grace time; it may also have   *)
(* slept past the end of the day.                                          *)
ExpiryDayIsTried ==
    [][\A c \in WithRecipients :
        /\ EmailConfigured /\ c \in watched /\ notAfter[c] = DayOf(hour)
        /\ DayOf(hour') # DayOf(hour)
        /\ up /\ calm' <= DayOf(hour) * HoursPerDay
        /\ pc["daily"] = "idle"
        => \/ log[[cert |-> c, channel |-> "email", key |-> ThresholdKey(0)]] # "none"
           \/ \E i \in DOMAIN jobRuns :
                 /\ jobRuns[i].slot = "daily" /\ DayOf(jobRuns[i].started) = DayOf(hour)
                 /\ ~ (jobRuns[i].finished /\ jobRuns[i].ok)]_allVars
=============================================================================
