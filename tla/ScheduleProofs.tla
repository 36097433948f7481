---------------------------- MODULE ScheduleProofs ----------------------------
(***************************************************************************)
(* The scheduler adds nothing to what the jobs may do: whatever it starts, *)
(* misses, skips or loses is a behaviour of Jobs, so that the theorems     *)
(* about Jobs hold of the jobs as they are scheduled.  And it does what it *)
(* is there for: the expiry day of a certificate does not end untried.     *)
(***************************************************************************)
EXTENDS Schedule, JobsRunProofs, WellFoundedInduction

(* A trigger that fires starts its job, or is missed or skipped.           *)
LEMMA FireIsAStep ==
    ASSUME NEW j \in ScheduledJobs, Fire(j)
    PROVE  Next \/ UNCHANGED vars
<1>1. CASE pc[j] # "idle" \/ Missed(j)
    BY <1>1 DEF Fire
<1>2. CASE ~ (pc[j] # "idle" \/ Missed(j))
    <2>1. StartDaily \/ StartEscalation
        BY <1>2 DEF Fire
    <2> QED BY <2>1 DEF Next
<1> QED BY <1>1, <1>2

LEMMA StopIsAStep == Stop => Next \/ UNCHANGED vars
    BY DEF Stop, Next

LEMMA ScheduleSteps == [ScheduleNext]_allVars => [Next]_vars
<1> SUFFICES ASSUME [ScheduleNext]_allVars PROVE Next \/ UNCHANGED vars
    OBVIOUS
<1>1. CASE Boot
    BY <1>1 DEF Boot
<1>2. CASE Stop
    BY <1>2, StopIsAStep
<1>3. CASE \E j \in ScheduledJobs : Fire(j)
    BY <1>3, FireIsAStep
<1>4. CASE \E r \in Slots : RunStep(r)
    BY <1>4 DEF RunStep, Next
<1>5. CASE Change
    BY <1>5 DEF Change, Next
<1>6. CASE PassHour \/ Sleep
    BY <1>6 DEF PassHour, Sleep, Next
<1>7. CASE UNCHANGED allVars
    BY <1>7 DEF allVars
<1> QED BY <1>1, <1>2, <1>3, <1>4, <1>5, <1>6, <1>7 DEF ScheduleNext

(* The scheduled jobs (app/jobs.py, NotificationScheduler) are jobs: every *)
(* behaviour under the scheduler is one of Jobs.                           *)
THEOREM ScheduleImplementsJobs == ScheduleSpec => Spec
<1>1. ScheduleInit => Init
    BY DEF ScheduleInit
<1> QED BY <1>1, ScheduleSteps, PTL DEF ScheduleSpec, Spec

(* README.md, "exactly once, ever", for the jobs the scheduler starts: over *)
(* any number of days, restarts between runs and sleeps of the machine     *)
(* included, nobody receives a message twice.                              *)
THEOREM SchedulerSendsOnce == Undisturbed => (ScheduleSpec => []AtMostOnce)
BY ScheduleImplementsJobs, ScheduledRunsSendOnce

(* What the log says is true under the scheduler, whatever fails.          *)
THEOREM SchedulerLogIsTrue == ScheduleSpec => []SentWasReceived
BY ScheduleImplementsJobs, SentRowsAreTrue

-----------------------------------------------------------------------------
(* Days, and the times of a trigger.                                       *)
LEMMA LeastElement ==
    ASSUME NEW T, T \subseteq Nat, T # {}
    PROVE  \E x \in T : \A y \in T : x <= y
<1> DEFINE Less == OpToRel(<, Nat)
<1>1. \A x, y \in Nat : y < x => <<y, x>> \in Less
  BY DEF OpToRel
<1>2. IsWellFoundedOn(Less, Nat)
  BY NatLessThanWellFounded
<1> HIDE DEF Less
<1>3. PICK x \in T : \A y \in T : ~ (<<y, x>> \in Less)
  BY <1>2, WFMin
<1>4. ASSUME NEW y \in T
      PROVE  x <= y
  <2>1. x \in Nat /\ y \in Nat /\ ~ (<<y, x>> \in Less)
    BY <1>3
  <2> QED BY <1>1, <2>1
<1> QED BY <1>4

(* get_next_fire_time: the next time of a trigger is not past, and the     *)
(* trigger does not fire before it.                                        *)
LEMMA NextTimeIsNext ==
    ASSUME NEW j, NEW from \in Nat, from <= Never
    PROVE  /\ NextTime(j, from) \in Nat
           /\ from <= NextTime(j, from)
           /\ \A h \in Nat : from <= h /\ h < NextTime(j, from) => ~ Fires(j, h)
<1> DEFINE T == {t \in from .. Never : t = Never \/ Fires(j, t)}
           Good(t) == /\ t = Never \/ Fires(j, t)
                      /\ \A h \in from .. t - 1 : ~ Fires(j, h)
<1>1. Never \in Nat /\ from .. Never \subseteq Nat
  BY JobsAssumption DEF Never
<1>2. Never \in T
  BY <1>1
<1>3. PICK t \in T : \A s \in T : t <= s
  <2>1. T \subseteq Nat /\ T # {}
    BY <1>1, <1>2
  <2> HIDE DEF T
  <2> QED BY <2>1, LeastElement
<1>4. t \in from .. Never /\ Good(t)
  <2>1. ASSUME NEW h \in from .. t - 1, Fires(j, h)
        PROVE  FALSE
    <3>1. h \in T
      BY <1>1, <2>1
    <3> QED BY <1>1, <1>3, <2>1, <3>1
  <2> QED BY <2>1
<1>5. NextTime(j, from) = CHOOSE s \in from .. Never : Good(s)
  BY DEF NextTime
<1>6. NextTime(j, from) \in from .. Never /\ Good(NextTime(j, from))
  <2> HIDE DEF Good
  <2> QED BY <1>4, <1>5
<1> QED BY <1>1, <1>6

(* coalesce: a time that is due is not later than the one that counts.     *)
LEMMA LastDueIsLast ==
    ASSUME hour \in Nat, NEW j, nextRun[j] \in Nat, NEW h \in Nat,
           nextRun[j] <= h, h <= hour, hour - h <= 1, Fires(j, h)
    PROVE  LastDue(j) \in Nat /\ h <= LastDue(j)
<1> DEFINE Good(t) == Fires(j, t) /\ \A i \in t + 1 .. hour : ~ Fires(j, i)
<1>1. \E t \in nextRun[j] .. hour : Good(t)
  <2>1. CASE Fires(j, hour)
    BY <2>1
  <2>2. CASE ~ Fires(j, hour)
    <3>1. h + 1 .. hour = {hour}
      BY <2>2
    <3> QED BY <2>2, <3>1
  <2> QED BY <2>1, <2>2
<1>2. LastDue(j) = CHOOSE t \in nextRun[j] .. hour : Good(t)
  BY DEF LastDue
<1>3. LastDue(j) \in nextRun[j] .. hour /\ Good(LastDue(j))
  <2> HIDE DEF Good
  <2> QED BY <1>1, <1>2
<1> QED BY <1>3

-----------------------------------------------------------------------------
(* The daily run and the expiry day.                                       *)
(* What shows that the day did not pass untried; and whom it is about.     *)
Tried(c) ==
    \/ log[TrialOf(c)] # "none"
    \/ \E i \in DOMAIN jobRuns :
          /\ jobRuns[i].slot = "daily" /\ DayOf(jobRuns[i].started) = DayOf(hour)
          /\ ~ (jobRuns[i].finished /\ jobRuns[i].ok)

Expiring(c) == EmailConfigured /\ c \in WithRecipients /\ c \in watched /\ notAfter[c] = DayOf(hour)

(* Nothing was changed, skipped or down since the day began.               *)
CalmDay == calm <= DayOf(hour) * HoursPerDay

(* A run's row is its own, and tells the hour the run started in.          *)
RowsAreOwn ==
    \A r \in Slots : pc[r] # "idle" =>
        /\ jobRuns[run[r].id].slot = r /\ jobRuns[run[r].id].started = run[r].hour
        /\ run[r].hour <= hour

(* The daily run has the certificate before it, or its email in hand, or    *)
(* has left a row.                                                         *)
OnItsWay(c) ==
    \/ c \in run["daily"].todo
    \/ msg["daily"] = TrialOf(c) /\ "email" \in run["daily"].due
    \/ log[TrialOf(c)] # "none"

(* The daily run is today's, and nothing of it has failed.                 *)
Dutiful == DayOf(run["daily"].hour) = DayOf(hour) /\ run["daily"].failures = 0

(* A step of the daily run that does not end it.                           *)
LEMMA DailyStep ==
    ASSUME TypeOK, FoundIsCurrent, Step("daily"), pc'["daily"] # "idle",
           "email" \in run["daily"].channels
    PROVE  /\ pc["daily"] # "idle" /\ UNCHANGED <<hour, dataVars, jobRuns>>
           /\ run'["daily"].hour = run["daily"].hour /\ run'["daily"].id = run["daily"].id
           /\ run'["daily"].channels = run["daily"].channels
           /\ run'["daily"].failures = 0 => run["daily"].failures = 0
           /\ \A c \in Certs : Expiring(c) /\ Dutiful' /\ OnItsWay(c) => OnItsWay(c)'
<1> PICK r \in Slots : r = "daily"
  BY DEF Slots
<1>0. Step(r) /\ pc'[r] # "idle" /\ "email" \in run[r].channels /\ run[r] \in RunRecords /\ [Next]_vars
  BY DEF TypeOK, Next
<1>1. \A c \in Certs : log[TrialOf(c)] # "none" => log'[TrialOf(c)] # "none"
  BY <1>0, TrialIsMessage, RowStep
<1>2. ASSUME PlanCert(r)
      PROVE  /\ pc[r] # "idle" /\ UNCHANGED <<hour, dataVars, jobRuns>>
             /\ run'[r].hour = run[r].hour /\ run'[r].id = run[r].id
             /\ run'[r].channels = run[r].channels /\ run'[r].failures = run[r].failures
             /\ \A c \in Certs : Expiring(c) /\ Dutiful' /\ OnItsWay(c) => OnItsWay(c)'
  <2>1. PICK d \in run[r].todo :
          \/ /\ Plan(r, d) = {}
             /\ run' = [run EXCEPT ![r].todo = @ \ {d}]
          \/ \E p \in Plan(r, d) :
             /\ run' = [run EXCEPT ![r].todo = @ \ {d}, ![r].due = DueChannels(r, d)]
             /\ msg' = [msg EXCEPT ![r] = [cert |-> d, channel |-> "email", key |-> p.key]]
    BY <1>2, PlanChooses
  <2>2. /\ run'[r].hour = run[r].hour /\ run'[r].id = run[r].id
        /\ run'[r].channels = run[r].channels /\ run'[r].failures = run[r].failures
        /\ run'[r].todo = run[r].todo \ {d}
    BY <1>0, <2>1 DEF TypeOK, RunRecords
  <2>3. pc[r] # "idle" /\ UNCHANGED <<hour, dataVars, jobRuns>>
    BY <1>2 DEF PlanCert
  <2>4. ASSUME NEW c \in Certs, Expiring(c), Dutiful', OnItsWay(c)
        PROVE  OnItsWay(c)'
    <3>1. CASE log[TrialOf(c)] # "none"
      BY <1>1, <3>1 DEF OnItsWay
    <3>2. CASE c \in run[r].todo /\ c # d
      BY <2>2, <3>2 DEF OnItsWay
    <3>3. CASE c = d
      <4>1. notAfter[c] = Reference(r) /\ r \in Slots \ {"escalation"}
        BY <2>2, <2>3, <2>4 DEF Expiring, Dutiful, Reference
      <4>2. PICK p \in Plan(r, c) :
              /\ run' = [run EXCEPT ![r].todo = @ \ {d}, ![r].due = DueChannels(r, d)]
              /\ msg' = [msg EXCEPT ![r] = [cert |-> d, channel |-> "email", key |-> p.key]]
        BY <2>1, <3>3, <4>1, ExpiryPlan
      <4>3. p.key = ThresholdKey(0)
        BY <4>1, <4>2, ExpiryPlan
      <4>4. "email" \in DueChannels(r, d)
        BY <1>0 DEF DueChannels
      <4>5. msg'[r] = TrialOf(c) /\ run'[r].due = DueChannels(r, d)
        BY <1>0, <3>3, <4>2, <4>3 DEF TypeOK, RunRecords, TrialOf
      <4> QED BY <4>4, <4>5 DEF OnItsWay
    <3>4. CASE msg[r] = TrialOf(c)
      BY <1>2, <3>4, TrialIsMessage, JobsAssumption DEF PlanCert, TypeOK
    <3> QED BY <2>4, <3>1, <3>2, <3>3, <3>4 DEF OnItsWay
  <2> QED BY <2>2, <2>3, <2>4
<1>3. ASSUME SkipChannel(r)
      PROVE  /\ pc[r] # "idle" /\ UNCHANGED <<hour, dataVars, jobRuns, run>>
             /\ \A c \in Certs : Expiring(c) /\ Dutiful' /\ OnItsWay(c) => OnItsWay(c)'
  <2>1. pc[r] # "idle" /\ UNCHANGED <<hour, dataVars, jobRuns, run, log>>
    BY <1>3 DEF SkipChannel
  <2>2. ASSUME NEW c \in Certs, Expiring(c), msg[r] = TrialOf(c), "email" \in run[r].due
        PROVE  log[TrialOf(c)] # "none"
    BY <1>3, <2>2 DEF SkipChannel, Wanted, Settled, Expiring, TrialOf
  <2> QED BY <2>1, <2>2 DEF OnItsWay
<1>4. ASSUME BeginSend(r) \/ Accept(r) \/ RetryCard(r)
      PROVE  /\ pc[r] # "idle" /\ UNCHANGED <<hour, dataVars, jobRuns, run>>
             /\ \A c \in Certs : Expiring(c) /\ Dutiful' /\ OnItsWay(c) => OnItsWay(c)'
  <2>1. pc[r] # "idle" /\ UNCHANGED <<hour, dataVars, jobRuns, run, log, msg>>
    BY <1>4 DEF BeginSend, Accept, RetryCard, Unanswered
  <2> QED BY <2>1 DEF OnItsWay
<1>5. ASSUME AnswerOk(r) \/ AnswerError(r)
      PROVE  /\ pc[r] # "idle" /\ UNCHANGED <<hour, dataVars, jobRuns>>
             /\ run'[r].hour = run[r].hour /\ run'[r].id = run[r].id
             /\ run'[r].channels = run[r].channels /\ (run'[r].failures = 0 => run[r].failures = 0)
             /\ \A c \in Certs : Expiring(c) /\ Dutiful' /\ OnItsWay(c) => OnItsWay(c)'
  <2>1. InFlight(r) /\ \E status \in {"sent", "error"} : Record(r, status)
    BY <1>5 DEF AnswerOk, AnswerError, Unanswered, InFlight
  <2>2. PICK status \in {"sent", "error"} : Record(r, status)
    BY <2>1
  <2>3. \E n \in {run[r].failures, run[r].failures + 1} : run' = [run EXCEPT ![r].failures = n]
    BY <2>2 DEF Record, NextCert
  <2>4. /\ run'[r].hour = run[r].hour /\ run'[r].id = run[r].id
        /\ run'[r].channels = run[r].channels /\ (run'[r].failures = 0 => run[r].failures = 0)
        /\ run'[r].todo = run[r].todo
    BY <1>0, <2>3 DEF TypeOK, RunRecords
  <2>5. pc[r] # "idle" /\ UNCHANGED <<hour, dataVars, jobRuns>>
    BY <2>1, <2>2 DEF Record, InFlight
  <2>6. log'[msg[r]] # "none"
    BY <2>1, <2>2, RecordLog DEF Collides
  <2> QED BY <1>1, <2>4, <2>5, <2>6 DEF OnItsWay
<1>6. ASSUME AnswerRaise(r)
      PROVE  /\ pc[r] # "idle" /\ UNCHANGED <<hour, dataVars, jobRuns>>
             /\ run'[r].hour = run[r].hour /\ run'[r].id = run[r].id
             /\ run'[r].channels = run[r].channels /\ run'[r].failures # 0
  BY <1>0, <1>6 DEF AnswerRaise, NextCert, InFlight, TypeOK, RunRecords
<1>7. ~ Finish(r) /\ ~ Abort(r)
  BY <1>0 DEF Finish, Abort, TypeOK
<1> QED BY <1>0, <1>2, <1>3, <1>4, <1>5, <1>6, <1>7 DEF Step, Dutiful

(* The rows of job_run stay, and only the end of a run changes its own.    *)
LEMMA RowsAreKept ==
    ASSUME TypeOK, [Next]_vars, NEW i \in DOMAIN jobRuns
    PROVE  /\ i \in DOMAIN jobRuns'
           /\ jobRuns'[i].slot = jobRuns[i].slot /\ jobRuns'[i].started = jobRuns[i].started
           /\ jobRuns'[i] = jobRuns[i] \/ \E r \in Slots : Finish(r) /\ run[r].id = i
<1> DEFINE Entry == [slot : Slots, started : 0 .. MaxHour, finished : BOOLEAN, ok : BOOLEAN]
<1>0. jobRuns \in Seq(Entry) /\ DOMAIN jobRuns = 1 .. Len(jobRuns) /\ hour \in 0 .. MaxHour
  BY LenProperties DEF TypeOK
<1>1. ASSUME NEW row \in Entry, jobRuns' = Append(jobRuns, row)
      PROVE  i \in DOMAIN jobRuns' /\ jobRuns'[i] = jobRuns[i]
  <2> HIDE DEF Entry
  <2>1. DOMAIN jobRuns' = 1 .. Len(jobRuns) + 1 /\ \A k \in 1 .. Len(jobRuns) : jobRuns'[k] = jobRuns[k]
    BY <1>0, <1>1, AppendProperties, LenProperties
  <2>2. Len(jobRuns) \in Nat
    BY <1>0, LenProperties
  <2> QED BY <1>0, <2>1, <2>2
<1>2. ASSUME NEW r \in Slots, Finish(r)
      PROVE  /\ i \in DOMAIN jobRuns'
             /\ jobRuns'[i].slot = jobRuns[i].slot /\ jobRuns'[i].started = jobRuns[i].started
             /\ jobRuns'[i] = jobRuns[i] \/ run[r].id = i
  <2> DEFINE k == run[r].id
             row == [jobRuns[k] EXCEPT !.finished = TRUE, !.ok = (run[r].failures = 0)]
  <2>1. k \in DOMAIN jobRuns /\ jobRuns' = [jobRuns EXCEPT ![k] = row]
    BY <1>2 DEF Finish, TypeOK
  <2>2. row.slot = jobRuns[k].slot /\ row.started = jobRuns[k].started
    <3> HIDE DEF Entry, k
    <3>1. jobRuns[k] \in Entry
      BY <1>0, <2>1, ElementOfSeq
    <3> QED BY <3>1 DEF Entry
  <2> HIDE DEF row, k
  <2>3. CASE i = k
    BY <2>1, <2>2, <2>3 DEF k
  <2>4. CASE i # k
    BY <2>1, <2>4
  <2> QED BY <2>3, <2>4
<1>3. ASSUME NEW r \in Slots, Step(r), ~ Finish(r)
      PROVE  jobRuns' = jobRuns
  BY <1>3 DEF Step, PlanCert, SkipChannel, BeginSend, Accept, RetryCard, AnswerOk, AnswerError,
              AnswerRaise, Record, Abort
<1>4. \/ jobRuns' = jobRuns
      \/ \E r \in Slots : Step(r)
      \/ \E r \in Slots : jobRuns' = Append(jobRuns, [slot |-> r, started |-> hour, finished |-> FALSE, ok |-> TRUE])
  BY DEF Slots, Next, vars, StartDaily, StartManual, StartEscalation, StartRun, Tick, Crash, Edit,
         EditWatched, EditExpiry, EditReminders, EditSettings
<1>5. ASSUME NEW r \in Slots,
             jobRuns' = Append(jobRuns, [slot |-> r, started |-> hour, finished |-> FALSE, ok |-> TRUE])
      PROVE  i \in DOMAIN jobRuns' /\ jobRuns'[i] = jobRuns[i]
  BY <1>0, <1>1, <1>5
<1> QED BY <1>2, <1>3, <1>4, <1>5

-----------------------------------------------------------------------------
(* The scheduler: what it relies on from one trigger to the next.          *)
(* While the daily run goes on, whoever expires today is on its way.       *)
DailyInv ==
    pc["daily"] # "idle" =>
        /\ up
        /\ "email" \in run["daily"].channels
        /\ CalmDay /\ Dutiful => \A c \in Certs : Expiring(c) => OnItsWay(c)

(* The next daily run is never later than the next time of its trigger; a  *)
(* time that is due, and that the process was up for, is within the grace; *)
(* and a time of today that is over was used.                              *)
TriggerInv ==
    up => \A h \in 0 .. MaxHour : Fires("daily", h) =>
        /\ h <= hour \/ nextRun["daily"] <= h
        /\ nextRun["daily"] <= h /\ h <= hour /\ calm <= h => hour - h <= 1
        /\ h < nextRun["daily"] /\ DayOf(h) = DayOf(hour) /\ CalmDay =>
              \A c \in Certs : Expiring(c) => Tried(c)

(* The scheduler's times are times.                                        *)
ClockInv == nextRun \in [ScheduledJobs -> Nat] /\ calm \in Nat

ServedInv == ClockInv /\ RowsAreOwn /\ DailyInv /\ TriggerInv

(* Starting a run: its row is a new one.                                   *)
LEMMA StartedRun ==
    ASSUME TypeOK, NEW r \in Slots, NEW channels, NEW listed, StartRun(r, channels, listed)
    PROVE  /\ run'[r].hour = hour /\ run'[r].id \in DOMAIN jobRuns'
           /\ run'[r].channels = channels /\ run'[r].todo = listed
           /\ jobRuns'[run'[r].id] = [slot |-> r, started |-> hour, finished |-> FALSE, ok |-> TRUE]
           /\ pc'[r] # "idle" /\ UNCHANGED <<hour, watched, notAfter, log>>
           /\ \A s \in Slots \ {r} : pc'[s] = pc[s] /\ run'[s] = run[s] /\ msg'[s] = msg[s]
<1> DEFINE Entry == [slot : Slots, started : 0 .. MaxHour, finished : BOOLEAN, ok : BOOLEAN]
           row == [slot |-> r, started |-> hour, finished |-> FALSE, ok |-> TRUE]
<1>1. jobRuns \in Seq(Entry) /\ row \in Entry
  BY DEF TypeOK
<1>2. jobRuns' = Append(jobRuns, row)
  BY DEF StartRun
<1>3. Len(jobRuns) + 1 \in DOMAIN jobRuns' /\ jobRuns'[Len(jobRuns) + 1] = row
  <2> HIDE DEF Entry, row
  <2> QED BY <1>1, <1>2, AppendProperties, LenProperties
<1>4. run'[r].id = Len(jobRuns) + 1 /\ run'[r].hour = hour /\ run'[r].channels = channels
      /\ run'[r].todo = listed
  BY DEF StartRun, TypeOK
<1>5. /\ pc'[r] # "idle" /\ UNCHANGED <<hour, watched, notAfter, log>>
      /\ \A s \in Slots \ {r} : pc'[s] = pc[s] /\ run'[s] = run[s] /\ msg'[s] = msg[s]
  BY DEF StartRun, TypeOK, dataVars
<1> QED BY <1>3, <1>4, <1>5

LEMMA RowsStayOwn == TypeOK /\ FoundIsCurrent /\ RowsAreOwn /\ [Next]_vars => RowsAreOwn'
<1> SUFFICES ASSUME TypeOK, FoundIsCurrent, RowsAreOwn, [Next]_vars, NEW s \in Slots, pc'[s] # "idle"
             PROVE  /\ jobRuns'[run'[s].id].slot = s /\ jobRuns'[run'[s].id].started = run'[s].hour
                    /\ run'[s].hour <= hour'
  BY DEF RowsAreOwn
<1>1. hour \in Nat /\ hour' \in Nat /\ hour' >= hour
  BY HourMovesOn
<1>2. ASSUME pc[s] # "idle", run'[s].id = run[s].id, run'[s].hour = run[s].hour
      PROVE  /\ jobRuns'[run'[s].id].slot = s /\ jobRuns'[run'[s].id].started = run'[s].hour
             /\ run'[s].hour <= hour'
  <2>1. run[s].id \in DOMAIN jobRuns /\ run[s].hour \in Nat
    BY <1>2 DEF TypeOK, RunRecords
  <2>2. /\ run[s].hour <= hour
        /\ jobRuns[run[s].id].slot = s /\ jobRuns[run[s].id].started = run[s].hour
    BY <1>2 DEF RowsAreOwn
  <2>3. /\ jobRuns'[run[s].id].slot = jobRuns[run[s].id].slot
        /\ jobRuns'[run[s].id].started = jobRuns[run[s].id].started
    BY <2>1, RowsAreKept
  <2>4. run'[s].hour <= hour'
    BY <1>1, <1>2, <2>1, <2>2
  <2> QED BY <1>2, <2>2, <2>3, <2>4
<1>3. ASSUME NEW r \in Slots, NEW channels, NEW listed, StartRun(r, channels, listed)
      PROVE  /\ jobRuns'[run'[s].id].slot = s /\ jobRuns'[run'[s].id].started = run'[s].hour
             /\ run'[s].hour <= hour'
  <2>1. CASE s = r
    <3> PICK row : row = [slot |-> s, started |-> hour, finished |-> FALSE, ok |-> TRUE]
      OBVIOUS
    <3>1. run'[s].hour = hour /\ jobRuns'[run'[s].id] = row /\ hour' = hour
      BY <1>3, <2>1, StartedRun
    <3>2. row.slot = s /\ row.started = hour
      OBVIOUS
    <3> QED BY <1>1, <3>1, <3>2
  <2>2. CASE s # r
    <3>1. \A o \in Slots \ {r} : pc'[o] = pc[o] /\ run'[o] = run[o]
      BY <1>3, StartedRun
    <3>2. pc'[s] = pc[s] /\ run'[s] = run[s]
      BY <2>2, <3>1
    <3> QED BY <1>2, <3>2
  <2> QED BY <2>1, <2>2
<1>4. CASE StartDaily \/ StartManual \/ StartEscalation
  BY <1>3, <1>4 DEF StartDaily, StartManual, StartEscalation, Slots
<1>5. ASSUME NEW r \in Slots, Step(r)
      PROVE  pc[s] # "idle" /\ run'[s].id = run[s].id /\ run'[s].hour = run[s].hour
  BY <1>5, RunGoesOn, StepIsOwn
<1>6. CASE UNCHANGED <<pc, run>>
  BY <1>2, <1>6
<1>7. ~ Crash
  BY DEF Crash
<1> QED
  BY <1>2, <1>4, <1>5, <1>6, <1>7 DEF Next, vars, Tick, Edit, EditWatched, EditExpiry, EditReminders, EditSettings

(* Whoever was calm from the start of a day was so at each of its hours.   *)
LEMMA DayStart ==
    ASSUME NEW from \in Nat, NEW h \in Nat, NEW n \in Nat,
           DayOf(h) = DayOf(n), from <= DayOf(n) * HoursPerDay
    PROVE  from <= h
<1>1. DayOf(h) * HoursPerDay \in Nat /\ DayOf(h) * HoursPerDay <= h
  BY DayBounds
<1>2. from <= DayOf(h) * HoursPerDay
  OBVIOUS
<1> QED BY <1>1, <1>2

(* A time that came after the hour is late by less than the clock moved.   *)
LEMMA WithinGrace ==
    ASSUME NEW old \in Nat, NEW now \in Nat, NEW due \in Nat, NEW h \in Nat, NEW from,
           due > old, due <= h, h <= now, from <= h, now - old - 1 <= 1 \/ from = now
    PROVE  now - h <= 1
OBVIOUS

LEMMA ClockTyped == TypeOK => hour \in Nat /\ MaxHour \in Nat /\ hour <= MaxHour
  BY JobsAssumption DEF TypeOK

(* That a certificate was tried stays true: the only row that changes is    *)
(* that of a run at its end, and it says "ok" only where the email was     *)
(* handled.                                                                *)
LEMMA TriedStays ==
    ASSUME TypeOK, FoundIsCurrent, RowsAreOwn, DailyInv, [Next]_vars, hour' = hour,
           CalmDay, NEW c \in Certs, Expiring(c), Tried(c)
    PROVE  Tried(c)'
<1>1. log[TrialOf(c)] # "none" => log'[TrialOf(c)] # "none"
  BY TrialIsMessage, RowStep
<1>2. CASE log[TrialOf(c)] # "none"
  BY <1>1, <1>2 DEF Tried
<1>3. ASSUME NEW i \in DOMAIN jobRuns,
             jobRuns[i].slot = "daily", DayOf(jobRuns[i].started) = DayOf(hour),
             ~ (jobRuns[i].finished /\ jobRuns[i].ok)
      PROVE  Tried(c)'
  <2>1. /\ i \in DOMAIN jobRuns'
        /\ jobRuns'[i].slot = "daily" /\ DayOf(jobRuns'[i].started) = DayOf(hour')
    BY <1>3, RowsAreKept
  <2>2. CASE jobRuns'[i] = jobRuns[i]
    BY <1>3, <2>1, <2>2 DEF Tried
  <2>3. ASSUME NEW r \in Slots, Finish(r), run[r].id = i
        PROVE  Tried(c)'
    <3>1. r = "daily" /\ pc[r] = "plan" /\ run[r].todo = {} /\ run[r].hour = jobRuns[i].started
      BY <1>3, <2>3 DEF Finish, RowsAreOwn
    <3>2. CASE run[r].failures = 0
      <4>1. CalmDay /\ Dutiful /\ pc["daily"] # "idle"
        BY <1>3, <3>1, <3>2 DEF Dutiful
      <4>2. OnItsWay(c)
        BY <4>1 DEF DailyInv
      <4>3. msg["daily"] # TrialOf(c)
        BY <3>1, TrialIsMessage, JobsAssumption DEF TypeOK
      <4> QED BY <1>1, <3>1, <4>2, <4>3 DEF OnItsWay, Tried
    <3>3. CASE run[r].failures # 0
      <4> DEFINE row == [jobRuns[i] EXCEPT !.finished = TRUE, !.ok = (run[r].failures = 0)]
      <4>1. jobRuns'[i] = row
        BY <2>3 DEF Finish, TypeOK
      <4>2. row.ok = FALSE
        <5> DEFINE Entry == [slot : Slots, started : 0 .. MaxHour, finished : BOOLEAN, ok : BOOLEAN]
        <5>1. jobRuns \in Seq(Entry)
          BY DEF TypeOK
        <5>2. jobRuns[i] \in Entry
          <6> HIDE DEF Entry
          <6> QED BY <1>3, <5>1, ElementOfSeq, LenProperties
        <5> QED BY <3>3, <5>2
      <4> HIDE DEF row
      <4> QED BY <2>1, <4>1, <4>2 DEF Tried
    <3> QED BY <3>2, <3>3
  <2> QED BY <1>3, <2>2, <2>3, RowsAreKept
<1> QED BY <1>2, <1>3 DEF Tried

LEMMA BootServes ==
    ASSUME TypeOK, FoundIsCurrent, ServedInv, Boot
    PROVE  ClockInv' /\ DailyInv' /\ TriggerInv'
<1>0. hour \in Nat /\ MaxHour \in Nat /\ hour <= MaxHour
  BY ClockTyped
<1>1. calm' \in {hour, hour + 1} /\ calm' \in Nat /\ calm' <= Never /\ hour' = hour /\ pc' = pc /\ ~ up
  BY <1>0 DEF Boot, Never, vars
<1> PICK next : next = NextTime("daily", calm')
  OBVIOUS
<1>2. next \in Nat /\ \A h \in Nat : calm' <= h /\ h < next => ~ Fires("daily", h)
  BY <1>1, NextTimeIsNext
<1>3. nextRun'["daily"] = next
  BY DEF Boot, ScheduledJobs
<1>4. ClockInv'
  <2>1. \A j : NextTime(j, calm') \in Nat
    BY <1>1, NextTimeIsNext
  <2> QED BY <1>1, <2>1 DEF Boot, ClockInv
<1>5. ASSUME NEW h \in 0 .. MaxHour, Fires("daily", h)
      PROVE  /\ h <= hour \/ next <= h
             /\ next <= h /\ h <= hour /\ calm' <= h => hour - h <= 1
             /\ ~ (h < next /\ DayOf(h) = DayOf(hour) /\ CalmDay')
  <2>1. h \in Nat /\ (calm' <= h => next <= h)
    BY <1>0, <1>2, <1>5
  <2>2. DayOf(h) = DayOf(hour) /\ CalmDay' => calm' <= h
    BY <1>0, <1>1, <2>1, DayStart DEF CalmDay
  <2> QED BY <1>0, <1>1, <1>2, <2>1, <2>2
<1>6. TriggerInv'
  BY <1>1, <1>3, <1>5 DEF TriggerInv, Fires
<1>7. DailyInv'
  BY <1>1 DEF ServedInv, DailyInv
<1> QED BY <1>4, <1>6, <1>7

LEMMA StopServes ==
    ASSUME TypeOK, FoundIsCurrent, ServedInv, Stop
    PROVE  ClockInv' /\ DailyInv' /\ TriggerInv'
<1>1. Never \in Nat
  BY JobsAssumption DEF Never
<1>2. pc'["daily"] = "idle"
  BY DEF Stop, Crash, vars, Slots
<1> QED BY <1>1, <1>2 DEF Stop, ServedInv, ClockInv, DailyInv, TriggerInv

LEMMA ChangeServes ==
    ASSUME TypeOK, FoundIsCurrent, ServedInv, Change
    PROVE  ClockInv' /\ DailyInv' /\ TriggerInv'
<1>0. hour \in Nat /\ MaxHour \in Nat
  BY ClockTyped
<1>1. hour' = hour /\ calm' = hour + 1 /\ UNCHANGED <<up, nextRun, pc, run>>
  BY DEF Change, EditWatched, EditExpiry, EditReminders, EditSettings, Edit
<1>2. ~ CalmDay'
  <2>1. DayOf(hour) * HoursPerDay <= hour /\ DayOf(hour) * HoursPerDay \in Nat
    BY <1>0, DayBounds
  <2> QED BY <1>0, <1>1, <2>1 DEF CalmDay
<1>3. ClockInv' /\ DailyInv'
  BY <1>0, <1>1, <1>2 DEF ServedInv, ClockInv, DailyInv
<1>4. TriggerInv'
  BY <1>0, <1>1, <1>2 DEF ServedInv, TriggerInv, Fires
<1> QED BY <1>3, <1>4

(* Time passes: no run of the day that ends, or that a sleep leaves, is    *)
(* over the grace without the history saying so.                           *)
LEMMA TimeServes ==
    ASSUME TypeOK, FoundIsCurrent, ServedInv, PassHour \/ Sleep
    PROVE  ClockInv' /\ DailyInv' /\ TriggerInv'
<1>0. hour \in Nat /\ MaxHour \in Nat /\ hour' \in Nat /\ hour' > hour /\ hour' <= MaxHour
  BY ClockTyped DEF PassHour, Sleep, Tick
<1>1. /\ UNCHANGED <<watched, notAfter, log, jobRuns, pc, run, msg, up, nextRun>>
      /\ up => nextRun["daily"] > hour
  BY DEF PassHour, Sleep, Tick, dataVars, scheduleVars, Quiet, ScheduledJobs
<1>2. /\ nextRun["daily"] \in Nat /\ calm \in Nat
      /\ \/ calm' = calm /\ hour' - hour - 1 <= 1
         \/ calm' = hour' /\ hour' > hour
  <2>1. nextRun["daily"] \in Nat /\ calm \in Nat
    BY DEF ServedInv, ClockInv, ScheduledJobs
  <2>2. CASE PassHour
    <3>1. calm' = calm /\ hour' = hour + 1
      BY <2>2 DEF PassHour, scheduleVars
    <3>2. hour' - hour - 1 <= 1
      BY <1>0, <3>1
    <3> QED BY <2>1, <3>1, <3>2
  <2>3. CASE Sleep
    <3>1. calm' = IF hour' - hour - 1 > 1 THEN hour' ELSE calm
      BY <2>3 DEF Sleep, Grace
    <3>2. \A a, b \in Nat : a - b - 1 > 1 \/ a - b - 1 <= 1
      OBVIOUS
    <3> QED BY <1>0, <2>1, <3>1, <3>2
  <2> QED BY <2>2, <2>3
<1>3. ClockInv'
  BY <1>0, <1>1, <1>2 DEF ServedInv, ClockInv
<1>4. ASSUME NEW h \in Nat, h <= hour, DayOf(h) = DayOf(hour'), CalmDay'
      PROVE  DayOf(hour') = DayOf(hour) /\ CalmDay
  <2>1. DayOf(h) <= DayOf(hour) /\ DayOf(hour) <= DayOf(hour')
        /\ DayOf(h) \in Nat /\ DayOf(hour) \in Nat /\ DayOf(hour') \in Nat
    BY <1>0, <1>4, DayOrder, DayBounds
  <2>2. DayOf(hour') = DayOf(hour)
    BY <1>4, <2>1
  <2>3. calm' \in Nat /\ calm' <= DayOf(hour') * HoursPerDay
    BY <1>0, <1>2, <1>4 DEF CalmDay
  <2>4. calm' <= h
    BY <1>0, <1>4, <2>3, DayStart
  <2> PICK now \in Nat, since \in Nat : now = hour' /\ since = calm'
    BY <1>0, <2>3
  <2>5. since # now
    BY <1>0, <1>4, <2>4
  <2>6. calm' = calm
    BY <1>2, <2>5
  <2> QED BY <2>2, <2>3, <2>6 DEF CalmDay
<1>5. DailyInv'
  <2>1. CASE pc["daily"] = "idle"
    BY <1>1, <2>1 DEF DailyInv
  <2>2. CASE pc["daily"] # "idle"
    <3>1. up /\ "email" \in run["daily"].channels
      BY <2>2 DEF ServedInv, DailyInv
    <3>2. ASSUME CalmDay', Dutiful', NEW c \in Certs, Expiring(c)'
          PROVE  OnItsWay(c)'
      <4>1. run["daily"].hour \in Nat /\ run["daily"].hour <= hour
        BY <2>2 DEF ServedInv, RowsAreOwn, TypeOK, RunRecords, Slots
      <4>2. DayOf(run["daily"].hour) = DayOf(hour')
        BY <1>1, <3>2 DEF Dutiful
      <4>3. DayOf(hour') = DayOf(hour) /\ CalmDay
        BY <1>4, <3>2, <4>1, <4>2
      <4>4. Dutiful /\ Expiring(c)
        BY <1>1, <3>2, <4>3 DEF Dutiful, Expiring
      <4>5. OnItsWay(c)
        BY <2>2, <4>3, <4>4 DEF ServedInv, DailyInv
      <4> QED BY <1>1, <4>5 DEF OnItsWay
    <3> QED BY <1>1, <3>1, <3>2 DEF DailyInv
  <2> QED BY <2>1, <2>2
<1>6. ASSUME up, NEW h \in 0 .. MaxHour, Fires("daily", h)
      PROVE  /\ h <= hour' \/ nextRun["daily"] <= h
             /\ nextRun["daily"] <= h /\ h <= hour' /\ calm' <= h => hour' - h <= 1
             /\ h < nextRun["daily"] /\ DayOf(h) = DayOf(hour') /\ CalmDay' =>
                   \A c \in Certs : Expiring(c)' => Tried(c)'
  <2>1. h \in Nat /\ (h <= hour \/ nextRun["daily"] <= h)
    BY <1>0, <1>6 DEF ServedInv, TriggerInv
  <2>2. h <= hour' \/ nextRun["daily"] <= h
    BY <1>0, <2>1
  <2>3. nextRun["daily"] <= h /\ h <= hour' /\ calm' <= h => hour' - h <= 1
    <3> SUFFICES ASSUME nextRun["daily"] <= h, h <= hour', calm' <= h
                 PROVE  hour' - h <= 1
      OBVIOUS
    <3>1. nextRun["daily"] > hour
      BY <1>1, <1>6
    <3> QED BY <1>0, <1>2, <2>1, <3>1, WithinGrace
  <2>4. ASSUME h < nextRun["daily"], DayOf(h) = DayOf(hour'), CalmDay', NEW c \in Certs, Expiring(c)'
        PROVE  Tried(c)'
    <3>1. h <= hour
      BY <1>0, <1>2, <2>1, <2>4
    <3>2. DayOf(hour') = DayOf(hour) /\ CalmDay
      BY <1>4, <2>1, <2>4, <3>1
    <3>3. Expiring(c)
      BY <1>1, <2>4, <3>2 DEF Expiring
    <3>4. Tried(c)
      BY <1>6, <2>4, <3>2, <3>3 DEF ServedInv, TriggerInv
    <3> QED BY <1>1, <3>2, <3>4 DEF Tried
  <2> QED BY <2>2, <2>3, <2>4
<1>7. TriggerInv'
  BY <1>1, <1>6 DEF TriggerInv, Fires
<1> QED BY <1>3, <1>5, <1>7

(* The rest of what TriggerInv says follows when the trigger and the hour  *)
(* stay, and what was tried stays so.                                      *)
LEMMA SameTrigger ==
    ASSUME TypeOK, FoundIsCurrent, ServedInv, [Next]_vars, up,
           UNCHANGED <<hour, watched, notAfter, up>>, nextRun'["daily"] = nextRun["daily"],
           calm' \in {calm, hour + 1}
    PROVE  TriggerInv'
<1>0. hour \in Nat /\ MaxHour \in Nat /\ calm \in Nat
  BY ClockTyped DEF ServedInv, ClockInv
<1>1. CalmDay' => calm' = calm /\ CalmDay
  <2>1. DayOf(hour) * HoursPerDay <= hour /\ DayOf(hour) * HoursPerDay \in Nat
    BY <1>0, DayBounds
  <2> QED BY <1>0, <2>1 DEF CalmDay
<1>2. ASSUME NEW h \in 0 .. MaxHour, Fires("daily", h)
      PROVE  /\ h <= hour \/ nextRun["daily"] <= h
             /\ nextRun["daily"] <= h /\ h <= hour /\ calm' <= h => hour - h <= 1
             /\ h < nextRun["daily"] /\ DayOf(h) = DayOf(hour) /\ CalmDay' =>
                   \A c \in Certs : Expiring(c)' => Tried(c)'
  <2>1. h <= hour \/ nextRun["daily"] <= h
    BY <1>2 DEF ServedInv, TriggerInv
  <2>2. nextRun["daily"] <= h /\ h <= hour /\ calm' <= h => hour - h <= 1
    <3>1. h \in Nat /\ (h <= hour => ~ (hour + 1 <= h))
      BY <1>0
    <3> QED BY <1>2, <3>1 DEF ServedInv, TriggerInv
  <2>3. ASSUME h < nextRun["daily"], DayOf(h) = DayOf(hour), CalmDay', NEW c \in Certs, Expiring(c)'
        PROVE  Tried(c)'
    <3>1. CalmDay /\ Expiring(c)
      BY <1>1, <2>3 DEF Expiring
    <3>2. Tried(c)
      BY <1>2, <2>3, <3>1 DEF ServedInv, TriggerInv
    <3> QED BY <3>1, <3>2, TriedStays DEF ServedInv
  <2> QED BY <2>1, <2>2, <2>3
<1> QED BY <1>2 DEF TriggerInv, Fires

(* Another's step, or the world's, leaves the daily run as it is.          *)
LEMMA DailyIsLeft ==
    ASSUME TypeOK, FoundIsCurrent, ServedInv, [Next]_vars, up,
           UNCHANGED <<hour, watched, notAfter, up>>,
           pc'["daily"] = pc["daily"], run'["daily"] = run["daily"], msg'["daily"] = msg["daily"],
           calm' \in {calm, hour + 1}
    PROVE  DailyInv'
<1>0. hour \in Nat /\ calm \in Nat
  BY ClockTyped DEF ServedInv, ClockInv
<1>1. CalmDay' => CalmDay
  <2>1. DayOf(hour) * HoursPerDay <= hour /\ DayOf(hour) * HoursPerDay \in Nat
    BY <1>0, DayBounds
  <2> QED BY <1>0, <2>1 DEF CalmDay
<1>2. ASSUME pc["daily"] # "idle", CalmDay', Dutiful', NEW c \in Certs, Expiring(c)'
      PROVE  OnItsWay(c)'
  <2>1. Dutiful /\ Expiring(c)
    BY <1>2 DEF Dutiful, Expiring
  <2>2. OnItsWay(c)
    BY <1>1, <1>2, <2>1 DEF ServedInv, DailyInv
  <2>3. log[TrialOf(c)] # "none" => log'[TrialOf(c)] # "none"
    BY TrialIsMessage, RowStep
  <2> QED BY <2>2, <2>3 DEF OnItsWay
<1> QED BY <1>2 DEF ServedInv, DailyInv

LEMMA RunStepServes ==
    ASSUME TypeOK, FoundIsCurrent, ServedInv, NEW r \in Slots, RunStep(r)
    PROVE  ClockInv' /\ DailyInv' /\ TriggerInv'
<1>1. [Next]_vars /\ up /\ Step(r) /\ UNCHANGED <<up, nextRun, calm>>
  BY DEF RunStep, scheduleVars, Next
<1>2. UNCHANGED <<hour, dataVars>>
  BY <1>1 DEF Step, PlanCert, SkipChannel, BeginSend, Accept, RetryCard, AnswerOk, AnswerError,
              AnswerRaise, Record, Finish, Abort
<1>3. ClockInv'
  BY <1>1 DEF ServedInv, ClockInv
<1>4. TriggerInv'
  BY <1>1, <1>2, SameTrigger DEF dataVars
<1>5. CASE r # "daily"
  <2>1. pc'["daily"] = pc["daily"] /\ run'["daily"] = run["daily"] /\ msg'["daily"] = msg["daily"]
    BY <1>1, <1>5, StepIsOwn DEF Slots
  <2> QED BY <1>1, <1>2, <1>3, <1>4, <2>1, DailyIsLeft DEF dataVars
<1>6. CASE r = "daily" /\ pc'["daily"] = "idle"
  BY <1>3, <1>4, <1>6 DEF DailyInv
<1>7. CASE r = "daily" /\ pc'["daily"] # "idle"
  <2>1. pc["daily"] # "idle"
    BY <1>1, <1>7, RunGoesOn
  <2>2. "email" \in run["daily"].channels
    BY <2>1 DEF ServedInv, DailyInv
  <2>3. /\ run'["daily"].hour = run["daily"].hour
        /\ run'["daily"].channels = run["daily"].channels
        /\ run'["daily"].failures = 0 => run["daily"].failures = 0
        /\ \A c \in Certs : Expiring(c) /\ Dutiful' /\ OnItsWay(c) => OnItsWay(c)'
    BY <1>1, <1>7, <2>2, DailyStep
  <2>4. ASSUME CalmDay', Dutiful', NEW c \in Certs, Expiring(c)'
        PROVE  OnItsWay(c)'
    <3>1. CalmDay /\ Dutiful /\ Expiring(c)
      BY <1>1, <1>2, <2>3, <2>4 DEF CalmDay, Dutiful, Expiring, dataVars
    <3> QED BY <2>1, <2>3, <2>4, <3>1 DEF ServedInv, DailyInv
  <2>5. DailyInv'
    BY <1>1, <2>2, <2>3, <2>4 DEF DailyInv
  <2> QED BY <1>3, <1>4, <2>5
<1> QED BY <1>5, <1>6, <1>7

LEMMA EscalationServes ==
    ASSUME TypeOK, FoundIsCurrent, ServedInv, [Next]_vars, Fire("escalation")
    PROVE  ClockInv' /\ DailyInv' /\ TriggerInv'
<1>0. hour \in Nat /\ MaxHour \in Nat /\ hour <= MaxHour
  BY ClockTyped
<1>1. /\ up /\ up' = up /\ calm' \in {calm, hour + 1}
      /\ nextRun' = [nextRun EXCEPT !["escalation"] = NextTime("escalation", hour + 1)]
  BY DEF Fire
<1>2. ClockInv'
  <2>1. NextTime("escalation", hour + 1) \in Nat
    BY <1>0, NextTimeIsNext DEF Never
  <2>2. nextRun \in [ScheduledJobs -> Nat] /\ calm \in Nat
    BY DEF ServedInv, ClockInv
  <2>3. nextRun' \in [ScheduledJobs -> Nat]
    BY <1>1, <2>1, <2>2
  <2>4. calm' \in Nat
    BY <1>0, <1>1, <2>2
  <2> QED BY <2>3, <2>4 DEF ClockInv
<1>3. nextRun'["daily"] = nextRun["daily"]
  BY <1>1 DEF ServedInv, ClockInv, ScheduledJobs
<1>4. /\ UNCHANGED <<hour, watched, notAfter>>
      /\ pc'["daily"] = pc["daily"] /\ run'["daily"] = run["daily"] /\ msg'["daily"] = msg["daily"]
  <2>1. CASE UNCHANGED vars
    BY <2>1 DEF vars, dataVars
  <2>2. CASE StartEscalation
    <3>1. PICK listed : StartRun("escalation", {"teams"}, listed)
      BY <2>2 DEF StartEscalation
    <3>2. "escalation" \in Slots /\ "daily" \in Slots \ {"escalation"}
      BY DEF Slots
    <3> QED BY <3>1, <3>2, StartedRun
  <2>3. UNCHANGED vars \/ StartEscalation
    BY DEF Fire
  <2> QED BY <2>1, <2>2, <2>3
<1> QED BY <1>1, <1>2, <1>3, <1>4, SameTrigger, DailyIsLeft

(* The daily trigger: of the times that are due the last one counts, and    *)
(* it starts a run that has before it whoever is watched.                  *)
LEMMA DailyServes ==
    ASSUME TypeOK, FoundIsCurrent, ServedInv, [Next]_vars, Fire("daily")
    PROVE  ClockInv' /\ DailyInv' /\ TriggerInv'
<1>0. /\ hour \in Nat /\ MaxHour \in Nat /\ hour <= MaxHour
      /\ calm \in Nat /\ nextRun["daily"] \in Nat
  BY ClockTyped DEF ServedInv, ClockInv, ScheduledJobs
<1> PICK next : next = NextTime("daily", hour + 1)
  OBVIOUS
<1>1. /\ up /\ up' = up
      /\ nextRun' = [nextRun EXCEPT !["daily"] = next]
      /\ \/ pc["daily"] = "idle" /\ calm' = calm
         \/ pc["daily"] # "idle" /\ calm' = hour + 1
      /\ IF pc["daily"] # "idle" \/ Missed("daily") THEN UNCHANGED vars ELSE StartDaily
  BY DEF Fire
<1>2. /\ next \in Nat /\ hour + 1 <= next
      /\ \A h \in Nat : hour + 1 <= h /\ h < next => ~ Fires("daily", h)
  BY <1>0, NextTimeIsNext DEF Never
<1>3. ClockInv' /\ nextRun'["daily"] = next
  BY <1>0, <1>1, <1>2 DEF ServedInv, ClockInv, ScheduledJobs
<1>4. CalmDay' => pc["daily"] = "idle" /\ calm' = calm /\ CalmDay
  <2>1. DayOf(hour) * HoursPerDay <= hour /\ DayOf(hour) * HoursPerDay \in Nat
    BY <1>0, DayBounds
  <2>2. hour' = hour
    BY <1>1 DEF StartDaily, StartRun, vars
  <2> QED BY <1>0, <1>1, <2>1, <2>2 DEF CalmDay
<1>5. ASSUME StartDaily
      PROVE  /\ UNCHANGED <<hour, watched, notAfter>>
             /\ "email" \in run'["daily"].channels
             /\ \A c \in Certs : Expiring(c)' => OnItsWay(c)' /\ Tried(c)'
  <2> PICK row : row = [slot |-> "daily", started |-> hour, finished |-> FALSE, ok |-> TRUE]
    OBVIOUS
  <2>1. /\ UNCHANGED <<hour, watched, notAfter>>
        /\ run'["daily"].id \in DOMAIN jobRuns' /\ jobRuns'[run'["daily"].id] = row
        /\ run'["daily"].channels = JobChannels /\ run'["daily"].todo = watched
    BY <1>5, StartedRun DEF StartDaily, Slots
  <2>2. row.slot = "daily" /\ row.started = hour /\ row.finished = FALSE
    OBVIOUS
  <2>3. \A c \in Certs : Tried(c)'
    BY <2>1, <2>2 DEF Tried
  <2>4. \A c \in Certs : Expiring(c)' => OnItsWay(c)'
    BY <2>1 DEF Expiring, OnItsWay
  <2> QED BY <2>1, <2>3, <2>4 DEF JobChannels
<1>6. UNCHANGED <<hour, watched, notAfter>>
  BY <1>1, <1>5 DEF vars, dataVars
<1>7. DailyInv'
  <2>1. CASE StartDaily
    BY <1>1, <1>5, <2>1 DEF ServedInv, DailyInv
  <2>2. CASE UNCHANGED vars
    <3>1. UNCHANGED <<pc, run>>
      BY <2>2 DEF vars
    <3> QED BY <1>1, <1>4, <3>1 DEF ServedInv, DailyInv
  <2> QED BY <1>1, <2>1, <2>2
<1>8. ASSUME NEW h \in 0 .. MaxHour, Fires("daily", h)
      PROVE  /\ h <= hour \/ next <= h
             /\ ~ (next <= h /\ h <= hour)
             /\ h < next /\ DayOf(h) = DayOf(hour) /\ CalmDay' =>
                   \A c \in Certs : Expiring(c)' => Tried(c)'
  <2>1. h \in Nat /\ (h <= hour \/ next <= h)
    BY <1>0, <1>2, <1>8
  <2>2. ~ (next <= h /\ h <= hour)
    BY <1>0, <1>2, <2>1
  <2>3. ASSUME h < next, DayOf(h) = DayOf(hour), CalmDay', NEW c \in Certs, Expiring(c)'
        PROVE  Tried(c)'
    <3>1. h <= hour /\ CalmDay /\ Expiring(c) /\ pc["daily"] = "idle"
      BY <1>0, <1>2, <1>4, <1>6, <2>1, <2>3 DEF Expiring
    <3>2. CASE h < nextRun["daily"]
      <4>1. Tried(c)
        BY <1>1, <1>8, <2>3, <3>1, <3>2 DEF ServedInv, TriggerInv
      <4> QED BY <1>6, <3>1, <4>1, TriedStays DEF ServedInv
    <3>3. CASE nextRun["daily"] <= h
      <4>1. calm <= h
        BY <1>0, <2>1, <2>3, <3>1, DayStart DEF CalmDay
      <4>2. hour - h <= 1
        BY <1>1, <1>8, <3>1, <3>3, <4>1 DEF ServedInv, TriggerInv
      <4>3. LastDue("daily") \in Nat /\ h <= LastDue("daily")
        BY <1>0, <1>8, <2>1, <3>1, <3>3, <4>2, LastDueIsLast
      <4>4. ~ Missed("daily")
        BY <1>0, <2>1, <4>2, <4>3 DEF Missed, Grace
      <4> QED BY <1>1, <1>5, <2>3, <3>1, <4>4
    <3> QED BY <1>0, <2>1, <3>2, <3>3
  <2> QED BY <2>1, <2>2, <2>3
<1>9. TriggerInv'
  BY <1>3, <1>6, <1>8 DEF TriggerInv, Fires
<1> QED BY <1>3, <1>7, <1>9

LEMMA ServedInit == ScheduleInit => ServedInv
<1> SUFFICES ASSUME ScheduleInit
             PROVE  ServedInv
  OBVIOUS
<1>1. Never \in Nat
  BY JobsAssumption DEF Never
<1>2. \A r \in Slots : pc[r] = "idle"
  BY DEF ScheduleInit, Init
<1> QED BY <1>1, <1>2 DEF ScheduleInit, ServedInv, ClockInv, RowsAreOwn, DailyInv, TriggerInv, Slots

LEMMA ServedInvInductive ==
    TypeOK /\ LogInv /\ ServedInv /\ [ScheduleNext]_allVars => ServedInv'
<1> SUFFICES ASSUME TypeOK, LogInv, ServedInv, [ScheduleNext]_allVars
             PROVE  ServedInv'
  OBVIOUS
<1>1. FoundIsCurrent /\ [Next]_vars
  BY ScheduleSteps DEF LogInv
<1>2. RowsAreOwn'
  BY <1>1, RowsStayOwn DEF ServedInv
<1>3. CASE Boot
  BY <1>1, <1>2, <1>3, BootServes DEF ServedInv
<1>4. CASE Stop
  BY <1>1, <1>2, <1>4, StopServes DEF ServedInv
<1>5. ASSUME NEW j \in ScheduledJobs, Fire(j)
      PROVE  ServedInv'
  BY <1>1, <1>2, <1>5, EscalationServes, DailyServes DEF ServedInv, ScheduledJobs
<1>6. ASSUME NEW r \in Slots, RunStep(r)
      PROVE  ServedInv'
  BY <1>1, <1>2, <1>6, RunStepServes DEF ServedInv
<1>7. CASE Change
  BY <1>1, <1>2, <1>7, ChangeServes DEF ServedInv
<1>8. CASE PassHour \/ Sleep
  BY <1>1, <1>2, <1>8, TimeServes DEF ServedInv
<1>9. CASE UNCHANGED allVars
  BY <1>9 DEF allVars, vars, dataVars, scheduleVars, ServedInv, ClockInv, RowsAreOwn, DailyInv,
              TriggerInv, CalmDay, Dutiful, Expiring, OnItsWay, Tried, Fires
<1> QED BY <1>3, <1>4, <1>5, <1>6, <1>7, <1>8, <1>9 DEF ScheduleNext

(* Every day that ends has an hour at which the daily trigger fires.  A day *)
(* on which the clocks go back may have none (README.md, section 3).       *)
DailyTimeExists ==
    \A last \in 0 .. MaxHour - 1 : DayOf(last + 1) # DayOf(last) =>
        \E h \in 0 .. last : DayOf(h) = DayOf(last) /\ Fires("daily", h)

(* A daily run that comes late within the grace time comes on the day of    *)
(* its trigger: the trigger is not in the last hour of a UTC day.          *)
GraceWithinDay ==
    \A h \in 0 .. MaxHour - 1 : Fires("daily", h) => DayOf(h + Grace["daily"]) = DayOf(h)

(* The day that ends while an hour passes, or while the machine sleeps no   *)
(* longer than the grace time, had its trigger at an hour that was reached. *)
LEMMA TriggerWasReached ==
    ASSUME DailyTimeExists, GraceWithinDay, NEW now \in Nat, NEW next \in now + 1 .. MaxHour,
           next <= now + 2, DayOf(next) # DayOf(now)
    PROVE  \E h \in 0 .. now : DayOf(h) = DayOf(now) /\ Fires("daily", h)
<1>1. MaxHour \in Nat
  BY JobsAssumption
<1>2. CASE DayOf(now + 1) # DayOf(now)
  <2>1. now \in 0 .. MaxHour - 1
    BY <1>1
  <2> QED BY <1>2, <2>1 DEF DailyTimeExists
<1>3. CASE DayOf(now + 1) = DayOf(now)
  <2>1. next = (now + 1) + 1 /\ now + 1 \in 0 .. MaxHour - 1
    BY <1>1, <1>3
  <2>2. DayOf((now + 1) + 1) # DayOf(now + 1)
    BY <1>3, <2>1
  <2>3. PICK h \in 0 .. now + 1 : DayOf(h) = DayOf(now + 1) /\ Fires("daily", h)
    BY <2>1, <2>2 DEF DailyTimeExists
  <2>4. h # now + 1
    BY <2>1, <2>2, <2>3 DEF GraceWithinDay, Grace
  <2>5. h \in 0 .. now
    BY <2>3, <2>4
  <2> QED BY <1>3, <2>3, <2>5
<1> QED BY <1>2, <1>3

(* README.md, "the expiry day itself is always notified", for any offsets,  *)
(* days, restarts, sleeps and failures, and any hour of the run but the     *)
(* last of the UTC day: no certificate's expiry day ends untried that the   *)
(* process was up for and nobody changed anything on                       *)
(* (NotificationScheduler, run_daily_job).                                 *)
THEOREM NoExpiryDayIsMissed ==
    DailyTimeExists /\ GraceWithinDay => (ScheduleSpec => ExpiryDayIsTried)
<1>0. \A a, b \in Nat : ~ (a - b - 1 > 1) => a <= b + 2
  OBVIOUS
<1>1. ASSUME DailyTimeExists, GraceWithinDay, TypeOK, ServedInv, [ScheduleNext]_allVars,
             NEW c \in WithRecipients, EmailConfigured, c \in watched, notAfter[c] = DayOf(hour),
             DayOf(hour') # DayOf(hour), up, calm' <= DayOf(hour) * HoursPerDay
      PROVE  Tried(c)
  <2>1. c \in Certs /\ hour \in Nat /\ MaxHour \in Nat /\ hour' # hour
    BY <1>1, ClockTyped, JobsAssumption
  <2>2. PassHour \/ Sleep
    <3>1. ASSUME NEW j \in ScheduledJobs, Fire(j)
          PROVE  hour' = hour
      BY <3>1 DEF Fire, vars, StartDaily, StartEscalation, StartRun
    <3>2. ASSUME NEW r \in Slots, RunStep(r)
          PROVE  hour' = hour
      BY <3>2 DEF RunStep, Step, PlanCert, SkipChannel, BeginSend, Accept, RetryCard, AnswerOk,
                  AnswerError, AnswerRaise, Record, Finish, Abort
    <3>3. ASSUME Boot \/ Stop \/ Change \/ UNCHANGED allVars
          PROVE  hour' = hour
      BY <3>3 DEF Boot, Stop, Crash, Change, EditWatched, EditExpiry, EditReminders, EditSettings,
                  Edit, allVars, vars
    <3> QED BY <1>1, <2>1, <3>1, <3>2, <3>3 DEF ScheduleNext
  <2>3. nextRun["daily"] > hour /\ nextRun["daily"] \in Nat /\ hour' \in hour + 1 .. MaxHour
    <3>1. hour' \in hour + 1 .. MaxHour
      BY <2>2 DEF PassHour, Sleep, Tick
    <3>2. nextRun["daily"] > hour
      BY <1>1, <2>2 DEF PassHour, Sleep, Quiet, ScheduledJobs
    <3>3. nextRun["daily"] \in Nat
      BY <1>1 DEF ServedInv, ClockInv, ScheduledJobs
    <3> QED BY <3>1, <3>2, <3>3
  <2>4. hour' <= hour + 2 /\ calm' = calm
    <3>1. CASE PassHour
      BY <2>1, <3>1 DEF PassHour, scheduleVars
    <3>2. CASE Sleep
      <4> PICK start \in Nat : start = DayOf(hour) * HoursPerDay
        BY <2>1, DayBounds
      <4> PICK now \in Nat : now = hour'
        BY <2>1, <2>3
      <4> PICK old \in Nat : old = hour
        BY <2>1
      <4>1. start <= old /\ old < now /\ calm' <= start
        BY <1>1, <2>1, <2>3, DayBounds
      <4>2. calm' # now
        BY <4>1
      <4>3. calm' = IF now - old - 1 > 1 THEN now ELSE calm
        BY <3>2 DEF Sleep, Grace
      <4>4. ~ (now - old - 1 > 1) /\ calm' = calm
        BY <4>2, <4>3
      <4>5. now <= old + 2
        BY <1>0, <4>4
      <4> QED BY <4>4, <4>5
    <3> QED BY <2>2, <3>1, <3>2
  <2>5. PICK h \in 0 .. hour : DayOf(h) = DayOf(hour) /\ Fires("daily", h)
    BY <1>1, <2>1, <2>3, <2>4, TriggerWasReached
  <2>6. h \in 0 .. MaxHour /\ h < nextRun["daily"]
    BY <2>1, <2>3, <2>5
  <2>7. CalmDay /\ Expiring(c)
    BY <1>1, <2>4 DEF CalmDay, Expiring
  <2> QED BY <1>1, <2>1, <2>5, <2>6, <2>7 DEF ServedInv, TriggerInv
<1>2. ASSUME DailyTimeExists, GraceWithinDay
      PROVE  ScheduleSpec => ExpiryDayIsTried
  <2> DEFINE DayEnds ==
        \A c \in WithRecipients :
            /\ EmailConfigured /\ c \in watched /\ notAfter[c] = DayOf(hour)
            /\ DayOf(hour') # DayOf(hour)
            /\ up /\ calm' <= DayOf(hour) * HoursPerDay
            /\ pc["daily"] = "idle"
            => \/ log[[cert |-> c, channel |-> "email", key |-> ThresholdKey(0)]] # "none"
               \/ \E i \in DOMAIN jobRuns :
                     /\ jobRuns[i].slot = "daily" /\ DayOf(jobRuns[i].started) = DayOf(hour)
                     /\ ~ (jobRuns[i].finished /\ jobRuns[i].ok)
  <2>1. TypeOK /\ ServedInv /\ [ScheduleNext]_allVars => DayEnds
    BY <1>1, <1>2 DEF Tried, TrialOf
  <2>2. ScheduleSpec => [](TypeOK /\ LogInv)
    BY ScheduleImplementsJobs, TypeCorrect, LogIsConsistent, PTL
  <2>3. ScheduleSpec => []ServedInv
    BY <2>2, ServedInit, ServedInvInductive, PTL DEF ScheduleSpec
  <2> HIDE DEF DayEnds
  <2>4. ScheduleSpec => [][DayEnds]_allVars
    BY <2>1, <2>2, <2>3, PTL DEF ScheduleSpec
  <2> QED BY <2>4 DEF ExpiryDayIsTried, DayEnds
<1> QED BY <1>2
=============================================================================
