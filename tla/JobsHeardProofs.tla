--------------------------- MODULE JobsHeardProofs ---------------------------
(***************************************************************************)
(* The one day nobody should hear nothing.  MCJobsHeard_moved shows an     *)
(* expiry day that passes in silence, after the day of a record was moved.  *)
(* Here: where expiry days stay, whatever else is edited, refused, lost or *)
(* done twice, a daily run that ends without a failure leaves no expiry day *)
(* in silence.                                                             *)
(***************************************************************************)
EXTENDS MCJobsHeard, JobsRunProofs

(* What is left is a run that ends before its list does.                   *)
Uninterrupted == Faults \intersect {"crash", "locked"} = {}

(* On the expiry day somebody has heard about it; before it, nobody counts. *)
HeardToday(c) ==
    notAfter[c] <= DayOf(hour) /\ (notAfter[c] = DayOf(hour) => <<c, DayOf(hour)>> \in heard)

(* The expiry-day email is in nobody's hand but on the day that was the     *)
(* expiry day when the run started.                                        *)
HandInv(r) ==
    pc[r] # "idle" =>
        /\ run[r].hour <= hour
        /\ pc[r] # "plan" /\ msg[r].key = ThresholdKey(0) => notAfter[msg[r].cert] = Reference(r)

(* A run without failures still has before it, has in hand, or has settled  *)
(* the email of whoever expires on its day.                                *)
OnItsList(r, c) ==
    \/ c \in run[r].todo
    \/ msg[r] = TrialOf(c) /\ "email" \in run[r].due
    \/ Settled(TrialOf(c))

ListInv(r) ==
    pc[r] # "idle" /\ run[r].failures = 0 =>
        /\ "email" \in run[r].channels
        /\ \A c \in WithRecipients \intersect run[r].listed :
              notAfter[c] = Reference(r) => OnItsList(r, c)

(* An expiry-day email is never passed over, and a delivered one was heard. *)
HeardInv ==
    /\ \A r \in Slots : HandInv(r)
    /\ \A r \in Slots \ {"escalation"} : ListInv(r)
    /\ \A c \in Certs :
          /\ log[TrialOf(c)] # "skipped"
          /\ log[TrialOf(c)] = "sent" => HeardToday(c)
          /\ \A r \in Slots : pc[r] = "accepted" /\ msg[r] = TrialOf(c) => HeardToday(c)

(* Nobody but an edit moves an expiry day. *)
LEMMA ExpiryStays == ASSUME "expiry" \notin Edits, [Next]_vars PROVE notAfter' = notAfter
<1>1. ASSUME NEW r \in Slots, Step(r) PROVE notAfter' = notAfter
  BY <1>1 DEF Step, PlanCert, SkipChannel, BeginSend, Accept, RetryCard, AnswerOk, AnswerError,
              AnswerRaise, Record, Finish, Abort, dataVars
<1>2. CASE StartDaily \/ StartManual \/ StartEscalation
  BY <1>2 DEF StartDaily, StartManual, StartEscalation, StartRun, dataVars
<1>3. CASE Tick \/ Crash \/ EditWatched \/ EditReminders \/ EditSettings
  BY <1>3 DEF Tick, Crash, EditWatched, EditReminders, EditSettings, dataVars
<1>4. CASE EditExpiry
  BY <1>4 DEF EditExpiry, Edit
<1>5. CASE UNCHANGED vars
  BY <1>5 DEF vars, dataVars
<1> QED BY <1>1, <1>2, <1>3, <1>4, <1>5 DEF Next

(* plan_for takes the expiry-day email on that day only, and never passes  *)
(* it over for a nearer one.                                               *)
LEMMA ZeroPlan ==
    ASSUME TypeOK, NEW r \in Slots, NEW c \in Certs, NEW p \in Plan(r, c)
    PROVE  /\ p.key = ThresholdKey(0) => notAfter[c] = Reference(r)
           /\ 0 \notin p.superseded
<1>1. thresholds[c] \union {0} \subseteq Nat
  <2>1. thresholds[c] \in SUBSET (1 .. MaxThreshold) /\ MaxThreshold \in Nat
    BY JobsAssumption DEF TypeOK
  <2> QED BY <2>1
<1> PICK days : days = notAfter[c] - Reference(r)
  OBVIOUS
<1>2. days \in Int /\ notAfter[c] \in Int /\ Reference(r) \in Int
  <2>1. notAfter[c] \in Int
    BY JobsAssumption DEF TypeOK
  <2>2. run[r].hour \in Nat
    BY DEF TypeOK, RunRecords
  <2>3. Reference(r) \in Int
    BY <2>2, DayBounds DEF Reference
  <2> QED BY <2>1, <2>3
<1>3. CASE r = "escalation" \/ days < 0
  <2>1. p.superseded = {} /\ p.key.kind \in {"slot", "expired"}
    BY <1>3 DEF Plan, PlanFor, ExpiredHourKey, ExpiredKey
  <2> QED BY <2>1 DEF ThresholdKey
<1>4. CASE r # "escalation" /\ ~ days < 0
  <2> PICK C : C = Crossed(days, thresholds[c])
    OBVIOUS
  <2>1. PICK t \in Nearest(C) : p = [key |-> ThresholdKey(t), superseded |-> C \ {t}]
    BY <1>4 DEF Plan, PlanFor
  <2>2. t \in C /\ t \in Nat /\ (0 \in C => t = 0)
    BY <1>1, <2>1 DEF Nearest, Crossed
  <2>3. p.key = ThresholdKey(0) => t = 0
    BY <2>1 DEF ThresholdKey
  <2>4. t = 0 => days = 0
    BY <1>2, <1>4, <2>2 DEF Crossed
  <2> QED BY <1>2, <2>1, <2>2, <2>3, <2>4
<1> QED BY <1>3, <1>4

(* No step passes the expiry-day email over, and only a run whose provider *)
(* took it records it as sent.                                             *)
LEMMA TrialRow ==
    ASSUME TypeOK, FoundIsCurrent, [Next]_vars, NEW c \in Certs
    PROVE  /\ log[TrialOf(c)] # "skipped" => log'[TrialOf(c)] # "skipped"
           /\ log'[TrialOf(c)] = "sent" =>
                 log[TrialOf(c)] = "sent" \/ \E r \in Slots : pc[r] = "accepted" /\ msg[r] = TrialOf(c)
<1> PICK m \in Messages : m = TrialOf(c)
  BY TrialIsMessage
<1>1. ASSUME NEW r \in Slots, PlanCert(r)
      PROVE  log'[m] = log[m]
  <2>1. PICK d \in run[r].todo :
          \/ log' = log
          \/ \E p \in Plan(r, d) : log' = MarkSuperseded(d, p.superseded, run[r].channels)
    BY <1>1 DEF PlanCert
  <2>2. d \in Certs
    BY DEF TypeOK, RunRecords
  <2>3. ASSUME NEW p \in Plan(r, d), log' = MarkSuperseded(d, p.superseded, run[r].channels)
        PROVE  log'[m] = log[m]
    <3>1. 0 \notin p.superseded
      BY <2>2, ZeroPlan
    <3>2. m.key \notin {ThresholdKey(t) : t \in p.superseded}
      BY <3>1 DEF TrialOf, ThresholdKey
    <3> QED BY <2>3, <3>2 DEF MarkSuperseded
  <2> QED BY <2>1, <2>3
<1>2. ASSUME NEW r \in Slots, AnswerOk(r)
      PROVE  log'[m] = log[m] \/ (log'[m] = "sent" /\ pc[r] = "accepted" /\ msg[r] = m)
  <2>1. pc[r] = "accepted" /\ InFlight(r) /\ Record(r, "sent")
    BY <1>2 DEF AnswerOk, InFlight
  <2> QED BY <2>1, RecordLog
<1>3. ASSUME NEW r \in Slots, AnswerError(r)
      PROVE  log'[m] = log[m] \/ log'[m] = "error"
  <2>1. InFlight(r) /\ Record(r, "error")
    BY <1>3 DEF AnswerError, Unanswered, InFlight
  <2> QED BY <2>1, RecordLog
<1>4. \/ log' = log
      \/ \E r \in Slots : PlanCert(r) \/ AnswerOk(r) \/ AnswerError(r)
  BY DEF Next, vars, Step, SkipChannel, BeginSend, Accept, RetryCard, AnswerRaise, Finish, Abort,
         StartDaily, StartManual, StartEscalation, StartRun, Tick, Crash, Edit, EditWatched,
         EditExpiry, EditReminders, EditSettings
<1> QED BY <1>1, <1>2, <1>3, <1>4

(* What was heard in time stays so: a day that is over is not heard late.   *)
LEMMA HeardStays ==
    ASSUME TypeOK, [Next]_vars, "expiry" \notin Edits, heard \subseteq heard',
           NEW c \in Certs, HeardToday(c)
    PROVE  HeardToday(c)'
<1>1. hour \in Nat /\ hour' \in Nat /\ hour' >= hour
  BY HourMovesOn
<1>2. DayOf(hour) \in Nat /\ DayOf(hour') \in Nat /\ DayOf(hour) <= DayOf(hour')
  BY <1>1, DayBounds, DayOrder
<1>3. notAfter'[c] = notAfter[c] /\ notAfter[c] \in Int
  BY ExpiryStays, JobsAssumption DEF TypeOK
<1> PICK d0, d1 : d0 = DayOf(hour) /\ d1 = DayOf(hour')
  OBVIOUS
<1>4. notAfter[c] <= d0 /\ (notAfter[c] = d0 => <<c, d0>> \in heard)
  BY DEF HeardToday
<1>5. notAfter[c] <= d1 /\ (notAfter[c] = d1 => notAfter[c] = d0 /\ d1 = d0)
  BY <1>2, <1>3, <1>4
<1>6. notAfter'[c] <= DayOf(hour') /\ (notAfter'[c] = DayOf(hour') => <<c, DayOf(hour')>> \in heard')
  BY <1>3, <1>4, <1>5
<1>7. DayOf(hour)' = DayOf(hour')
  BY DEF DayOf
<1> QED BY <1>6, <1>7 DEF HeardToday

(* A run keeps the certificate and the key it has in hand, or has just     *)
(* taken them from a plan.                                                 *)
LEMMA HandStep ==
    ASSUME TypeOK, NEW r \in Slots, Step(r), pc'[r] \notin {"idle", "plan"}
    PROVE  \/ /\ pc[r] \notin {"idle", "plan"}
              /\ msg'[r].cert = msg[r].cert /\ msg'[r].key = msg[r].key
           \/ \E c \in Certs : \E p \in Plan(r, c) : msg'[r].cert = c /\ msg'[r].key = p.key
<1>1. CASE PlanCert(r)
  <2>1. PICK c \in run[r].todo : \E p \in Plan(r, c) :
          msg' = [msg EXCEPT ![r] = [cert |-> c, channel |-> "email", key |-> p.key]]
    BY <1>1 DEF PlanCert
  <2>2. c \in Certs
    BY DEF TypeOK, RunRecords
  <2> QED BY <2>1, <2>2 DEF TypeOK
<1>2. ASSUME pc[r] \notin {"idle", "plan"}, NextChannel(r)
      PROVE  msg'[r].cert = msg[r].cert /\ msg'[r].key = msg[r].key
  <2>1. msg[r] \in Messages
    BY <1>2, InHand
  <2>2. msg[r].channel = "email"
    BY <1>2 DEF NextChannel, TypeOK
  <2> DEFINE new == [msg[r] EXCEPT !.channel = "teams"]
  <2>3. msg' = [msg EXCEPT ![r] = new]
    BY <1>2, <2>2 DEF NextChannel
  <2>4. new.cert = msg[r].cert /\ new.key = msg[r].key
    BY <2>1 DEF Messages
  <2> HIDE DEF new
  <2> QED BY <2>3, <2>4 DEF TypeOK
<1>3. CASE SkipChannel(r)
  BY <1>2, <1>3 DEF SkipChannel
<1>4. CASE BeginSend(r) \/ Accept(r) \/ RetryCard(r)
  BY <1>4 DEF BeginSend, Accept, RetryCard, Unanswered
<1>5. ASSUME NextCert(r) PROVE FALSE
  BY <1>5 DEF NextCert, TypeOK
<1>6. CASE AnswerOk(r) \/ AnswerError(r)
  <2>1. InFlight(r) /\ (NextChannel(r) \/ NextCert(r))
    BY <1>6 DEF AnswerOk, AnswerError, Unanswered, Record, InFlight
  <2> QED BY <1>2, <1>5, <2>1 DEF InFlight
<1>7. CASE AnswerRaise(r)
  BY <1>5, <1>7 DEF AnswerRaise
<1>8. CASE Finish(r) \/ Abort(r)
  BY <1>8 DEF Finish, Abort, TypeOK
<1> QED BY <1>1, <1>3, <1>4, <1>6, <1>7, <1>8 DEF Step

(* What a step can mean to one run: its own, its start, somebody else's, or *)
(* the end of the process.                                                 *)
LEMMA OneRun ==
    ASSUME TypeOK, FoundIsCurrent, [Next]_vars, NEW r \in Slots
    PROVE  \/ Step(r)
           \/ /\ pc'[r] = "plan" /\ hour' = hour /\ run'[r].hour = hour
              /\ run'[r].todo = run'[r].listed
              /\ r # "escalation" => "email" \in run'[r].channels
           \/ pc'[r] = pc[r] /\ msg'[r] = msg[r] /\ run'[r] = run[r]
           \/ Crash
<1> DEFINE Same == pc'[r] = pc[r] /\ msg'[r] = msg[r] /\ run'[r] = run[r]
           Start == /\ pc'[r] = "plan" /\ hour' = hour /\ run'[r].hour = hour
                    /\ run'[r].todo = run'[r].listed
                    /\ r # "escalation" => "email" \in run'[r].channels
<1>1. ASSUME NEW s \in Slots, Step(s)
      PROVE  Step(r) \/ Same
  <2>1. CASE s = r
    BY <1>1, <2>1
  <2>2. CASE s # r
    BY <1>1, <2>2, StepIsOwn
  <2> QED BY <2>1, <2>2
<1>2. ASSUME NEW s \in Slots, NEW channels, NEW listed, StartRun(s, channels, listed),
             s # "escalation" => "email" \in channels
      PROVE  Start \/ Same
  <2>1. CASE s = r
    BY <1>2, <2>1 DEF StartRun, TypeOK
  <2>2. CASE s # r
    BY <1>2, <2>2 DEF StartRun, TypeOK
  <2> QED BY <2>1, <2>2
<1>3. ASSUME StartDaily \/ StartManual \/ StartEscalation
      PROVE  Start \/ Same
  <2> HIDE DEF Start, Same
  <2> QED BY <1>2, <1>3 DEF StartDaily, StartManual, StartEscalation, JobChannels, Slots
<1>4. ASSUME Tick \/ EditWatched \/ EditExpiry \/ EditReminders \/ EditSettings \/ UNCHANGED vars
      PROVE  Same
  BY <1>4 DEF Tick, EditWatched, EditExpiry, EditReminders, EditSettings, Edit, vars
<1> HIDE DEF Start, Same
<1>5. Step(r) \/ Start \/ Same \/ Crash
  BY <1>1, <1>3, <1>4 DEF Next
<1> QED BY <1>5 DEF Start, Same

LEMMA HandKept ==
    ASSUME TypeOK, FoundIsCurrent, [Next]_vars, "expiry" \notin Edits, NEW r \in Slots, HandInv(r)
    PROVE  HandInv(r)'
<1>1. hour \in Nat /\ hour' \in Nat /\ hour' >= hour /\ run[r].hour \in Nat
  <2>1. run[r] \in RunRecords
    BY DEF TypeOK
  <2>2. run[r].hour \in 0 .. MaxHour
    BY <2>1 DEF RunRecords
  <2> QED BY <2>2, HourMovesOn, JobsAssumption
<1>2. notAfter' = notAfter
  BY ExpiryStays
<1>3. ASSUME pc[r] # "idle", run'[r].hour = run[r].hour,
             pc'[r] \notin {"idle", "plan"} =>
               \/ pc[r] # "plan" /\ msg'[r].cert = msg[r].cert /\ msg'[r].key = msg[r].key
               \/ \E c \in Certs : \E p \in Plan(r, c) : msg'[r].cert = c /\ msg'[r].key = p.key
      PROVE  HandInv(r)'
  <2>1. run'[r].hour <= hour'
    BY <1>1, <1>3 DEF HandInv
  <2>2. DayOf(run'[r].hour) = Reference(r)
    BY <1>3 DEF Reference
  <2>3. ASSUME pc'[r] \notin {"idle", "plan"}, msg'[r].key = ThresholdKey(0)
        PROVE  notAfter[msg'[r].cert] = Reference(r)
    BY <1>3, <2>3, ZeroPlan DEF HandInv
  <2>4. Reference(r)' = DayOf(run'[r].hour)
    BY DEF Reference, DayOf
  <2> QED BY <1>2, <2>1, <2>2, <2>3, <2>4 DEF HandInv
<1>4. CASE Step(r)
  <2>1. CASE pc'[r] = "idle"
    BY <2>1 DEF HandInv
  <2>2. CASE pc'[r] # "idle"
    BY <1>3, <1>4, <2>2, RunGoesOn, HandStep
  <2> QED BY <2>1, <2>2
<1>5. CASE pc'[r] = "plan" /\ hour' = hour /\ run'[r].hour = hour
  BY <1>1, <1>5 DEF HandInv
<1>6. CASE pc'[r] = pc[r] /\ msg'[r] = msg[r] /\ run'[r] = run[r]
  <2>1. CASE pc[r] = "idle"
    BY <1>6, <2>1 DEF HandInv
  <2>2. CASE pc[r] # "idle"
    BY <1>3, <1>6, <2>2
  <2> QED BY <2>1, <2>2
<1>7. CASE Crash
  BY <1>7 DEF Crash, HandInv
<1> QED BY <1>4, <1>5, <1>6, <1>7, OneRun

(* A run that goes on keeps its list when, for each certificate on it, what *)
(* shows that it is seen to is still there.                                *)
LEMMA ListGoesOn ==
    ASSUME TypeOK, FoundIsCurrent, [Next]_vars, "expiry" \notin Edits,
           NEW r \in Slots \ {"escalation"}, ListInv(r),
           pc[r] # "idle", run'[r].failures = 0 => run[r].failures = 0,
           run'[r].hour = run[r].hour, run'[r].listed = run[r].listed,
           run'[r].channels = run[r].channels,
           \A c \in WithRecipients :
              notAfter[c] = Reference(r) /\ run'[r].failures = 0 /\ "email" \in run[r].channels =>
                  (c \in run[r].todo => OnItsList(r, c)')
                  /\ (msg[r] = TrialOf(c) /\ "email" \in run[r].due => OnItsList(r, c)')
    PROVE  ListInv(r)'
<1>1. notAfter' = notAfter
  BY ExpiryStays
<1>2. Reference(r)' = Reference(r)
  BY DEF Reference
<1>3. ASSUME run'[r].failures = 0, NEW c \in WithRecipients \intersect run[r].listed,
             notAfter[c] = Reference(r)
      PROVE  OnItsList(r, c)'
  <2>1. OnItsList(r, c) /\ "email" \in run[r].channels
    BY <1>3 DEF ListInv
  <2>2. CASE Settled(TrialOf(c))
    <3>1. log'[TrialOf(c)] = log[TrialOf(c)]
      BY <2>2, LogStep, TrialIsMessage, JobsAssumption
    <3>2. Settled(TrialOf(c))'
      BY <2>2, <3>1 DEF Settled, TrialOf
    <3> QED BY <3>2 DEF OnItsList
  <2> QED BY <1>3, <2>1, <2>2 DEF OnItsList
<1>4. run'[r].failures = 0 => "email" \in run'[r].channels
  BY DEF ListInv
<1> QED BY <1>1, <1>2, <1>3, <1>4 DEF ListInv

(* Taking the next certificate: whoever expires that day is in hand then.  *)
LEMMA PlanKeepsList ==
    ASSUME TypeOK, FoundIsCurrent, [Next]_vars, "expiry" \notin Edits,
           NEW r \in Slots \ {"escalation"}, ListInv(r), PlanCert(r)
    PROVE  ListInv(r)'
<1>1. PICK d \in run[r].todo :
        \/ /\ Plan(r, d) = {}
           /\ run' = [run EXCEPT ![r].todo = @ \ {d}]
        \/ \E p \in Plan(r, d) :
           /\ run' = [run EXCEPT ![r].todo = @ \ {d}, ![r].due = DueChannels(r, d)]
           /\ msg' = [msg EXCEPT ![r] = [cert |-> d, channel |-> "email", key |-> p.key]]
  BY PlanChooses
<1>2. pc[r] = "plan" /\ d \in Certs /\ msg[r] = Nothing /\ run[r] \in RunRecords
  BY DEF PlanCert, TypeOK, RunRecords
<1>3. /\ run'[r].hour = run[r].hour /\ run'[r].listed = run[r].listed
      /\ run'[r].channels = run[r].channels /\ run'[r].failures = run[r].failures
      /\ run'[r].todo = run[r].todo \ {d}
  BY <1>1, <1>2 DEF TypeOK, RunRecords
<1>4. ASSUME NEW c \in WithRecipients, notAfter[c] = Reference(r), "email" \in run[r].channels,
             c \in run[r].todo
      PROVE  OnItsList(r, c)'
  <2>1. CASE c # d
    BY <1>3, <1>4, <2>1 DEF OnItsList
  <2>2. CASE c = d
    <3>1. PICK p \in Plan(r, c) :
            /\ run' = [run EXCEPT ![r].todo = @ \ {d}, ![r].due = DueChannels(r, d)]
            /\ msg' = [msg EXCEPT ![r] = [cert |-> d, channel |-> "email", key |-> p.key]]
      BY <1>1, <1>2, <1>4, <2>2, ExpiryPlan
    <3>2. p.key = ThresholdKey(0)
      BY <1>2, <1>4, <2>2, <3>1, ExpiryPlan
    <3>3. "email" \in DueChannels(r, d)
      BY <1>4 DEF DueChannels
    <3>4. msg'[r] = TrialOf(c) /\ run'[r].due = DueChannels(r, d)
      BY <1>2, <2>2, <3>1, <3>2 DEF TypeOK, RunRecords, TrialOf
    <3> QED BY <3>3, <3>4 DEF OnItsList, TrialOf
  <2> QED BY <2>1, <2>2
<1>5. \A c \in WithRecipients : msg[r] # TrialOf(c)
  BY <1>2, TrialIsMessage, JobsAssumption
<1> QED BY <1>2, <1>3, <1>4, <1>5, ListGoesOn

(* Going on from a channel: the email of the day is settled by then.       *)
LEMMA ChannelKeepsList ==
    ASSUME TypeOK, FoundIsCurrent, [Next]_vars, "expiry" \notin Edits,
           NEW r \in Slots \ {"escalation"}, ListInv(r), pc[r] # "idle",
           run'[r].failures = 0 => run[r].failures = 0,
           run'[r].hour = run[r].hour, run'[r].listed = run[r].listed,
           run'[r].channels = run[r].channels, run'[r].todo = run[r].todo,
           run'[r].failures = 0 =>
              \A c \in WithRecipients :
                 msg[r] = TrialOf(c) /\ "email" \in run[r].due => log'[TrialOf(c)] \in {"sent", "skipped"}
    PROVE  ListInv(r)'
BY ListGoesOn DEF OnItsList, Settled, TrialOf

LEMMA OwnStepKeepsList ==
    ASSUME EmailConfigured, TypeOK, FoundIsCurrent, [Next]_vars, "expiry" \notin Edits,
           NEW r \in Slots \ {"escalation"}, ListInv(r), Step(r)
    PROVE  ListInv(r)'
<1>0. run[r] \in RunRecords /\ run \in [Slots -> RunRecords] /\ run[r].failures \in Nat
  BY DEF TypeOK, RunRecords
<1>1. CASE PlanCert(r)
  BY <1>1, PlanKeepsList
<1>2. CASE SkipChannel(r)
  <2>1. pc[r] # "idle" /\ run' = run /\ log' = log /\ (~ Wanted(r, msg[r]) \/ Settled(msg[r]))
    BY <1>2 DEF SkipChannel
  <2>2. ASSUME NEW c \in WithRecipients, msg[r] = TrialOf(c), "email" \in run[r].due
        PROVE  log'[TrialOf(c)] \in {"sent", "skipped"}
    BY <2>1, <2>2 DEF Wanted, Settled, TrialOf
  <2> QED BY <2>1, <2>2, ChannelKeepsList
<1>3. CASE BeginSend(r) \/ Accept(r) \/ RetryCard(r)
  <2>1. pc[r] # "idle" /\ UNCHANGED <<log, msg, run>>
    BY <1>3 DEF BeginSend, Accept, RetryCard, Unanswered
  <2>2. \A c : OnItsList(r, c)' = OnItsList(r, c)
    BY <2>1 DEF OnItsList, Settled, TrialOf
  <2> QED BY <2>1, <2>2, ListGoesOn DEF OnItsList
<1>4. ASSUME NextCert(r)
      PROVE  ListInv(r)'
  <2>1. run'[r].failures = run[r].failures + 1
    BY <1>0, <1>4 DEF NextCert, RunRecords
  <2> QED BY <1>0, <2>1 DEF ListInv
<1>5. ASSUME InFlight(r), NEW status \in {"sent", "error"}, Record(r, status), ~ Collides(r)
      PROVE  ListInv(r)'
  <2> DEFINE n == IF status = "error" THEN run[r].failures + 1 ELSE run[r].failures
             new == [run[r] EXCEPT !.failures = n]
  <2>1. run' = [run EXCEPT ![r] = new]
    BY <1>5 DEF Record
  <2>2. /\ new.hour = run[r].hour /\ new.channels = run[r].channels /\ new.listed = run[r].listed
        /\ new.failures = n /\ new.todo = run[r].todo
    BY <1>0 DEF RunRecords
  <2> HIDE DEF new
  <2>3. run'[r] = new
    BY <1>0, <2>1
  <2>4. new.failures = 0 => run[r].failures = 0 /\ status = "sent"
    BY <1>0, <2>2
  <2>5. status = "sent" => log'[msg[r]] = "sent"
    BY <1>5, RecordLog
  <2> QED BY <1>5, <2>2, <2>3, <2>4, <2>5, ChannelKeepsList DEF InFlight
<1>6. CASE AnswerOk(r) \/ AnswerError(r)
  <2>1. InFlight(r) /\ \E status \in {"sent", "error"} : Record(r, status)
    BY <1>6 DEF AnswerOk, AnswerError, Unanswered, InFlight
  <2>2. CASE Collides(r)
    BY <1>4, <2>1, <2>2 DEF Record
  <2> QED BY <1>5, <2>1, <2>2
<1>7. CASE AnswerRaise(r)
  BY <1>4, <1>7 DEF AnswerRaise
<1>8. CASE Finish(r) \/ Abort(r)
  BY <1>8 DEF Finish, Abort, ListInv, TypeOK
<1> QED BY <1>1, <1>2, <1>3, <1>6, <1>7, <1>8 DEF Step

(* A provider takes the expiry-day email: somebody has heard about it today, *)
(* or it is the email of a day that is over.                               *)
LEMMA NewlyHeard ==
    ASSUME TypeOK, FoundIsCurrent, HeardNext, "expiry" \notin Edits,
           NEW r \in Slots, HandInv(r), NEW c \in Certs,
           pc[r] # "accepted", pc'[r] = "accepted", msg'[r] = TrialOf(c)
    PROVE  HeardToday(c)'
<1>1. [Next]_vars /\ <<msg[r].cert, DayOf(hour)>> \in heard'
  BY DEF HeardNext
<1>2. Accept(r)
  <2>1. Step(r)
    BY <1>1, OneRun DEF Crash
  <2>2. CASE PlanCert(r) \/ SkipChannel(r) \/ BeginSend(r) \/ RetryCard(r) \/ Finish(r) \/ Abort(r)
    BY <2>2 DEF PlanCert, SkipChannel, NextChannel, BeginSend, RetryCard, Finish, Abort, TypeOK
  <2>3. CASE AnswerOk(r) \/ AnswerError(r) \/ AnswerRaise(r)
    BY <2>3 DEF AnswerOk, AnswerError, AnswerRaise, Record, NextChannel, NextCert, TypeOK
  <2> QED BY <2>1, <2>2, <2>3 DEF Step
<1>3. pc[r] = "sending" /\ msg[r] = TrialOf(c) /\ hour' = hour /\ notAfter' = notAfter
  BY <1>2 DEF Accept, dataVars
<1>4. notAfter[c] = Reference(r) /\ run[r].hour <= hour
  BY <1>3 DEF HandInv, TrialOf
<1>5. Reference(r) <= DayOf(hour)
  BY <1>4, DayOrder DEF TypeOK, RunRecords, Reference
<1>6. msg[r].cert = c
  BY <1>3 DEF TrialOf
<1> QED BY <1>1, <1>3, <1>4, <1>5, <1>6 DEF HeardToday, DayOf

LEMMA HeardInvInductive ==
    ASSUME EmailConfigured, TypeOK, FoundIsCurrent, "expiry" \notin Edits, HeardInv,
           [HeardNext]_<<vars, heard>>
    PROVE  HeardInv'
<1>1. [Next]_vars /\ heard \subseteq heard'
  BY DEF HeardNext
<1>2. ASSUME NEW r \in Slots
      PROVE  HandInv(r)'
  BY <1>1, HandKept DEF HeardInv
<1>3. ASSUME NEW r \in Slots \ {"escalation"}
      PROVE  ListInv(r)'
  <2>1. ListInv(r)
    BY DEF HeardInv
  <2>2. CASE Step(r)
    BY <1>1, <2>1, <2>2, OwnStepKeepsList
  <2>3. CASE /\ run'[r].todo = run'[r].listed
             /\ r # "escalation" => "email" \in run'[r].channels
    BY <2>3 DEF ListInv, OnItsList
  <2>4. CASE pc'[r] = pc[r] /\ msg'[r] = msg[r] /\ run'[r] = run[r]
    <3>1. CASE pc[r] = "idle"
      BY <2>4, <3>1 DEF ListInv
    <3>2. CASE pc[r] # "idle"
      BY <1>1, <2>1, <2>4, <3>2, ListGoesOn DEF OnItsList
    <3> QED BY <3>1, <3>2
  <2>5. CASE Crash
    BY <2>5 DEF Crash, ListInv
  <2> QED BY <1>1, <2>2, <2>3, <2>4, <2>5, OneRun
<1>4. ASSUME NEW c \in Certs, HeardToday(c)
      PROVE  HeardToday(c)'
  BY <1>1, <1>4, HeardStays
<1>5. ASSUME NEW c \in Certs
      PROVE  /\ log'[TrialOf(c)] # "skipped"
             /\ log'[TrialOf(c)] = "sent" => HeardToday(c)'
  BY <1>1, <1>4, TrialRow DEF HeardInv
<1>6. ASSUME NEW c \in Certs, NEW r \in Slots, pc'[r] = "accepted", msg'[r] = TrialOf(c)
      PROVE  HeardToday(c)'
  <2>1. CASE pc[r] = "accepted"
    <3>1. msg'[r] = msg[r]
      <4>1. CASE PlanCert(r) \/ SkipChannel(r) \/ BeginSend(r) \/ Accept(r) \/ Finish(r) \/ Abort(r)
        BY <1>6, <2>1, <4>1 DEF PlanCert, SkipChannel, BeginSend, Accept, Finish, Abort
      <4>2. CASE RetryCard(r)
        BY <4>2 DEF RetryCard
      <4>3. CASE AnswerOk(r) \/ AnswerError(r) \/ AnswerRaise(r)
        BY <1>6, <4>3 DEF AnswerOk, AnswerError, AnswerRaise, Record, NextChannel, NextCert, TypeOK
      <4> QED BY <1>1, <1>6, <4>1, <4>2, <4>3, OneRun DEF Step, Crash
    <3> QED BY <1>4, <1>6, <2>1, <3>1 DEF HeardInv
  <2>2. CASE pc[r] # "accepted"
    <3>1. HeardNext /\ HandInv(r)
      BY <1>6, <2>2 DEF vars, HeardInv
    <3> QED BY <1>6, <2>2, <3>1, NewlyHeard
  <2> QED BY <2>1, <2>2
<1>7. \A c \in Certs :
          /\ log'[TrialOf(c)] # "skipped"
          /\ log'[TrialOf(c)] = "sent" => HeardToday(c)'
          /\ \A r \in Slots : pc'[r] = "accepted" /\ msg'[r] = TrialOf(c) => HeardToday(c)'
  BY <1>5, <1>6
<1> QED BY <1>2, <1>3, <1>7 DEF HeardInv, TrialOf

(* The end of a run is where its list is empty.                            *)
LEMMA EndsAtFinish ==
    ASSUME Uninterrupted, TypeOK, FoundIsCurrent, [Next]_vars, NEW r \in Slots,
           pc[r] # "idle", pc'[r] = "idle"
    PROVE  pc[r] = "plan" /\ run[r].todo = {}
<1>1. Step(r)
  BY OneRun DEF Crash, Uninterrupted
<1>2. CASE PlanCert(r) \/ SkipChannel(r) \/ BeginSend(r) \/ Accept(r) \/ RetryCard(r)
  BY <1>2 DEF PlanCert, SkipChannel, NextChannel, BeginSend, Accept, RetryCard, TypeOK
<1>3. CASE AnswerOk(r) \/ AnswerError(r) \/ AnswerRaise(r)
  BY <1>3 DEF AnswerOk, AnswerError, AnswerRaise, Record, NextChannel, NextCert, TypeOK
<1>4. CASE Finish(r) \/ Abort(r)
  BY <1>4 DEF Finish, Abort, Uninterrupted
<1> QED BY <1>1, <1>2, <1>3, <1>4 DEF Step

(* Without moved expiry days, when a daily run or one by hand ends and has  *)
(* counted no failure, somebody has heard that day about every record on    *)
(* its list that expires that day (plan_for, run_daily_job): whatever is    *)
(* muted, whichever reminders and settings are edited meanwhile, and        *)
(* however runs overlap and messages are refused or lost.                  *)
THEOREM NoExpiryDayIsSilent ==
    EmailConfigured /\ Uninterrupted /\ "expiry" \notin Edits => (HeardSpec => ExpiryDayIsHeard)
<1> SUFFICES ASSUME EmailConfigured, Uninterrupted, "expiry" \notin Edits
             PROVE  HeardSpec => ExpiryDayIsHeard
  OBVIOUS
<1>1. HeardInit => Init /\ HeardInv
  <2> SUFFICES ASSUME Init
               PROVE  HeardInv
    BY DEF HeardInit, MCInit
  <2>1. \A c \in Certs : log[TrialOf(c)] = "none"
    BY TrialIsMessage DEF Init
  <2> QED BY <2>1 DEF Init, HeardInv, HandInv, ListInv
<1>2. [HeardNext]_<<vars, heard>> => [Next]_vars
  BY DEF HeardNext
<1>3. TypeOK /\ LogInv /\ HeardInv /\ [HeardNext]_<<vars, heard>> => HeardInv'
  BY HeardInvInductive DEF LogInv
<1>4. TypeOK /\ LogInv /\ HeardInv /\ [HeardNext]_<<vars, heard>> =>
        [\A r \in Slots \ {"escalation"}, c \in WithRecipients :
            /\ pc[r] # "idle" /\ pc'[r] = "idle" /\ run[r].failures = 0
            /\ Reference(r) = DayOf(hour)
            /\ c \in run[r].listed \intersect watched
            /\ notAfter[c] = DayOf(hour)
            => <<c, DayOf(hour)>> \in heard]_<<vars, heard>>
  <2> SUFFICES ASSUME TypeOK, FoundIsCurrent, HeardInv, [HeardNext]_<<vars, heard>>,
                      NEW r \in Slots \ {"escalation"}, NEW c \in WithRecipients,
                      pc[r] # "idle", pc'[r] = "idle", run[r].failures = 0,
                      Reference(r) = DayOf(hour), c \in run[r].listed, notAfter[c] = DayOf(hour)
               PROVE  <<c, DayOf(hour)>> \in heard
    BY DEF LogInv
  <2>1. pc[r] = "plan" /\ run[r].todo = {} /\ msg[r] = Nothing /\ c \in Certs
    BY <1>2, EndsAtFinish, JobsAssumption DEF TypeOK
  <2>2. OnItsList(r, c)
    BY DEF HeardInv, ListInv
  <2>3. Settled(TrialOf(c))
    BY <2>1, <2>2, TrialIsMessage, JobsAssumption DEF OnItsList
  <2>4. log[TrialOf(c)] = "sent"
    BY <2>1, <2>3 DEF HeardInv, Settled
  <2> QED BY <2>1, <2>4 DEF HeardInv, HeardToday
<1>5. HeardSpec => Spec
  BY <1>1, <1>2, PTL DEF HeardSpec, Spec
<1>6. HeardSpec => [](TypeOK /\ LogInv)
  BY <1>5, TypeCorrect, LogIsConsistent, PTL
<1> QED BY <1>1, <1>3, <1>4, <1>6, PTL DEF HeardSpec, ExpiryDayIsHeard
=============================================================================
