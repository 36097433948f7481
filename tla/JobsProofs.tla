------------------------------ MODULE JobsProofs ------------------------------
(***************************************************************************)
(* Proofs about Jobs, for every number of certificates, overlapping manual *)
(* runs, reminder lists, intervals, faults and edits.                      *)
(***************************************************************************)
EXTENDS JobsProperties, SequenceTheorems, TLAPS

(* What plan_for decides on is always a key the log knows. *)
LEMMA PlanIsTyped ==
    ASSUME TypeOK, NEW r \in Slots, NEW c \in Certs, NEW p \in Plan(r, c)
    PROVE  p.key \in Keys
<1>1. thresholds[c] \union {0} \subseteq 0 .. MaxThreshold
  <2>1. thresholds[c] \in SUBSET (1 .. MaxThreshold)
    BY JobsAssumption DEF TypeOK
  <2>2. MaxThreshold \in Nat
    BY JobsAssumption
  <2> QED BY <2>1, <2>2
<1>2. run[r].hour \in 0 .. MaxHour /\ run[r].every \in Intervals \union {0}
  BY DEF TypeOK, RunRecords
<1>3. CASE r = "escalation"
  BY <1>2, <1>3 DEF Plan, Keys
<1>4. CASE r # "escalation" /\ notAfter[c] - Reference(r) < 0
  <2>1. p.key = ExpiredKey(DayOf(run[r].hour))
    BY <1>4 DEF Plan, PlanFor, Reference
  <2> QED BY <2>1, <1>2 DEF Keys
<1>5. CASE r # "escalation" /\ ~ notAfter[c] - Reference(r) < 0
  <2>1. PICK t \in thresholds[c] \union {0} : p.key = ThresholdKey(t)
    BY <1>5 DEF Plan, PlanFor, Nearest, Crossed
  <2> QED BY <2>1, <1>1 DEF Keys
<1> QED BY <1>3, <1>4, <1>5

(* The empty run is a run record, and moving to another channel keeps a    *)
(* message a message.                                                      *)
LEMMA RecordsAreTyped ==
    ASSUME TypeOK, NEW r \in Slots
    PROVE  /\ run[r] \in RunRecords
           /\ NoRun \in RunRecords
           /\ msg[r] # Nothing => msg[r] \in Messages
           /\ \A ch \in Channels : msg[r] # Nothing => [msg[r] EXCEPT !.channel = ch] \in Messages
<1>1. run[r] \in RunRecords
  BY DEF TypeOK
<1>2. NoRun \in RunRecords
  BY JobsAssumption DEF NoRun, RunRecords
<1>3. msg[r] # Nothing => msg[r] \in Messages
  BY DEF TypeOK
<1>4. ASSUME NEW ch \in Channels, msg[r] # Nothing
      PROVE  [msg[r] EXCEPT !.channel = ch] \in Messages
  BY <1>3, <1>4 DEF Messages
<1> QED BY <1>1, <1>2, <1>3, <1>4

(* Starting a run (run_daily_job, run_expiry_escalation) keeps the types.  *)
LEMMA StartTypeOK ==
    ASSUME TypeOK, NEW r \in Slots, NEW channels \in SUBSET Channels,
           NEW listed \in SUBSET Certs, StartRun(r, channels, listed)
    PROVE  TypeOK'
<1> USE DEF StartRun, dataVars
<1>1. Len(jobRuns) \in 0 .. MaxRuns /\ Len(jobRuns) + 1 \in 0 .. MaxRuns
  BY JobsAssumption, LenProperties DEF TypeOK
<1>2. /\ jobRuns' \in Seq([slot : Slots, started : 0 .. MaxHour, finished : BOOLEAN, ok : BOOLEAN])
      /\ Len(jobRuns') = Len(jobRuns) + 1
  BY DEF TypeOK
<1>3. run' \in [Slots -> RunRecords]
  <2>1. settings.every \in Intervals
    BY DEF TypeOK
  <2> QED BY <1>1, <2>1 DEF TypeOK, RunRecords
<1>4. \A s \in Slots : pc'[s] # "idle" => run'[s].id \in DOMAIN jobRuns'
  <2>1. DOMAIN jobRuns' = 1 .. (Len(jobRuns) + 1) /\ DOMAIN jobRuns = 1 .. Len(jobRuns)
    BY <1>2, LenProperties DEF TypeOK
  <2> QED BY <1>1, <2>1 DEF TypeOK
<1> QED BY <1>1, <1>2, <1>3, <1>4 DEF TypeOK

(* The initial states are typed.                                           *)
LEMMA InitTypeOK == Init => TypeOK
<1> SUFFICES ASSUME Init PROVE TypeOK
  OBVIOUS
<1>1. NoRun \in RunRecords
  BY JobsAssumption DEF NoRun, RunRecords
<1>2. hour \in 0 .. MaxHour /\ Len(jobRuns) <= MaxRuns
  BY JobsAssumption DEF Init
<1>3. jobRuns \in Seq([slot : Slots, started : 0 .. MaxHour, finished : BOOLEAN, ok : BOOLEAN])
  BY DEF Init
<1>4. tries \in [Slots -> 0 .. MaxTries]
  BY JobsAssumption DEF Init
<1> QED BY <1>1, <1>2, <1>3, <1>4 DEF Init, TypeOK, Statuses

(* A run that changes what it remembers, but not which row it writes. *)
LEMMA RunTypeOK ==
    ASSUME TypeOK, NEW r \in Slots, NEW new \in RunRecords, new.id = run[r].id,
           run' = [run EXCEPT ![r] = new]
    PROVE  run' \in [Slots -> RunRecords] /\ \A s \in Slots : run'[s].id = run[s].id
BY DEF TypeOK

(* Taking a certificate off the list leaves a run record with its row.     *)
LEMMA TodoTyped ==
    ASSUME NEW old \in RunRecords, NEW c, NEW due \in SUBSET Channels
    PROVE  /\ [old EXCEPT !.todo = @ \ {c}] \in RunRecords
           /\ [old EXCEPT !.todo = @ \ {c}].id = old.id
           /\ [old EXCEPT !.todo = @ \ {c}, !.due = due] \in RunRecords
           /\ [old EXCEPT !.todo = @ \ {c}, !.due = due].id = old.id
BY DEF RunRecords

(* Counting a failure leaves a run record with its row.                    *)
LEMMA FailuresTyped ==
    ASSUME NEW old \in RunRecords, NEW n \in Nat
    PROVE  /\ [old EXCEPT !.failures = n] \in RunRecords
           /\ [old EXCEPT !.failures = n].id = old.id
BY DEF RunRecords

(* Moving on to the next channel or the next certificate. *)
LEMMA NextChannelTypeOK ==
    ASSUME TypeOK, NEW r \in Slots, pc[r] \notin {"idle", "plan"}, NextChannel(r)
    PROVE  /\ pc' \in [Slots -> {"idle", "plan", "check", "sending", "accepted"}]
           /\ msg' \in [Slots -> Messages \union {Nothing}]
           /\ \A s \in Slots : pc'[s] \in {"idle", "plan"} <=> msg'[s] = Nothing
           /\ \A s \in Slots : pc'[s] = "idle" <=> pc[s] = "idle"
<1>1. msg[r] \in Messages /\ msg[r] # Nothing
  BY DEF TypeOK
<1>2. [msg[r] EXCEPT !.channel = "teams"] \in Messages
  BY <1>1, RecordsAreTyped DEF Channels
<1>3. Nothing \notin Messages
  BY JobsAssumption
<1>4. CASE msg[r].channel = "email"
  <2> DEFINE new == [msg[r] EXCEPT !.channel = "teams"]
  <2>1. msg' = [msg EXCEPT ![r] = new] /\ pc' = [pc EXCEPT ![r] = "check"]
    BY <1>4 DEF NextChannel
  <2>2. new \in Messages /\ new # Nothing
    BY <1>2, <1>3
  <2> HIDE DEF new
  <2> QED BY <2>1, <2>2 DEF TypeOK
<1>5. CASE msg[r].channel # "email"
  BY <1>1, <1>3, <1>5 DEF NextChannel, TypeOK
<1> QED BY <1>4, <1>5

(* Leaving notify_expiry by an exception keeps the types.                  *)
LEMMA NextCertTypeOK ==
    ASSUME TypeOK, NEW r \in Slots, pc[r] \notin {"idle", "plan"}, NextCert(r)
    PROVE  /\ pc' \in [Slots -> {"idle", "plan", "check", "sending", "accepted"}]
           /\ msg' \in [Slots -> Messages \union {Nothing}]
           /\ run' \in [Slots -> RunRecords]
           /\ \A s \in Slots : pc'[s] \in {"idle", "plan"} <=> msg'[s] = Nothing
           /\ \A s \in Slots : pc'[s] = "idle" <=> pc[s] = "idle"
           /\ \A s \in Slots : run'[s].id = run[s].id
<1>1. run' \in [Slots -> RunRecords] /\ \A s \in Slots : run'[s].id = run[s].id
  <2> DEFINE new == [run[r] EXCEPT !.failures = run[r].failures + 1]
  <2>1. run[r] \in RunRecords
    BY DEF TypeOK
  <2>2. run[r].failures + 1 \in Nat
    BY <2>1 DEF RunRecords
  <2>3. new \in RunRecords /\ new.id = run[r].id
    BY <2>1, <2>2, FailuresTyped
  <2>4. run' = [run EXCEPT ![r] = new]
    BY DEF NextCert
  <2> QED BY <2>3, <2>4, RunTypeOK
<1> QED BY <1>1 DEF NextCert, TypeOK

(* Planning one certificate keeps the types.                               *)
LEMMA PlanTypeOK ==
    ASSUME TypeOK, NEW r \in Slots, PlanCert(r)
    PROVE  TypeOK'
<1> USE DEF PlanCert, dataVars
<1>1. PICK c \in run[r].todo :
        \/ /\ Plan(r, c) = {}
           /\ run' = [run EXCEPT ![r].todo = @ \ {c}]
           /\ UNCHANGED <<log, pc, msg>>
        \/ \E p \in Plan(r, c) :
           /\ log' = MarkSuperseded(c, p.superseded, run[r].channels)
           /\ run' = [run EXCEPT ![r].todo = @ \ {c}, ![r].due = DueChannels(r, c)]
           /\ msg' = [msg EXCEPT ![r] = [cert |-> c, channel |-> "email", key |-> p.key]]
           /\ pc' = [pc EXCEPT ![r] = "check"]
  OBVIOUS
<1>2. c \in Certs
  BY DEF TypeOK, RunRecords
<1>3. CASE Plan(r, c) = {} /\ run' = [run EXCEPT ![r].todo = @ \ {c}] /\ UNCHANGED <<log, pc, msg>>
  <2>1. run' \in [Slots -> RunRecords] /\ \A s \in Slots : run'[s].id = run[s].id
    <3> DEFINE new == [run[r] EXCEPT !.todo = run[r].todo \ {c}]
    <3>1. new \in RunRecords /\ new.id = run[r].id
      BY TodoTyped, RecordsAreTyped
    <3>2. run' = [run EXCEPT ![r] = new]
      BY <1>3
    <3> QED BY <3>1, <3>2, RunTypeOK
  <2> QED BY <2>1, <1>3 DEF TypeOK
<1>4. CASE \E p \in Plan(r, c) :
           /\ log' = MarkSuperseded(c, p.superseded, run[r].channels)
           /\ run' = [run EXCEPT ![r].todo = @ \ {c}, ![r].due = DueChannels(r, c)]
           /\ msg' = [msg EXCEPT ![r] = [cert |-> c, channel |-> "email", key |-> p.key]]
           /\ pc' = [pc EXCEPT ![r] = "check"]
  <2>1. PICK p \in Plan(r, c) :
           /\ log' = MarkSuperseded(c, p.superseded, run[r].channels)
           /\ run' = [run EXCEPT ![r].todo = @ \ {c}, ![r].due = DueChannels(r, c)]
           /\ msg' = [msg EXCEPT ![r] = [cert |-> c, channel |-> "email", key |-> p.key]]
           /\ pc' = [pc EXCEPT ![r] = "check"]
    BY <1>4
  <2>2. [cert |-> c, channel |-> "email", key |-> p.key] \in Messages
    BY <1>2, PlanIsTyped DEF Messages, Channels
  <2>3. log' \in [Messages -> Statuses]
    BY <2>1 DEF TypeOK, MarkSuperseded, Statuses
  <2>4. DueChannels(r, c) \subseteq Channels
    BY DEF TypeOK, RunRecords, DueChannels
  <2>5. run' \in [Slots -> RunRecords] /\ \A s \in Slots : run'[s].id = run[s].id
    <3> DEFINE new == [run[r] EXCEPT !.todo = run[r].todo \ {c}, !.due = DueChannels(r, c)]
    <3>1. run[r] \in RunRecords
      BY RecordsAreTyped
    <3>2. new \in RunRecords /\ new.id = run[r].id
      BY <2>4, <3>1 DEF RunRecords
    <3>3. run' = [run EXCEPT ![r] = new]
      BY <2>1
    <3> QED BY <3>2, <3>3, RunTypeOK
  <2>6. Nothing \notin Messages
    BY JobsAssumption
  <2> QED BY <2>1, <2>2, <2>3, <2>5, <2>6 DEF TypeOK
<1> QED BY <1>1, <1>3, <1>4

(* Recording an answer (_upsert_log) keeps the types.                      *)
LEMMA RecordTypeOK ==
    ASSUME TypeOK, NEW r \in Slots, NEW status \in {"sent", "error"},
           InFlight(r), Record(r, status)
    PROVE  TypeOK'
<1> USE DEF Record, dataVars
<1>1. pc[r] \notin {"idle", "plan"} /\ msg[r] \in Messages
  BY DEF InFlight, TypeOK
<1>2. tries' \in [Slots -> 0 .. MaxTries] /\ found' \in [Slots -> {"none", "error"}]
  BY JobsAssumption DEF TypeOK
<1>3. CASE Collides(r) /\ NextCert(r) /\ UNCHANGED log
  BY <1>1, <1>2, <1>3, NextCertTypeOK DEF TypeOK
<1>4. CASE /\ UpsertLog(r, status) /\ NextChannel(r)
           /\ run' = [run EXCEPT ![r].failures = IF status = "error" THEN @ + 1 ELSE @]
  <2>1. log' \in [Messages -> Statuses]
    BY <1>1, <1>4 DEF UpsertLog, TypeOK, Statuses
  <2>2. run' \in [Slots -> RunRecords] /\ \A s \in Slots : run'[s].id = run[s].id
    <3> DEFINE n == IF status = "error" THEN run[r].failures + 1 ELSE run[r].failures
               new == [run[r] EXCEPT !.failures = n]
    <3>1. n \in Nat
      BY RecordsAreTyped DEF RunRecords
    <3>2. new \in RunRecords /\ new.id = run[r].id
      BY <3>1, FailuresTyped, RecordsAreTyped
    <3>3. run' = [run EXCEPT ![r] = new]
      BY <1>4
    <3> QED BY <3>2, <3>3, RunTypeOK
  <2> QED BY <1>1, <1>2, <1>4, <2>1, <2>2, NextChannelTypeOK DEF TypeOK
<1> QED BY <1>3, <1>4

(* Completing the job_run row keeps the types.                             *)
LEMMA FinishTypeOK ==
    ASSUME TypeOK, NEW r \in Slots, Finish(r)
    PROVE  TypeOK'
<1> USE DEF Finish, dataVars
<1> DEFINE Row == [slot : Slots, started : 0 .. MaxHour, finished : BOOLEAN, ok : BOOLEAN]
           i == run[r].id
           row == [jobRuns[i] EXCEPT !.finished = TRUE, !.ok = (run[r].failures = 0)]
<1>1. i \in 1 .. Len(jobRuns) /\ jobRuns \in Seq(Row)
  BY LenProperties DEF TypeOK
<1>2. row \in Row
  <2>1. jobRuns[i] \in Row
    BY <1>1, ElementOfSeq
  <2> QED BY <2>1
<1>3. jobRuns' = [jobRuns EXCEPT ![i] = row]
  OBVIOUS
<1> HIDE DEF row, Row, i
<1>4. [jobRuns EXCEPT ![i] = row] \in Seq(Row) /\ Len([jobRuns EXCEPT ![i] = row]) = Len(jobRuns)
  BY <1>1, <1>2, ExceptSeq
<1> USE DEF row, Row, i
<1>5. DOMAIN jobRuns' = DOMAIN jobRuns
  BY <1>3
<1>6. run' \in [Slots -> RunRecords]
  BY RecordsAreTyped DEF TypeOK
<1> QED BY <1>3, <1>4, <1>5, <1>6 DEF TypeOK

(* TypeOK is inductive.                                                    *)
LEMMA NextTypeOK == TypeOK /\ [Next]_vars => TypeOK'
<1> SUFFICES ASSUME TypeOK, [Next]_vars
             PROVE  TypeOK'
  OBVIOUS
<1>1. CASE StartDaily
  BY <1>1, StartTypeOK DEF StartDaily, JobChannels, Channels, Slots, TypeOK
<1>2. CASE StartManual
  BY <1>2, StartTypeOK DEF StartManual, JobChannels, Channels, Slots, TypeOK
<1>3. CASE StartEscalation
  <2> DEFINE listed == IF settings.every # 0 /\ settings.webhook
                       THEN {c \in watched : notAfter[c] < DayOf(hour)} ELSE {}
  <2>1. listed \in SUBSET Certs
    BY DEF TypeOK
  <2>2. StartRun("escalation", {"teams"}, listed)
    BY <1>3 DEF StartEscalation
  <2> HIDE DEF listed
  <2> QED BY <2>1, <2>2, StartTypeOK DEF Channels, Slots
<1>4. ASSUME NEW r \in Slots, Step(r)
      PROVE  TypeOK'
  <2>1. CASE PlanCert(r)
    BY <2>1, PlanTypeOK
  <2>2. CASE SkipChannel(r)
    BY <2>2, NextChannelTypeOK DEF SkipChannel, dataVars, TypeOK
  <2>3. CASE BeginSend(r)
    <3>1. log[msg[r]] \in {"none", "error"}
      BY <2>3, RecordsAreTyped DEF BeginSend, Settled, TypeOK, Statuses
    <3>2. 1 \in 0 .. MaxTries
      BY JobsAssumption
    <3> QED BY <2>3, <3>1, <3>2 DEF BeginSend, dataVars, TypeOK
  <2>4. CASE Accept(r)
    <3>1. msg[r] \in Messages
      BY <2>4 DEF Accept, TypeOK
    <3> QED BY <2>4, <3>1 DEF Accept, dataVars, TypeOK
  <2>5. CASE RetryCard(r)
    <3>1. tries[r] + 1 \in 0 .. MaxTries
      BY <2>5, JobsAssumption DEF RetryCard, TypeOK
    <3> QED BY <2>5, <3>1 DEF RetryCard, Unanswered, dataVars, TypeOK
  <2>6. CASE AnswerOk(r)
    BY <2>6, RecordTypeOK DEF AnswerOk, InFlight
  <2>7. CASE AnswerError(r)
    BY <2>7, RecordTypeOK DEF AnswerError, Unanswered, InFlight
  <2>8. CASE AnswerRaise(r)
    <3>1. tries' \in [Slots -> 0 .. MaxTries] /\ found' \in [Slots -> {"none", "error"}]
      BY <2>8, JobsAssumption DEF AnswerRaise, TypeOK
    <3> QED BY <2>8, <3>1, NextCertTypeOK DEF AnswerRaise, InFlight, dataVars, TypeOK
  <2>9. CASE Finish(r)
    BY <2>9, FinishTypeOK
  <2>10. CASE Abort(r)
    BY <2>10, RecordsAreTyped DEF Abort, dataVars, TypeOK
  <2> QED BY <1>4, <2>1, <2>2, <2>3, <2>4, <2>5, <2>6, <2>7, <2>8, <2>9, <2>10 DEF Step
<1>5. CASE Tick
  BY <1>5, JobsAssumption DEF Tick, dataVars, TypeOK
<1>6. CASE Crash
  <2>1. NoRun \in RunRecords /\ 0 \in 0 .. MaxTries
    BY JobsAssumption DEF NoRun, RunRecords
  <2> QED BY <1>6, <2>1 DEF Crash, dataVars, TypeOK
<1>7. CASE EditWatched
  BY <1>7 DEF EditWatched, Edit, TypeOK
<1>8. CASE EditExpiry
  BY <1>8 DEF EditExpiry, Edit, TypeOK
<1>9. CASE EditReminders
  BY <1>9 DEF EditReminders, Edit, TypeOK
<1>10. CASE EditSettings
  BY <1>10 DEF EditSettings, Edit, TypeOK
<1>11. CASE UNCHANGED vars
  BY <1>11 DEF vars, dataVars, TypeOK
<1> QED BY <1>1, <1>2, <1>3, <1>4, <1>5, <1>6, <1>7, <1>8, <1>9, <1>10, <1>11 DEF Next

(* The variables, the runs and the rows keep their types in every execution. *)
THEOREM TypeCorrect == Spec => []TypeOK
<1> QED BY InitTypeOK, NextTypeOK, PTL DEF Spec

-----------------------------------------------------------------------------
(* The log.  A row that a run read as an error may have been settled since, *)
(* by an overlapping run, but only as sent: mark_superseded leaves rows     *)
(* alone, and nothing goes back to "none".                                  *)
FoundIsCurrent ==
    \A r \in Slots : InFlight(r) /\ found[r] = "error" => log[msg[r]] \in {"error", "sent"}

AcceptedWasReceived == \A r \in Slots : pc[r] = "accepted" => copies[msg[r]] > 0

LogInv == FoundIsCurrent /\ AcceptedWasReceived /\ SentWasReceived

(* What recording an answer does to the row of the message and to no other. *)
LEMMA RecordLog ==
    ASSUME TypeOK, FoundIsCurrent, NEW r \in Slots, InFlight(r),
           NEW status \in {"sent", "error"}, Record(r, status)
    PROVE  /\ \A m \in Messages \ {msg[r]} : log'[m] = log[m]
           /\ Collides(r) => log' = log
           /\ ~ Collides(r) =>
                \/ status = "sent" /\ log'[msg[r]] = "sent"
                        /\ log[msg[r]] \in {"none", "error", "sent"}
                \/ status = "error" /\ log'[msg[r]] \in {"error", "sent"}
                        /\ (log[msg[r]] = "sent" <=> log'[msg[r]] = "sent")
                        /\ log[msg[r]] # "skipped"
           /\ \A s \in Slots \ {r} : pc'[s] = pc[s] /\ msg'[s] = msg[s] /\ found'[s] = found[s]
           /\ pc'[r] \in {"plan", "check"} /\ ~ InFlight(r)'
           /\ copies' = copies
<1>1. msg[r] \in Messages /\ found[r] \in {"none", "error"} /\ log[msg[r]] \in Statuses
  BY DEF TypeOK, InFlight
<1>2. /\ \A s \in Slots \ {r} : pc'[s] = pc[s] /\ msg'[s] = msg[s] /\ found'[s] = found[s]
      /\ pc'[r] \in {"plan", "check"} /\ ~ InFlight(r)'
      /\ copies' = copies
  BY DEF Record, NextCert, NextChannel, TypeOK, InFlight
<1>3. CASE Collides(r)
  BY <1>2, <1>3 DEF Record
<1>4. CASE ~ Collides(r)
  <2>1. UpsertLog(r, status)
    BY <1>4 DEF Record
  <2>2. found[r] = "none" => log[msg[r]] = "none"
    BY <1>4 DEF Collides
  <2>3. found[r] = "error" => log[msg[r]] \in {"error", "sent"}
    BY DEF FoundIsCurrent
  <2> QED BY <1>1, <1>2, <1>4, <2>1, <2>2, <2>3 DEF UpsertLog, TypeOK
<1> QED BY <1>3, <1>4

(* What planning a certificate does to the log: mark_superseded settles    *)
(* rows that did not exist, and nothing else.                              *)
LEMMA PlanLog ==
    ASSUME TypeOK, NEW r \in Slots, PlanCert(r)
    PROVE  /\ \A m \in Messages : log'[m] = log[m] \/ (log[m] = "none" /\ log'[m] = "skipped")
           /\ \A s \in Slots \ {r} : pc'[s] = pc[s] /\ msg'[s] = msg[s]
           /\ pc[r] = "plan" /\ pc'[r] \in {"plan", "check"} /\ found' = found /\ copies' = copies
<1>1. pc[r] = "plan" /\ found' = found /\ copies' = copies
  BY DEF PlanCert
<1>2. PICK c \in run[r].todo :
        \/ UNCHANGED <<log, pc, msg>>
        \/ \E p \in Plan(r, c) :
           /\ log' = MarkSuperseded(c, p.superseded, run[r].channels)
           /\ msg' = [msg EXCEPT ![r] = [cert |-> c, channel |-> "email", key |-> p.key]]
           /\ pc' = [pc EXCEPT ![r] = "check"]
  BY DEF PlanCert
<1>3. CASE UNCHANGED <<log, pc, msg>>
  BY <1>1, <1>3
<1>4. CASE \E p \in Plan(r, c) :
           /\ log' = MarkSuperseded(c, p.superseded, run[r].channels)
           /\ msg' = [msg EXCEPT ![r] = [cert |-> c, channel |-> "email", key |-> p.key]]
           /\ pc' = [pc EXCEPT ![r] = "check"]
  BY <1>1, <1>4 DEF MarkSuperseded, TypeOK
<1> QED BY <1>2, <1>3, <1>4

(* A run in notify_expiry has a message in hand.                           *)
LEMMA InHand ==
    ASSUME TypeOK, NEW r \in Slots, pc[r] \notin {"idle", "plan"}
    PROVE  msg[r] \in Messages
BY DEF TypeOK

(* Apart from mark_superseded and the recorded answers, no step touches a    *)
(* row; and nobody but the run itself changes what it has in hand.          *)
LEMMA LogStep ==
    ASSUME TypeOK, FoundIsCurrent, [Next]_vars
    PROVE  \A m \in Messages : Settled(m) => log'[m] = log[m]
<1>1. ASSUME NEW r \in Slots, PlanCert(r)
      PROVE  \A m \in Messages : Settled(m) => log'[m] = log[m]
  BY <1>1, PlanLog DEF Settled
<1>2. ASSUME NEW r \in Slots, AnswerOk(r) \/ AnswerError(r)
      PROVE  \A m \in Messages : Settled(m) => log'[m] = log[m]
  <2>1. PICK status \in {"sent", "error"} : Record(r, status)
    BY <1>2 DEF AnswerOk, AnswerError
  <2>2. InFlight(r)
    BY <1>2 DEF AnswerOk, AnswerError, Unanswered, InFlight
  <2>3. found[r] = "error" => log[msg[r]] # "skipped"
    BY <2>2 DEF FoundIsCurrent
  <2> QED BY <2>1, <2>2, <2>3, RecordLog DEF Settled
<1>3. ASSUME NEW r \in Slots, \/ SkipChannel(r) \/ BeginSend(r) \/ Accept(r) \/ RetryCard(r)
                             \/ AnswerRaise(r) \/ Finish(r) \/ Abort(r)
      PROVE  log' = log
  BY <1>3 DEF SkipChannel, BeginSend, Accept, RetryCard, AnswerRaise, Finish, Abort
<1>4. CASE StartDaily \/ StartManual \/ StartEscalation
  BY <1>4 DEF StartDaily, StartManual, StartEscalation, StartRun
<1>5. CASE Tick \/ Crash \/ EditWatched \/ EditExpiry \/ EditReminders \/ EditSettings
  BY <1>5 DEF Tick, Crash, EditWatched, EditExpiry, EditReminders, EditSettings, Edit
<1>6. CASE UNCHANGED vars
  BY <1>6 DEF vars
<1> QED BY <1>1, <1>2, <1>3, <1>4, <1>5, <1>6 DEF Next, Step

(* LogInv is inductive: the row a run read is current enough for what it   *)
(* writes.                                                                 *)
LEMMA LogInvInductive == TypeOK /\ LogInv /\ [Next]_vars => LogInv'
<1> SUFFICES ASSUME TypeOK, LogInv, [Next]_vars
             PROVE  LogInv'
  OBVIOUS
<1> USE DEF LogInv, FoundIsCurrent, AcceptedWasReceived, SentWasReceived
<1>1. ASSUME NEW r \in Slots, Step(r)
      PROVE  LogInv'
  <2>1. CASE PlanCert(r)
    BY <2>1, PlanLog, InHand DEF InFlight
  <2>2. CASE SkipChannel(r)
    <3>1. /\ \A s \in Slots : (pc'[s] = pc[s] /\ msg'[s] = msg[s]) \/ ~ InFlight(s)'
          /\ UNCHANGED <<log, found, copies>>
      BY <2>2 DEF SkipChannel, NextChannel, InFlight, TypeOK
    <3> QED BY <3>1 DEF InFlight
  <2>3. CASE BeginSend(r)
    BY <2>3 DEF BeginSend, InFlight, TypeOK
  <2>4. CASE Accept(r)
    <3>1. msg[r] \in Messages /\ copies[msg[r]] \in Nat
      <4>1. pc[r] = "sending"
        BY <2>4 DEF Accept
      <4> QED BY <4>1 DEF TypeOK
    <3>2. \A m \in Messages : copies'[m] >= copies[m] /\ copies'[msg[r]] > 0
      BY <2>4, <3>1 DEF Accept, TypeOK
    <3>3. \A s \in Slots : msg[s] = Nothing \/ msg[s] \in Messages
      BY DEF TypeOK
    <3>4. \A m \in Messages : copies[m] \in Nat /\ copies'[m] \in Nat
      BY <2>4 DEF Accept, TypeOK
    <3>5. \A s \in Slots : pc'[s] = "accepted" => copies'[msg'[s]] > 0
      BY <2>4, <3>2, <3>3, <3>4 DEF Accept, TypeOK
    <3>6. \A m \in Messages : log'[m] = "sent" => copies'[m] > 0
      BY <2>4, <3>2, <3>4 DEF Accept
    <3>7. FoundIsCurrent'
      BY <2>4 DEF Accept, InFlight, TypeOK
    <3> QED BY <3>5, <3>6, <3>7
  <2>5. CASE RetryCard(r)
    BY <2>5 DEF RetryCard, Unanswered, InFlight, TypeOK
  <2>6. ASSUME NEW status \in {"sent", "error"}, InFlight(r), Record(r, status),
               status = "sent" => pc[r] = "accepted"
        PROVE  LogInv'
    <3>1. msg[r] \in Messages
      BY <2>6, InHand DEF InFlight
    <3>2. \A s \in Slots : InFlight(s) => msg[s] \in Messages
      BY InHand DEF InFlight
    <3>3. FoundIsCurrent'
      <4>1. SUFFICES ASSUME NEW s \in Slots, InFlight(s)', found'[s] = "error"
                     PROVE  log'[msg'[s]] \in {"error", "sent"}
        OBVIOUS
      <4>2. s # r /\ InFlight(s) /\ msg'[s] = msg[s] /\ found[s] = "error"
        BY <4>1, <2>6, RecordLog DEF InFlight
      <4>3. CASE msg[s] = msg[r]
        <5>1. log[msg[r]] \in {"error", "sent"}
          BY <4>2, <4>3
        <5>2. Collides(r) => log'[msg[r]] = log[msg[r]]
          BY <2>6, RecordLog
        <5>3. ~ Collides(r) => log'[msg[r]] \in {"error", "sent"}
          BY <2>6, RecordLog
        <5> QED BY <4>2, <4>3, <5>1, <5>2, <5>3
      <4>4. CASE msg[s] # msg[r]
        BY <2>6, <3>2, <4>2, <4>4, RecordLog
      <4> QED BY <4>3, <4>4
    <3>4. AcceptedWasReceived'
      BY <2>6, <3>1, <3>2, RecordLog DEF InFlight
    <3>5. SentWasReceived'
      BY <2>6, <3>1, <3>2, RecordLog DEF InFlight
    <3> QED BY <3>3, <3>4, <3>5
  <2>7. CASE AnswerOk(r)
    BY <2>6, <2>7 DEF AnswerOk, InFlight
  <2>8. CASE AnswerError(r)
    BY <2>6, <2>8 DEF AnswerError, Unanswered, InFlight
  <2>9. CASE AnswerRaise(r)
    BY <2>9 DEF AnswerRaise, NextCert, InFlight, TypeOK
  <2>10. CASE Finish(r) \/ Abort(r)
    BY <2>10 DEF Finish, Abort, InFlight, TypeOK
  <2> QED BY <1>1, <2>1, <2>2, <2>3, <2>4, <2>5, <2>7, <2>8, <2>9, <2>10 DEF Step
<1>2. ASSUME NEW r \in Slots, NEW channels, NEW listed, StartRun(r, channels, listed)
      PROVE  LogInv'
  BY <1>2 DEF StartRun, InFlight, TypeOK
<1>3. CASE StartDaily \/ StartManual \/ StartEscalation
  BY <1>2, <1>3 DEF StartDaily, StartManual, StartEscalation, Slots
<1>4. CASE Tick \/ EditWatched \/ EditExpiry \/ EditReminders \/ EditSettings
  BY <1>4 DEF Tick, EditWatched, EditExpiry, EditReminders, EditSettings, Edit, InFlight
<1>5. CASE Crash
  BY <1>5 DEF Crash, InFlight
<1>6. CASE UNCHANGED vars
  BY <1>6 DEF vars, InFlight
<1> QED BY <1>1, <1>3, <1>4, <1>5, <1>6 DEF Next

(* In every execution the row a sending run read is still there or was     *)
(* settled meanwhile, and an accepted message was received (_deliver).     *)
THEOREM LogIsConsistent == Spec => []LogInv
<1>1. Init => LogInv
  BY DEF Init, LogInv, FoundIsCurrent, AcceptedWasReceived, SentWasReceived, InFlight
<1> QED BY <1>1, TypeCorrect, LogInvInductive, PTL DEF Spec

(* Every row that says "sent" has reached somebody. *)
THEOREM SentRowsAreTrue == Spec => []SentWasReceived
<1>1. LogInv => SentWasReceived
  BY DEF LogInv
<1> QED BY <1>1, LogIsConsistent, PTL

(* A settled row never changes again. *)
THEOREM SettledRowsAreFinal == Spec => SettledStays
<1>1. TypeOK /\ LogInv /\ [Next]_vars => [\A m \in Messages : Settled(m) => log'[m] = log[m]]_vars
  BY LogStep DEF LogInv
<1> QED BY <1>1, TypeCorrect, LogIsConsistent, PTL DEF Spec, SettledStays

-----------------------------------------------------------------------------
(* Jobs implements Delivery.                                               *)

Underway == [r \in Slots |-> IF InFlight(r) THEN msg[r] ELSE Nothing]
SettledSet == {m \in Messages : Settled(m)}

(* A step after which nothing is settled, sent or in hand that was not. *)
LEMMA QuietStep ==
    ASSUME TypeOK, UNCHANGED <<log, copies>>,
           \A s \in Slots : /\ InFlight(s)' <=> InFlight(s)
                            /\ InFlight(s) => msg'[s] = msg[s]
    PROVE  UNCHANGED D!vars
<1>1. Underway' = Underway
  BY DEF Underway
<1>2. SettledSet' = SettledSet
  BY DEF SettledSet, Settled
<1> QED BY <1>1, <1>2 DEF D!vars, Underway, SettledSet

(* Recording an answer settles the message in hand, or gives it up.        *)
LEMMA RecordIsStep ==
    ASSUME TypeOK, FoundIsCurrent, NEW r \in Slots, InFlight(r),
           NEW status \in {"sent", "error"}, Record(r, status)
    PROVE  D!Settle(r) \/ D!GiveUp(r)
<1>1. msg[r] \in Messages /\ Underway[r] = msg[r] /\ msg[r] # Nothing
  BY InHand, JobsAssumption DEF InFlight, Underway
<1>2. Underway' = [Underway EXCEPT ![r] = Nothing] /\ copies' = copies
  <2>1. /\ copies' = copies /\ ~ InFlight(r)'
        /\ \A s \in Slots \ {r} : pc'[s] = pc[s] /\ msg'[s] = msg[s]
    BY RecordLog
  <2> QED BY <2>1 DEF Underway, InFlight
<1>3. CASE log'[msg[r]] = "sent"
  <2>1. SettledSet' = SettledSet \union {msg[r]}
    <3>1. \A m \in Messages \ {msg[r]} : log'[m] = log[m]
      BY RecordLog
    <3> QED BY <1>1, <1>3, <3>1 DEF SettledSet, Settled
  <2> QED BY <1>1, <1>2, <2>1 DEF D!Settle, Underway, SettledSet
<1>4. CASE log'[msg[r]] # "sent"
  <2>1. \A m \in Messages : Settled(m)' <=> Settled(m)
    BY <1>1, <1>4, RecordLog DEF Settled
  <2>2. SettledSet' = SettledSet
    BY <2>1 DEF SettledSet
  <2> QED BY <1>1, <1>2, <2>2 DEF D!GiveUp, Underway, SettledSet
<1> QED BY <1>3, <1>4

(* Every step of a run is a step of Delivery or leaves what it sees alone. *)
LEMMA StepRefines ==
    ASSUME TypeOK, FoundIsCurrent, NEW r \in Slots, Step(r)
    PROVE  [D!Next]_(D!vars)
<1>1. CASE PlanCert(r)
  <2>1. Underway' = Underway
    BY <1>1, PlanLog DEF Underway, InFlight
  <2>2. SettledSet \subseteq SettledSet' /\ SettledSet' \in SUBSET Messages
    BY <1>1, PlanLog DEF SettledSet, Settled
  <2>3. D!Supersede
    BY <1>1, <2>1, <2>2, PlanLog DEF D!Supersede, Underway, SettledSet
  <2> QED BY <2>3 DEF D!Next
<1>2. CASE SkipChannel(r)
  BY <1>2, QuietStep DEF SkipChannel, NextChannel, InFlight, TypeOK
<1>3. CASE BeginSend(r)
  <2>1. msg[r] \in Messages /\ msg[r] \notin SettledSet /\ Underway[r] = Nothing
    BY <1>3, InHand DEF BeginSend, SettledSet, Underway, InFlight
  <2>2. Underway' = [Underway EXCEPT ![r] = msg[r]]
    BY <1>3 DEF BeginSend, Underway, InFlight, TypeOK
  <2>3. SettledSet' = SettledSet /\ copies' = copies
    BY <1>3 DEF BeginSend, SettledSet, Settled
  <2>4. PICK m \in Messages : m = msg[r]
    BY <2>1
  <2>5. D!Begin(r, m)
    BY <2>1, <2>2, <2>3, <2>4 DEF D!Begin, Underway, SettledSet
  <2> QED BY <2>5 DEF D!Next
<1>4. CASE Accept(r)
  <2>1. Underway' = Underway /\ Underway[r] = msg[r] /\ msg[r] # Nothing
    BY <1>4, InHand, JobsAssumption DEF Accept, Underway, InFlight, TypeOK
  <2>2. SettledSet' = SettledSet /\ copies' = [copies EXCEPT ![msg[r]] = @ + 1]
    BY <1>4 DEF Accept, SettledSet, Settled
  <2>3. D!Hand(r)
    BY <2>1, <2>2 DEF D!Hand, Underway, SettledSet
  <2> QED BY <2>3 DEF D!Next
<1>5. CASE RetryCard(r)
  BY <1>5, QuietStep DEF RetryCard, Unanswered, InFlight, TypeOK
<1>6. CASE AnswerOk(r) \/ AnswerError(r)
  <2>1. InFlight(r) /\ \E status \in {"sent", "error"} : Record(r, status)
    BY <1>6 DEF AnswerOk, AnswerError, Unanswered, InFlight
  <2> QED BY <2>1, RecordIsStep DEF D!Next
<1>7. CASE AnswerRaise(r)
  <2>1. msg[r] \in Messages /\ Underway[r] = msg[r] /\ msg[r] # Nothing
    BY <1>7, InHand, JobsAssumption DEF AnswerRaise, InFlight, Underway
  <2>2. Underway' = [Underway EXCEPT ![r] = Nothing]
    BY <1>7 DEF AnswerRaise, NextCert, Underway, InFlight, TypeOK
  <2>3. SettledSet' = SettledSet /\ copies' = copies
    BY <1>7 DEF AnswerRaise, SettledSet, Settled
  <2>4. D!GiveUp(r)
    BY <2>1, <2>2, <2>3 DEF D!GiveUp, Underway, SettledSet
  <2> QED BY <2>4 DEF D!Next
<1>8. CASE Finish(r) \/ Abort(r)
  BY <1>8, QuietStep DEF Finish, Abort, InFlight, TypeOK
<1> QED BY <1>1, <1>2, <1>3, <1>4, <1>5, <1>6, <1>7, <1>8 DEF Step

(* Every step of the jobs is a step of Delivery or leaves what it sees     *)
(* alone.                                                                  *)
LEMMA NextRefines == TypeOK /\ FoundIsCurrent /\ [Next]_vars => [D!Next]_(D!vars)
<1> SUFFICES ASSUME TypeOK, FoundIsCurrent, [Next]_vars
             PROVE  [D!Next]_(D!vars)
  OBVIOUS
<1>1. ASSUME NEW r \in Slots, NEW channels, NEW listed, StartRun(r, channels, listed)
      PROVE  [D!Next]_(D!vars)
  BY <1>1, QuietStep DEF StartRun, InFlight, TypeOK
<1>2. CASE StartDaily \/ StartManual \/ StartEscalation
  BY <1>1, <1>2 DEF StartDaily, StartManual, StartEscalation, Slots
<1>3. CASE \E r \in Slots : Step(r)
  BY <1>3, StepRefines
<1>4. CASE Tick \/ EditWatched \/ EditExpiry \/ EditReminders \/ EditSettings
  BY <1>4, QuietStep DEF Tick, EditWatched, EditExpiry, EditReminders, EditSettings, Edit, InFlight
<1>5. CASE Crash
  <2>1. Underway' = [r \in Slots |-> Nothing]
    BY <1>5 DEF Crash, Underway, InFlight
  <2>2. SettledSet' = SettledSet /\ copies' = copies
    BY <1>5 DEF Crash, SettledSet, Settled
  <2>3. D!Restart
    BY <2>1, <2>2 DEF D!Restart, Underway, SettledSet
  <2> QED BY <2>3 DEF D!Next
<1>6. CASE UNCHANGED vars
  BY <1>6, QuietStep DEF vars, InFlight
<1> QED BY <1>2, <1>3, <1>4, <1>5, <1>6 DEF Next

(* The log keeps the promise of Delivery, whatever overlaps or fails. *)
THEOREM JobsImplementDelivery == Spec => PromiseKept
<1>1. Init => D!Init
  BY DEF Init, D!Init, InFlight, Settled
<1>2. TypeOK /\ LogInv /\ [Next]_vars => [D!Next]_(D!vars)
  BY NextRefines DEF LogInv
<1> QED BY <1>1, <1>2, TypeCorrect, LogIsConsistent, PTL DEF Spec, PromiseKept, D!Spec

(* A message that is settled and in nobody's hands never reaches anyone again. *)
THEOREM SettledIsQuiet == Spec => QuietForGood
<1>1. TypeOK /\ [D!Next]_(D!vars)
        => [\A m \in Messages : D!Quiet(m) => D!Quiet(m)' /\ copies'[m] = copies[m]]_(D!vars)
  <2> SUFFICES ASSUME TypeOK, D!Next, NEW m \in Messages,
                      m \in SettledSet, \A a \in Slots : Underway[a] # m
               PROVE  m \in SettledSet' /\ copies'[m] = copies[m] /\ \A a \in Slots : Underway'[a] # m
    BY DEF D!Quiet, SettledSet, Underway
  <2> USE DEF SettledSet, Underway
  <2>1. ASSUME NEW a \in Slots, NEW n \in Messages, D!Begin(a, n)
        PROVE  m \in SettledSet' /\ copies'[m] = copies[m] /\ \A b \in Slots : Underway'[b] # m
    BY <2>1 DEF D!Begin
  <2>2. ASSUME NEW a \in Slots, D!Hand(a)
        PROVE  m \in SettledSet' /\ copies'[m] = copies[m] /\ \A b \in Slots : Underway'[b] # m
    BY <2>2 DEF D!Hand, TypeOK
  <2>3. ASSUME NEW a \in Slots, D!Settle(a) \/ D!GiveUp(a)
        PROVE  m \in SettledSet' /\ copies'[m] = copies[m] /\ \A b \in Slots : Underway'[b] # m
    BY <2>3, JobsAssumption DEF D!Settle, D!GiveUp
  <2>4. CASE D!Supersede
    BY <2>4 DEF D!Supersede
  <2>5. CASE D!Restart
    BY <2>5, JobsAssumption DEF D!Restart
  <2> QED BY <2>1, <2>2, <2>3, <2>4, <2>5 DEF D!Next
<1> QED BY <1>1, TypeCorrect, JobsImplementDelivery, PTL DEF PromiseKept, D!Spec, QuietForGood, D!QuietForGood
-----------------------------------------------------------------------------
(* When is it true that each message is sent exactly once, ever?  When no   *)
(* manual run is open, the process does not stop and no answer is lost.     *)
(* Then the daily run and the escalation are alone, they never have the     *)
(* same message in hand, and a message that was received and is not yet     *)
(* recorded is in the hands of the run that will record it.                 *)

Undisturbed == Manual = {} /\ Faults \intersect {"crash", "lost", "locked"} = {}

(* The daily run and the escalation have different kinds of key in hand. *)
OwnKeys ==
    /\ msg["escalation"] # Nothing => msg["escalation"].key.kind = "slot"
    /\ msg["daily"] # Nothing => msg["daily"].key.kind \in {"t", "expired"}

(* What a run read of the row it is about to write is still so. *)
NoneYet == \A r \in Slots : InFlight(r) /\ found[r] = "none" => log[msg[r]] = "none"

(* A message is received at most once, and from then on it is recorded as  *)
(* sent or about to be.                                                    *)
ReceivedOnce ==
    /\ AtMostOnce
    /\ \A m \in Messages : copies[m] = 1 =>
          log[m] = "sent" \/ \E r \in Slots : pc[r] = "accepted" /\ msg[r] = m
    /\ \A r \in Slots : pc[r] = "sending" => copies[msg[r]] = 0
    /\ \A r \in Slots : InFlight(r) => ~ Settled(msg[r])

OnceInv == OwnKeys /\ NoneYet /\ ReceivedOnce

(* Without manual requests only the two scheduled jobs exist.              *)
LEMMA OnlyTwoSlots ==
    ASSUME Undisturbed
    PROVE  /\ Slots = {"daily", "escalation"}
           /\ {"crash", "lost", "locked"} \intersect Faults = {}
BY DEF Undisturbed, Slots

(* The two scheduled jobs never have the same message in hand: the daily   *)
(* run works on thresholds and days, the escalation on slots.              *)
LEMMA DistinctInHand ==
    ASSUME Undisturbed, OwnKeys, NEW r \in Slots, NEW s \in Slots, r # s, msg[r] # Nothing
    PROVE  msg[s] # msg[r]
BY OnlyTwoSlots DEF OwnKeys

(* The kind of the key plan_for decides on, for either job.                *)
LEMMA PlanKinds ==
    ASSUME TypeOK, NEW r \in Slots, NEW c \in Certs, NEW p \in Plan(r, c)
    PROVE  /\ r = "escalation" => p.key.kind = "slot" /\ p.superseded = {}
           /\ r # "escalation" => p.key.kind \in {"t", "expired"}
<1>1. CASE r = "escalation"
  BY <1>1 DEF Plan, ExpiredHourKey
<1>2. CASE r # "escalation"
  BY <1>2 DEF Plan, PlanFor, ThresholdKey, ExpiredKey
<1> QED BY <1>1, <1>2

(* Every step keeps the keys of the two jobs apart.                        *)
LEMMA OwnKeysStep ==
    ASSUME TypeOK, Undisturbed, OwnKeys, [Next]_vars
    PROVE  OwnKeys'
<1> USE OnlyTwoSlots
<1>1. ASSUME NEW r \in Slots, PlanCert(r)
      PROVE  OwnKeys'
  <2>1. PICK c \in run[r].todo :
          \/ UNCHANGED msg
          \/ \E p \in Plan(r, c) :
               msg' = [msg EXCEPT ![r] = [cert |-> c, channel |-> "email", key |-> p.key]]
    BY <1>1 DEF PlanCert
  <2>2. CASE UNCHANGED msg
    BY <2>2 DEF OwnKeys
  <2>3. ASSUME NEW p \in Plan(r, c),
               msg' = [msg EXCEPT ![r] = [cert |-> c, channel |-> "email", key |-> p.key]]
        PROVE  OwnKeys'
    <3>1. c \in Certs
      BY DEF TypeOK, RunRecords
    <3>2. /\ r = "escalation" => p.key.kind = "slot"
          /\ r # "escalation" => p.key.kind \in {"t", "expired"}
      BY <3>1, PlanKinds
    <3> QED BY <2>3, <3>2 DEF OwnKeys, TypeOK
  <2> QED BY <2>1, <2>2, <2>3
<1>2. ASSUME NEW r \in Slots, NextChannel(r), msg[r] # Nothing
      PROVE  OwnKeys'
  <2>1. CASE msg[r].channel = "email"
    <3> DEFINE new == [msg[r] EXCEPT !.channel = "teams"]
    <3>1. msg' = [msg EXCEPT ![r] = new]
      BY <1>2, <2>1 DEF NextChannel
    <3>2. msg[r] \in Messages
      BY <1>2 DEF TypeOK
    <3>3. new.key = msg[r].key
      BY <3>2 DEF Messages
    <3> HIDE DEF new
    <3> QED BY <1>2, <3>1, <3>3 DEF OwnKeys, TypeOK
  <2>2. CASE msg[r].channel # "email"
    BY <1>2, <2>2 DEF NextChannel, OwnKeys, TypeOK
  <2> QED BY <2>1, <2>2
<1>3. ASSUME NEW r \in Slots, NextCert(r)
      PROVE  OwnKeys'
  BY <1>3 DEF NextCert, OwnKeys, TypeOK
<1>4. ASSUME NEW r \in Slots, Step(r)
      PROVE  OwnKeys'
  <2>1. CASE SkipChannel(r)
    BY <1>2, <2>1 DEF SkipChannel, TypeOK
  <2>2. CASE BeginSend(r) \/ Accept(r) \/ RetryCard(r) \/ Finish(r) \/ Abort(r)
    BY <2>2 DEF BeginSend, Accept, RetryCard, Finish, Abort, OwnKeys
  <2>3. CASE AnswerOk(r) \/ AnswerError(r) \/ AnswerRaise(r)
    BY <1>2, <1>3, <2>3 DEF AnswerOk, AnswerError, AnswerRaise, InFlight, Unanswered, Record, TypeOK
  <2> QED BY <1>1, <1>4, <2>1, <2>2, <2>3 DEF Step
<1>5. CASE StartDaily \/ StartManual \/ StartEscalation
  BY <1>5 DEF StartDaily, StartManual, StartEscalation, StartRun, OwnKeys
<1>6. CASE Tick \/ Crash \/ EditWatched \/ EditExpiry \/ EditReminders \/ EditSettings
  BY <1>6 DEF Tick, Crash, EditWatched, EditExpiry, EditReminders, EditSettings, Edit, OwnKeys
<1>7. CASE UNCHANGED vars
  BY <1>7 DEF vars, OwnKeys
<1> QED BY <1>4, <1>5, <1>6, <1>7 DEF Next

(* A recorded answer goes to the message's own row: no other run has read   *)
(* or written it.                                                          *)
LEMMA RecordOnce ==
    ASSUME TypeOK, Undisturbed, FoundIsCurrent, OnceInv,
           NEW r \in Slots, InFlight(r), NEW status \in {"sent", "error"},
           status = "sent" <=> pc[r] = "accepted", Record(r, status)
    PROVE  NoneYet' /\ ReceivedOnce'
<1> USE DEF OnceInv, NoneYet, ReceivedOnce, AtMostOnce
<1>1. msg[r] \in Messages /\ found[r] \in {"none", "error"}
  BY InHand DEF InFlight, TypeOK
<1>2. ~ Collides(r)
  BY <1>1 DEF Collides
<1>3. /\ \A m \in Messages \ {msg[r]} : log'[m] = log[m]
      /\ log'[msg[r]] = status
      /\ copies' = copies
      /\ ~ InFlight(r)'
      /\ \A s \in Slots \ {r} : pc'[s] = pc[s] /\ msg'[s] = msg[s] /\ found'[s] = found[s]
  BY <1>1, <1>2, RecordLog DEF Settled
<1>4. \A s \in Slots \ {r} : InFlight(s) => msg[s] \in Messages /\ msg[s] # msg[r]
  BY <1>1, InHand, DistinctInHand, JobsAssumption DEF InFlight
<1>5. NoneYet'
  BY <1>3, <1>4 DEF InFlight
<1>6. ASSUME NEW m \in Messages, copies'[m] = 1
      PROVE  log'[m] = "sent" \/ \E s \in Slots : pc'[s] = "accepted" /\ msg'[s] = m
  <2>1. CASE m = msg[r]
    <3>1. pc[r] = "accepted"
      BY <1>3, <1>6, <2>1 DEF InFlight
    <3> QED BY <1>3, <2>1, <3>1
  <2>2. CASE m # msg[r]
    BY <1>3, <1>6, <2>2
  <2> QED BY <2>1, <2>2
<1>7. ASSUME NEW s \in Slots, InFlight(s)'
      PROVE  pc'[s] = "sending" => copies'[msg'[s]] = 0
  BY <1>3, <1>4, <1>7 DEF InFlight
<1>8. \A s \in Slots : InFlight(s)' => ~ Settled(msg[s])'
  BY <1>3, <1>4 DEF InFlight, Settled
<1> QED BY <1>3, <1>5, <1>6, <1>7, <1>8 DEF InFlight, Settled

(* Taking up a certificate neither sends nor unsettles anything.           *)
LEMMA PlanOnce ==
    ASSUME TypeOK, Undisturbed, OnceInv, NEW r \in Slots, PlanCert(r)
    PROVE  NoneYet' /\ ReceivedOnce'
<1> USE DEF OnceInv, NoneYet, ReceivedOnce, AtMostOnce
<1>1. /\ \A m \in Messages : log'[m] = log[m] \/ (log[m] = "none" /\ log'[m] = "skipped")
      /\ \A s \in Slots \ {r} : pc'[s] = pc[s] /\ msg'[s] = msg[s]
      /\ pc[r] = "plan" /\ pc'[r] \in {"plan", "check"} /\ found' = found /\ copies' = copies
  BY PlanLog
<1>2. \A s \in Slots : InFlight(s)' <=> InFlight(s)
  BY <1>1 DEF InFlight
<1>3. \A s \in Slots : InFlight(s) => s # r /\ msg'[s] = msg[s] /\ msg[s] \in Messages
  BY <1>1, InHand DEF InFlight
<1>4. ASSUME NEW s \in Slots, InFlight(s)
      PROVE  log'[msg[s]] = log[msg[s]]
  <2>1. CASE s = "escalation"
    <3>1. msg[s].key.kind = "slot"
      BY <1>3, <1>4, <2>1, JobsAssumption DEF OwnKeys
    <3>2. \A t : msg[s].key # ThresholdKey(t)
      BY <3>1 DEF ThresholdKey
    <3> QED BY <1>3, <1>4, <3>2 DEF PlanCert, MarkSuperseded
  <2>2. CASE s # "escalation"
    <3>1. r = "escalation"
      BY <1>3, <1>4, <2>2, OnlyTwoSlots
    <3>2. \A c \in run[r].todo : c \in Certs
      BY DEF TypeOK, RunRecords
    <3>3. \A c \in run[r].todo : \A p \in Plan(r, c) : p.superseded = {}
      BY <3>1, <3>2, PlanKinds
    <3> QED BY <1>3, <1>4, <3>3 DEF PlanCert, MarkSuperseded
  <2> QED BY <2>1, <2>2
<1>5. NoneYet'
  BY <1>1, <1>2, <1>3, <1>4
<1>6. ASSUME NEW m \in Messages, copies'[m] = 1
      PROVE  log'[m] = "sent" \/ \E s \in Slots : pc'[s] = "accepted" /\ msg'[s] = m
  BY <1>1, <1>6
<1>7. \A s \in Slots : InFlight(s)' => ~ Settled(msg[s])'
  BY <1>2, <1>3, <1>4 DEF Settled
<1> QED BY <1>1, <1>2, <1>3, <1>5, <1>6, <1>7 DEF InFlight, Settled

(* No step of a run hands a message over a second time.                    *)
LEMMA OnceStep ==
    ASSUME TypeOK, Undisturbed, FoundIsCurrent, OnceInv, NEW r \in Slots, Step(r)
    PROVE  NoneYet' /\ ReceivedOnce'
<1> USE DEF OnceInv, NoneYet, ReceivedOnce, AtMostOnce
<1>1. CASE PlanCert(r)
  BY <1>1, PlanOnce
<1>2. CASE SkipChannel(r)
  <2>1. \A s \in Slots \ {r} : pc'[s] = pc[s] /\ msg'[s] = msg[s]
    BY <1>2 DEF SkipChannel, NextChannel, TypeOK
  <2>2. ~ InFlight(r) /\ ~ InFlight(r)' /\ UNCHANGED <<log, copies, found>>
    BY <1>2 DEF SkipChannel, NextChannel, InFlight, TypeOK
  <2> QED BY <2>1, <2>2 DEF InFlight, Settled
<1>3. CASE BeginSend(r)
  <2>0. pc[r] = "check" /\ msg[r] \in Messages
    BY <1>3, InHand DEF BeginSend
  <2>1. /\ msg[r] \in Messages /\ ~ Settled(msg[r]) /\ pc[r] = "check"
        /\ pc' = [pc EXCEPT ![r] = "sending"] /\ found'[r] = log[msg[r]]
        /\ \A s \in Slots \ {r} : found'[s] = found[s]
        /\ UNCHANGED <<log, msg, copies>>
    BY <1>3, <2>0 DEF BeginSend, TypeOK
  <2>2. copies[msg[r]] = 0
    <3>1. \A s \in Slots \ {r} : msg[s] # msg[r]
      BY <2>1, DistinctInHand, JobsAssumption
    <3>2. copies[msg[r]] # 1
      BY <2>1, <3>1 DEF Settled
    <3>3. copies[msg[r]] \in Nat /\ copies[msg[r]] <= 1
      BY <2>1 DEF TypeOK
    <3> QED BY <3>2, <3>3
  <2> QED BY <2>1, <2>2 DEF InFlight, Settled, TypeOK
<1>4. CASE Accept(r)
  <2>0. pc[r] = "sending" /\ msg[r] \in Messages
    BY <1>4, InHand DEF Accept
  <2>1. /\ msg[r] \in Messages /\ pc[r] = "sending" /\ copies[msg[r]] = 0
        /\ copies' = [copies EXCEPT ![msg[r]] = 1]
        /\ pc' = [pc EXCEPT ![r] = "accepted"]
        /\ UNCHANGED <<log, msg, found>>
    <3>1. copies[msg[r]] = 0
      BY <2>0
    <3>2. copies' = [copies EXCEPT ![msg[r]] = copies[msg[r]] + 1]
      BY <1>4 DEF Accept
    <3>3. copies' = [copies EXCEPT ![msg[r]] = 1]
      BY <3>1, <3>2
    <3> QED BY <1>4, <2>0, <3>1, <3>3 DEF Accept
  <2>2. \A s \in Slots \ {r} : msg[s] # msg[r]
    BY <2>1, DistinctInHand, JobsAssumption
  <2>3. \A s \in Slots : InFlight(s)' <=> InFlight(s)
    BY <2>1 DEF InFlight, TypeOK
  <2>4. \A m \in Messages \ {msg[r]} : copies'[m] = copies[m]
    BY <2>1
  <2>5. copies'[msg[r]] = 1 /\ pc'[r] = "accepted" /\ \A s \in Slots \ {r} : pc'[s] = pc[s]
    BY <2>1 DEF TypeOK
  <2>6. \A s \in Slots : InFlight(s) => msg[s] \in Messages
    BY InHand DEF InFlight
  <2>7. AtMostOnce'
    BY <2>1, <2>4, <2>5
  <2>8. ASSUME NEW m \in Messages, copies'[m] = 1
        PROVE  log'[m] = "sent" \/ \E s \in Slots : pc'[s] = "accepted" /\ msg'[s] = m
    BY <2>1, <2>4, <2>5, <2>8
  <2>9. ASSUME NEW s \in Slots, pc'[s] = "sending"
        PROVE  copies'[msg'[s]] = 0
    <3>1. s # r /\ pc[s] = "sending" /\ msg'[s] = msg[s]
      BY <2>1, <2>5, <2>9
    <3> QED BY <2>2, <2>4, <2>6, <3>1 DEF InFlight
  <2> QED BY <2>1, <2>3, <2>7, <2>8, <2>9 DEF Settled
<1>5. CASE RetryCard(r)
  <2>1. /\ pc[r] = "sending" /\ pc' = pc
        /\ UNCHANGED <<log, msg, found, copies>>
    BY <1>5, OnlyTwoSlots DEF RetryCard, Unanswered, TypeOK
  <2> QED BY <2>1 DEF InFlight, Settled
<1>6. CASE AnswerOk(r)
  BY <1>6, RecordOnce DEF AnswerOk, InFlight
<1>7. CASE AnswerError(r)
  BY <1>7, OnlyTwoSlots, RecordOnce DEF AnswerError, Unanswered, InFlight
<1>8. CASE AnswerRaise(r)
  <2>1. \A s \in Slots \ {r} : pc'[s] = pc[s] /\ msg'[s] = msg[s] /\ found'[s] = found[s]
    BY <1>8 DEF AnswerRaise, NextCert, TypeOK
  <2>2. pc[r] = "sending" /\ ~ InFlight(r)' /\ UNCHANGED <<log, copies>>
    BY <1>8, OnlyTwoSlots DEF AnswerRaise, NextCert, InFlight, TypeOK
  <2>3. \A s \in Slots : InFlight(s)' => s # r /\ InFlight(s)
    BY <2>1, <2>2 DEF InFlight
  <2> QED BY <2>1, <2>2, <2>3 DEF InFlight, Settled
<1>9. CASE Finish(r) \/ Abort(r)
  <2>1. \A s \in Slots \ {r} : pc'[s] = pc[s]
    BY <1>9 DEF Finish, Abort, TypeOK
  <2>2. ~ InFlight(r) /\ ~ InFlight(r)' /\ UNCHANGED <<log, copies, msg, found>>
    BY <1>9 DEF Finish, Abort, InFlight, TypeOK
  <2> QED BY <2>1, <2>2 DEF InFlight, Settled
<1> QED BY <1>1, <1>2, <1>3, <1>4, <1>5, <1>6, <1>7, <1>8, <1>9 DEF Step

(* OnceInv is inductive without manual runs, crashes and lost answers.     *)
LEMMA OnceInvInductive ==
    TypeOK /\ Undisturbed /\ FoundIsCurrent /\ OnceInv /\ [Next]_vars => OnceInv'
<1> SUFFICES ASSUME TypeOK, Undisturbed, FoundIsCurrent, OnceInv, [Next]_vars
             PROVE  NoneYet' /\ ReceivedOnce'
  BY OwnKeysStep DEF OnceInv
<1> USE DEF OnceInv, NoneYet, ReceivedOnce, AtMostOnce
<1>1. CASE \E r \in Slots : Step(r)
  BY <1>1, OnceStep
<1>2. ASSUME NEW r \in Slots, NEW channels, NEW listed, StartRun(r, channels, listed)
      PROVE  NoneYet' /\ ReceivedOnce'
  <2>1. \A s \in Slots \ {r} : pc'[s] = pc[s]
    BY <1>2 DEF StartRun, TypeOK
  <2>2. ~ InFlight(r) /\ ~ InFlight(r)' /\ UNCHANGED <<log, copies, msg, found>>
    BY <1>2 DEF StartRun, InFlight, TypeOK
  <2> QED BY <2>1, <2>2 DEF InFlight, Settled
<1>3. CASE StartDaily \/ StartManual \/ StartEscalation
  BY <1>2, <1>3 DEF StartDaily, StartManual, StartEscalation, Slots
<1>4. CASE Tick \/ EditWatched \/ EditExpiry \/ EditReminders \/ EditSettings
  BY <1>4 DEF Tick, EditWatched, EditExpiry, EditReminders, EditSettings, Edit, InFlight, Settled
<1>5. CASE Crash
  BY <1>5, OnlyTwoSlots DEF Crash
<1>6. CASE UNCHANGED vars
  BY <1>6 DEF vars, InFlight, Settled
<1> QED BY <1>1, <1>3, <1>4, <1>5, <1>6 DEF Next

(* Without manual runs, crashes and lost answers nobody receives a message  *)
(* twice, whatever is refused, raised or edited meanwhile.                 *)
THEOREM ScheduledRunsSendOnce == Undisturbed => (Spec => []AtMostOnce)
<1> SUFFICES ASSUME Undisturbed
             PROVE  Spec => []AtMostOnce
  OBVIOUS
<1>1. Init => OnceInv
  BY DEF Init, OnceInv, OwnKeys, NoneYet, ReceivedOnce, AtMostOnce, InFlight, Slots
<1>2. TypeOK /\ LogInv /\ OnceInv /\ [Next]_vars => OnceInv'
  BY OnceInvInductive DEF LogInv
<1>3. OnceInv => AtMostOnce
  BY DEF OnceInv, ReceivedOnce
<1> QED BY <1>1, <1>2, <1>3, TypeCorrect, LogIsConsistent, PTL DEF Spec
=============================================================================
