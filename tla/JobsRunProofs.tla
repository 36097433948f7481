---------------------------- MODULE JobsRunProofs ----------------------------
(***************************************************************************)
(* What a daily run leaves behind.  First: one that counted no failure left *)
(* nothing due, as long as nobody changes expiry days, reminder lists or   *)
(* settings while it runs (muting, archiving, overlapping runs, crashes and *)
(* every failure are allowed).  Then: reminders only come nearer.  Last:   *)
(* what the theorems about the expiry day need of days and plans.          *)
(***************************************************************************)
EXTENDS JobsProofs

Unedited == Edits \intersect {"expiry", "reminders", "settings"} = {}

EmailOf(r, c, p) == [cert |-> c, channel |-> "email", key |-> p.key]

(* What a daily run knows: email is always a channel; the message in hand  *)
(* is the plan's; and while there are no failures every certificate that   *)
(* is behind it, or on its Teams turn, has its email settled.              *)
BehindIt(r, c) ==
    /\ c \in run[r].listed \ run[r].todo
    /\ pc[r] = "plan" \/ c # msg[r].cert \/ msg[r].channel = "teams"

RunInv(r) ==
    pc[r] # "idle" =>
        /\ "email" \in run[r].channels
        /\ pc[r] # "plan" =>
              /\ "email" \in run[r].due
              /\ \A p \in Plan(r, msg[r].cert) : p.key = msg[r].key
        /\ EmailConfigured /\ run[r].failures = 0 =>
              \A c \in WithRecipients : BehindIt(r, c) =>
                  \A p \in Plan(r, c) : Settled(EmailOf(r, c, p))

CleanInv == \A r \in Slots \ {"escalation"} : RunInv(r)

(* plan_for decides on at most one message for a certificate.              *)
LEMMA OnePlan ==
    ASSUME TypeOK, NEW r \in Slots, NEW c \in Certs, NEW p \in Plan(r, c), NEW q \in Plan(r, c)
    PROVE  p = q
<1>1. thresholds[c] \union {0} \subseteq Int
  <2>1. thresholds[c] \in SUBSET (1 .. MaxThreshold)
    BY JobsAssumption DEF TypeOK
  <2>2. MaxThreshold \in Nat
    BY JobsAssumption
  <2> QED BY <2>1, <2>2
<1>2. CASE r = "escalation" \/ notAfter[c] - Reference(r) < 0
  BY <1>2 DEF Plan, PlanFor
<1>3. CASE r # "escalation" /\ ~ notAfter[c] - Reference(r) < 0
  <2> DEFINE C == Crossed(notAfter[c] - Reference(r), thresholds[c])
  <2>1. PICK t \in Nearest(C) : p = [key |-> ThresholdKey(t), superseded |-> C \ {t}]
    BY <1>3 DEF Plan, PlanFor
  <2>2. PICK u \in Nearest(C) : q = [key |-> ThresholdKey(u), superseded |-> C \ {u}]
    BY <1>3 DEF Plan, PlanFor
  <2>3. t = u
    BY <1>1 DEF Nearest, Crossed
  <2> QED BY <2>1, <2>2, <2>3
<1> QED BY <1>2, <1>3

(* Nothing a plan is made from changes during a run. *)
LEMMA PlanStays ==
    ASSUME UNCHANGED <<notAfter, thresholds, settings>>, NEW r \in Slots,
           run'[r].hour = run[r].hour, run'[r].every = run[r].every, NEW c
    PROVE  Plan(r, c)' = Plan(r, c)
BY DEF Plan, Reference

(* Without edits nothing a plan is made from ever changes.                 *)
LEMMA DataStays ==
    ASSUME Unedited, [Next]_vars
    PROVE  UNCHANGED <<notAfter, thresholds, settings>>
<1>1. ASSUME NEW r \in Slots, Step(r)
      PROVE  UNCHANGED <<notAfter, thresholds, settings>>
  BY <1>1 DEF Step, PlanCert, SkipChannel, BeginSend, Accept, RetryCard, AnswerOk, AnswerError,
              AnswerRaise, Record, Finish, Abort, dataVars
<1>2. CASE StartDaily \/ StartManual \/ StartEscalation
  BY <1>2 DEF StartDaily, StartManual, StartEscalation, StartRun, dataVars
<1>3. CASE Tick \/ Crash \/ EditWatched
  BY <1>3 DEF Tick, Crash, EditWatched, dataVars
<1>4. CASE EditExpiry \/ EditReminders \/ EditSettings
  BY <1>4 DEF Unedited, EditExpiry, EditReminders, EditSettings, Edit
<1>5. CASE UNCHANGED vars
  BY <1>5 DEF vars, dataVars
<1> QED BY <1>1, <1>2, <1>3, <1>4, <1>5 DEF Next

(* A step of another run, or of the world, may only settle more. *)
LEMMA OthersKeepRun ==
    ASSUME TypeOK, FoundIsCurrent, Unedited, [Next]_vars, NEW r \in Slots, RunInv(r),
           pc'[r] = pc[r], msg'[r] = msg[r], run'[r] = run[r]
    PROVE  RunInv(r)'
<1>1. \A c : Plan(r, c)' = Plan(r, c)
  BY DataStays, PlanStays
<1>2. ASSUME NEW c \in WithRecipients, NEW p \in Plan(r, c), Settled(EmailOf(r, c, p))
      PROVE  Settled(EmailOf(r, c, p))'
  <2>1. EmailOf(r, c, p) \in Messages
    BY PlanIsTyped, JobsAssumption DEF EmailOf, Messages, Channels
  <2>2. log'[EmailOf(r, c, p)] = log[EmailOf(r, c, p)]
    BY <1>2, <2>1, LogStep
  <2> QED BY <1>2, <2>2 DEF Settled, EmailOf
<1> QED BY <1>1, <1>2 DEF RunInv, BehindIt

(* No step unsettles a message.                                            *)
LEMMA StaysSettled ==
    ASSUME TypeOK, FoundIsCurrent, [Next]_vars, NEW r \in Slots, NEW c \in WithRecipients,
           NEW p \in Plan(r, c), Settled(EmailOf(r, c, p))
    PROVE  log'[EmailOf(r, c, p)] \in {"sent", "skipped"}
<1>1. EmailOf(r, c, p) \in Messages
  BY PlanIsTyped, JobsAssumption DEF EmailOf, Messages, Channels
<1>2. log'[EmailOf(r, c, p)] = log[EmailOf(r, c, p)]
  BY <1>1, LogStep
<1> QED BY <1>2 DEF Settled

(* The run is done with a channel: by email, the row is settled, or the run *)
(* has counted a failure, or nobody is told by email.                      *)
LEMMA NextChannelKeepsRun ==
    ASSUME TypeOK, FoundIsCurrent, Unedited, [Next]_vars, NEW r \in Slots, RunInv(r),
           pc[r] \notin {"idle", "plan"}, NextChannel(r),
           run'[r].hour = run[r].hour, run'[r].every = run[r].every,
           run'[r].channels = run[r].channels, run'[r].due = run[r].due,
           run'[r].listed = run[r].listed, run'[r].todo = run[r].todo,
           run'[r].failures = 0 => run[r].failures = 0,
           EmailConfigured /\ run'[r].failures = 0
             /\ msg[r].channel = "email" /\ msg[r].cert \in WithRecipients
             => log'[msg[r]] \in {"sent", "skipped"}
    PROVE  RunInv(r)'
<1>1. \A c : Plan(r, c)' = Plan(r, c)
  BY DataStays, PlanStays
<1>2. msg[r] \in Messages
  BY InHand
<1>3. msg[r] = [cert |-> msg[r].cert, channel |-> msg[r].channel, key |-> msg[r].key]
      /\ msg[r].channel \in {"email", "teams"}
  BY <1>2 DEF Messages, Channels
<1>4. CASE msg[r].channel = "email"
  <2> DEFINE new == [msg[r] EXCEPT !.channel = "teams"]
  <2>1. msg' = [msg EXCEPT ![r] = new] /\ pc' = [pc EXCEPT ![r] = "check"]
    BY <1>4 DEF NextChannel
  <2>2. new.cert = msg[r].cert /\ new.key = msg[r].key /\ new.channel = "teams"
    BY <1>2 DEF Messages
  <2> HIDE DEF new
  <2>3. /\ pc'[r] = "check" /\ msg'[r].cert = msg[r].cert
        /\ msg'[r].key = msg[r].key /\ msg'[r].channel = "teams"
    BY <2>1, <2>2 DEF TypeOK
  <2>4. ASSUME NEW c \in WithRecipients, EmailConfigured, run'[r].failures = 0,
               BehindIt(r, c)', NEW p \in Plan(r, c)
        PROVE  log'[EmailOf(r, c, p)] \in {"sent", "skipped"}
    <3>1. CASE c = msg[r].cert
      <4>1. EmailOf(r, c, p) = msg[r]
        BY <1>3, <1>4, <2>4, <3>1 DEF RunInv, EmailOf
      <4> QED BY <1>4, <2>4, <3>1, <4>1
    <3>2. CASE c # msg[r].cert
      <4>1. BehindIt(r, c)
        BY <2>4, <3>2 DEF BehindIt
      <4>2. Settled(EmailOf(r, c, p))
        BY <2>4, <4>1 DEF RunInv
      <4> QED BY <2>4, <4>2, StaysSettled
    <3> QED BY <3>1, <3>2
  <2> QED BY <1>1, <2>3, <2>4 DEF RunInv, Settled, EmailOf
<1>5. CASE msg[r].channel = "teams"
  <2>1. pc'[r] = "plan"
    BY <1>5 DEF NextChannel, TypeOK
  <2>2. ASSUME NEW c \in WithRecipients, EmailConfigured, run'[r].failures = 0,
               BehindIt(r, c)', NEW p \in Plan(r, c)
        PROVE  log'[EmailOf(r, c, p)] \in {"sent", "skipped"}
    <3>1. BehindIt(r, c)
      BY <1>5, <2>2 DEF BehindIt
    <3>2. Settled(EmailOf(r, c, p))
      BY <2>2, <3>1 DEF RunInv
    <3> QED BY <2>2, <3>2, StaysSettled
  <2> QED BY <1>1, <2>1, <2>2 DEF RunInv, Settled, EmailOf
<1> QED BY <1>3, <1>4, <1>5

(* Planning a certificate keeps what the daily run knows.                  *)
LEMMA PlanKeepsRun ==
    ASSUME TypeOK, FoundIsCurrent, Unedited, [Next]_vars,
           NEW r \in Slots \ {"escalation"}, RunInv(r), PlanCert(r)
    PROVE  RunInv(r)'
<1>1. PICK c \in run[r].todo :
        \/ /\ Plan(r, c) = {}
           /\ run' = [run EXCEPT ![r].todo = @ \ {c}]
           /\ UNCHANGED <<log, pc, msg>>
        \/ \E p \in Plan(r, c) :
           /\ run' = [run EXCEPT ![r].todo = @ \ {c}, ![r].due = DueChannels(r, c)]
           /\ msg' = [msg EXCEPT ![r] = [cert |-> c, channel |-> "email", key |-> p.key]]
           /\ pc' = [pc EXCEPT ![r] = "check"]
  BY DEF PlanCert
<1>2. c \in Certs /\ pc[r] = "plan" /\ run[r] \in RunRecords
  BY DEF TypeOK, RunRecords, PlanCert
<1>3. ASSUME NEW d \in WithRecipients, EmailConfigured, run[r].failures = 0,
             d \in run[r].listed \ run[r].todo, NEW p \in Plan(r, d)
      PROVE  log'[EmailOf(r, d, p)] \in {"sent", "skipped"}
  <2>1. Settled(EmailOf(r, d, p))
    BY <1>2, <1>3 DEF RunInv, BehindIt
  <2> QED BY <1>3, <2>1, StaysSettled
<1>4. CASE Plan(r, c) = {} /\ run' = [run EXCEPT ![r].todo = @ \ {c}] /\ UNCHANGED <<log, pc, msg>>
  <2> DEFINE new == [run[r] EXCEPT !.todo = run[r].todo \ {c}]
  <2>1. run' = [run EXCEPT ![r] = new]
    BY <1>4
  <2>2. /\ new.hour = run[r].hour /\ new.every = run[r].every
        /\ new.channels = run[r].channels /\ new.listed = run[r].listed
        /\ new.failures = run[r].failures /\ new.todo = run[r].todo \ {c}
    BY <1>2 DEF RunRecords
  <2> HIDE DEF new
  <2>3. run'[r] = new
    BY <2>1 DEF TypeOK
  <2>4. \A d : Plan(r, d)' = Plan(r, d)
    BY <2>2, <2>3, DataStays, PlanStays
  <2>5. ASSUME NEW d \in WithRecipients, EmailConfigured, new.failures = 0,
               BehindIt(r, d)', NEW p \in Plan(r, d)
        PROVE  log'[EmailOf(r, d, p)] \in {"sent", "skipped"}
    <3>1. d # c
      BY <1>4, <2>5
    <3> QED BY <1>3, <2>2, <2>3, <2>5, <3>1 DEF BehindIt
  <2> QED BY <1>2, <1>4, <2>2, <2>3, <2>4, <2>5 DEF RunInv, Settled, EmailOf
<1>5. ASSUME NEW p \in Plan(r, c),
             run' = [run EXCEPT ![r].todo = @ \ {c}, ![r].due = DueChannels(r, c)],
             msg' = [msg EXCEPT ![r] = [cert |-> c, channel |-> "email", key |-> p.key]],
             pc' = [pc EXCEPT ![r] = "check"]
      PROVE  RunInv(r)'
  <2> DEFINE new == [run[r] EXCEPT !.todo = run[r].todo \ {c}, !.due = DueChannels(r, c)]
  <2>1. run' = [run EXCEPT ![r] = new]
    BY <1>5
  <2>2. /\ new.hour = run[r].hour /\ new.every = run[r].every
        /\ new.channels = run[r].channels /\ new.listed = run[r].listed
        /\ new.failures = run[r].failures /\ new.todo = run[r].todo \ {c}
        /\ new.due = DueChannels(r, c)
    BY <1>2 DEF RunRecords
  <2> HIDE DEF new
  <2>3. run'[r] = new /\ pc'[r] = "check"
        /\ msg'[r] = [cert |-> c, channel |-> "email", key |-> p.key]
    BY <1>5, <2>1 DEF TypeOK
  <2>4. \A d : Plan(r, d)' = Plan(r, d)
    BY <2>2, <2>3, DataStays, PlanStays
  <2>5. "email" \in run[r].channels /\ "email" \in DueChannels(r, c)
    BY <1>2 DEF RunInv, DueChannels
  <2>6. \A q \in Plan(r, c) : q.key = p.key
    BY <1>2, OnePlan
  <2>7. ASSUME NEW d \in WithRecipients, EmailConfigured, new.failures = 0,
               BehindIt(r, d)', NEW q \in Plan(r, d)
        PROVE  log'[EmailOf(r, d, q)] \in {"sent", "skipped"}
    <3>1. d # c
      BY <2>3, <2>7 DEF BehindIt
    <3> QED BY <1>3, <2>2, <2>3, <2>7, <3>1 DEF BehindIt
  <2> QED BY <2>2, <2>3, <2>4, <2>5, <2>6, <2>7 DEF RunInv, Settled, EmailOf
<1> QED BY <1>1, <1>4, <1>5

(* Recording an answer keeps what the daily run knows: the email is settled*)
(* or a failure is counted.                                                *)
LEMMA RecordKeepsRun ==
    ASSUME TypeOK, FoundIsCurrent, Unedited, [Next]_vars, NEW r \in Slots, RunInv(r),
           InFlight(r), NEW status \in {"sent", "error"}, Record(r, status)
    PROVE  RunInv(r)'
<1>1. pc[r] \notin {"idle", "plan"} /\ run[r] \in RunRecords /\ run[r].failures \in Nat
  BY DEF InFlight, TypeOK, RunRecords
<1>2. CASE Collides(r) /\ NextCert(r)
  <2> DEFINE new == [run[r] EXCEPT !.failures = run[r].failures + 1]
  <2>1. run' = [run EXCEPT ![r] = new] /\ pc'[r] = "plan"
    BY <1>2 DEF NextCert, TypeOK
  <2>2. new.channels = run[r].channels /\ new.failures # 0
    BY <1>1 DEF RunRecords
  <2> HIDE DEF new
  <2>3. run'[r] = new
    BY <2>1 DEF TypeOK
  <2> QED BY <1>1, <2>1, <2>2, <2>3 DEF RunInv
<1>3. CASE /\ ~ Collides(r) /\ NextChannel(r)
           /\ run' = [run EXCEPT ![r].failures = IF status = "error" THEN @ + 1 ELSE @]
  <2> DEFINE n == IF status = "error" THEN run[r].failures + 1 ELSE run[r].failures
             new == [run[r] EXCEPT !.failures = n]
  <2>1. run' = [run EXCEPT ![r] = new]
    BY <1>3
  <2>2. /\ new.hour = run[r].hour /\ new.every = run[r].every
        /\ new.channels = run[r].channels /\ new.listed = run[r].listed
        /\ new.failures = n /\ new.todo = run[r].todo /\ new.due = run[r].due
    BY <1>1 DEF RunRecords
  <2> HIDE DEF new
  <2>3. run'[r] = new
    BY <2>1 DEF TypeOK
  <2>4. new.failures = 0 => run[r].failures = 0 /\ status = "sent"
    BY <1>1, <2>2
  <2>5. new.failures = 0 => log'[msg[r]] \in {"sent", "skipped"}
    BY <1>3, <2>4, RecordLog
  <2> QED BY <1>1, <1>3, <2>2, <2>3, <2>4, <2>5, NextChannelKeepsRun
<1> QED BY <1>2, <1>3 DEF Record

(* Each step of a run keeps what that run knows.                           *)
LEMMA OwnStepKeepsRun ==
    ASSUME TypeOK, FoundIsCurrent, Unedited, [Next]_vars,
           NEW r \in Slots \ {"escalation"}, RunInv(r), Step(r)
    PROVE  RunInv(r)'
<1>1. CASE PlanCert(r)
  BY <1>1, PlanKeepsRun
<1>2. CASE SkipChannel(r)
  <2>1. pc[r] = "check" /\ run' = run /\ log' = log /\ NextChannel(r)
    BY <1>2 DEF SkipChannel
  <2>2. ASSUME EmailConfigured, msg[r].channel = "email", msg[r].cert \in WithRecipients
        PROVE  log'[msg[r]] \in {"sent", "skipped"}
    <3>1. "email" \in run[r].due
      BY <2>1 DEF RunInv
    <3>2. Wanted(r, msg[r])
      BY <2>2, <3>1 DEF Wanted
    <3> QED BY <1>2, <2>1, <3>2 DEF SkipChannel, Settled
  <2> QED BY <2>1, <2>2, NextChannelKeepsRun
<1>3. CASE BeginSend(r) \/ Accept(r) \/ RetryCard(r)
  <2>1. /\ pc[r] \notin {"idle", "plan"} /\ pc'[r] \notin {"idle", "plan"}
        /\ msg' = msg /\ run' = run /\ log' = log
    BY <1>3 DEF BeginSend, Accept, RetryCard, Unanswered, TypeOK
  <2>2. \A c : Plan(r, c)' = Plan(r, c)
    BY <2>1, DataStays, PlanStays
  <2> QED BY <2>1, <2>2 DEF RunInv, BehindIt, Settled, EmailOf
<1>4. CASE AnswerOk(r) \/ AnswerError(r)
  <2>1. InFlight(r) /\ \E status \in {"sent", "error"} : Record(r, status)
    BY <1>4 DEF AnswerOk, AnswerError, Unanswered, InFlight
  <2> QED BY <2>1, RecordKeepsRun
<1>5. CASE AnswerRaise(r)
  <2> DEFINE new == [run[r] EXCEPT !.failures = run[r].failures + 1]
  <2>1. run' = [run EXCEPT ![r] = new] /\ pc'[r] = "plan" /\ pc[r] # "idle"
    BY <1>5 DEF AnswerRaise, NextCert, InFlight, TypeOK
  <2>2. new.channels = run[r].channels /\ new.failures # 0
    BY DEF TypeOK, RunRecords
  <2> HIDE DEF new
  <2>3. run'[r] = new
    BY <2>1 DEF TypeOK
  <2> QED BY <2>1, <2>2, <2>3 DEF RunInv
<1>6. CASE Finish(r) \/ Abort(r)
  BY <1>6 DEF Finish, Abort, RunInv, TypeOK
<1> QED BY <1>1, <1>2, <1>3, <1>4, <1>5, <1>6 DEF Step

(* A step of one run leaves what the others have in hand alone. *)
LEMMA StepIsOwn ==
    ASSUME TypeOK, FoundIsCurrent, NEW r \in Slots, Step(r), NEW s \in Slots \ {r}
    PROVE  pc'[s] = pc[s] /\ msg'[s] = msg[s] /\ run'[s] = run[s]
<1>1. CASE PlanCert(r)
  BY <1>1 DEF PlanCert, TypeOK
<1>2. CASE SkipChannel(r) \/ BeginSend(r) \/ Accept(r) \/ RetryCard(r) \/ AnswerRaise(r)
              \/ Finish(r) \/ Abort(r)
  BY <1>2 DEF SkipChannel, BeginSend, Accept, RetryCard, AnswerRaise, Finish, Abort, NextChannel, NextCert, TypeOK
<1>3. CASE AnswerOk(r) \/ AnswerError(r)
  BY <1>3 DEF AnswerOk, AnswerError, Record, NextChannel, NextCert, TypeOK
<1> QED BY <1>1, <1>2, <1>3 DEF Step

(* CleanInv is inductive while nobody edits what the plans are made from.  *)
LEMMA CleanInvInductive ==
    TypeOK /\ FoundIsCurrent /\ Unedited /\ CleanInv /\ [Next]_vars => CleanInv'
<1> SUFFICES ASSUME TypeOK, FoundIsCurrent, Unedited, CleanInv, [Next]_vars,
                    NEW r \in Slots \ {"escalation"}
             PROVE  RunInv(r)'
  BY DEF CleanInv
<1>0. RunInv(r)
  BY DEF CleanInv
<1>1. ASSUME NEW s \in Slots, Step(s)
      PROVE  RunInv(r)'
  <2>1. CASE s = r
    BY <1>0, <1>1, <2>1, OwnStepKeepsRun
  <2>2. CASE s # r
    BY <1>0, <1>1, <2>2, StepIsOwn, OthersKeepRun
  <2> QED BY <2>1, <2>2
<1>2. ASSUME NEW s \in Slots, NEW channels, NEW listed, StartRun(s, channels, listed),
             s # "escalation" => "email" \in channels
      PROVE  RunInv(r)'
  <2>1. CASE s = r
    <3>1. /\ pc'[r] = "plan" /\ run'[r].channels = channels
          /\ run'[r].listed = listed /\ run'[r].todo = listed
      BY <1>2, <2>1 DEF StartRun, TypeOK
    <3> QED BY <1>2, <2>1, <3>1 DEF RunInv, BehindIt
  <2>2. CASE s # r
    <3>1. pc'[r] = pc[r] /\ msg'[r] = msg[r] /\ run'[r] = run[r]
      BY <1>2, <2>2 DEF StartRun, TypeOK
    <3> QED BY <1>0, <3>1, OthersKeepRun
  <2> QED BY <2>1, <2>2
<1>3. CASE StartDaily \/ StartManual \/ StartEscalation
  BY <1>2, <1>3 DEF StartDaily, StartManual, StartEscalation, JobChannels, Slots
<1>4. CASE Tick \/ EditWatched \/ EditExpiry \/ EditReminders \/ EditSettings \/ UNCHANGED vars
  <2>1. UNCHANGED <<pc, msg, run>>
    BY <1>4 DEF Tick, EditWatched, EditExpiry, EditReminders, EditSettings, Edit, vars
  <2> QED BY <1>0, <2>1, OthersKeepRun
<1>5. CASE Crash
  BY <1>5 DEF Crash, RunInv
<1> QED BY <1>1, <1>3, <1>4, <1>5 DEF Next

(* A run without failures has settled every email that was due. *)
THEOREM CleanRunsLeaveNothing == Unedited => (Spec => []CleanRunSettles)
<1> SUFFICES ASSUME Unedited
             PROVE  Spec => []CleanRunSettles
  OBVIOUS
<1>1. Init => CleanInv
  BY DEF Init, CleanInv, RunInv
<1>2. TypeOK /\ LogInv /\ CleanInv /\ [Next]_vars => CleanInv'
  BY CleanInvInductive DEF LogInv
<1>3. CleanInv => CleanRunSettles
  BY DEF CleanInv, RunInv, BehindIt, CleanRunSettles, Handled, EmailOf
<1> QED BY <1>1, <1>2, <1>3, TypeCorrect, LogIsConsistent, PTL DEF Spec
-----------------------------------------------------------------------------
(* Reminders only come nearer, as long as nobody edits a reminder list:     *)
(* expiry days, mutes and settings may change in the middle of a run, runs  *)
(* may overlap, fail and crash.                                            *)
Row(c, ch, t) == [cert |-> c, channel |-> ch, key |-> ThresholdKey(t)]

(* Where a reminder was sent, every farther one has a row. *)
SentIsNearest ==
    \A c \in Certs, ch \in Channels, t \in 0 .. MaxThreshold : \A n \in thresholds[c] :
        log[Row(c, ch, t)] = "sent" /\ t < n => log[Row(c, ch, n)] # "none"

(* A run that has a reminder in hand has been through mark_superseded: on   *)
(* the channels it sends on, every farther one has a row.                  *)
InHandIsNearest(r) ==
    pc[r] \notin {"idle", "plan"} /\ msg[r].key.kind = "t" =>
        /\ msg[r].key.n \in thresholds[msg[r].cert] \union {0}
        /\ run[r].due \subseteq run[r].channels
        /\ InFlight(r) => msg[r].channel \in run[r].due
        /\ \A ch \in run[r].channels : \A u \in thresholds[msg[r].cert] :
              msg[r].key.n < u => log[Row(msg[r].cert, ch, u)] # "none"

NearInv == SentIsNearest /\ \A r \in Slots : InHandIsNearest(r)

(* The rows of one certificate's reminders. *)
LEMMA RowsAreMessages ==
    ASSUME TypeOK, NEW c \in Certs, NEW ch \in Channels
    PROVE  /\ \A t \in 0 .. MaxThreshold : Row(c, ch, t) \in Messages
           /\ thresholds[c] \subseteq 1 .. MaxThreshold /\ thresholds[c] \subseteq 0 .. MaxThreshold
<1>1. thresholds[c] \in SUBSET (1 .. MaxThreshold) /\ MaxThreshold \in Nat
  BY JobsAssumption DEF TypeOK
<1>2. \A t \in 0 .. MaxThreshold : ThresholdKey(t) \in Keys
  BY DEF Keys
<1> QED BY <1>1, <1>2 DEF Row, Messages

LEMMA ReminderInHand ==
    ASSUME TypeOK, NEW r \in Slots, pc[r] \notin {"idle", "plan"}, msg[r].key.kind = "t"
    PROVE  /\ msg[r].cert \in Certs /\ msg[r].channel \in Channels
           /\ msg[r].key.n \in 0 .. MaxThreshold
           /\ msg[r] = Row(msg[r].cert, msg[r].channel, msg[r].key.n)
<1>1. msg[r] \in Messages
  BY InHand
<1>2. PICK t \in 0 .. MaxThreshold : msg[r].key = ThresholdKey(t)
  BY <1>1 DEF Messages, Keys, ExpiredKey, ExpiredHourKey
<1>3. msg[r].key.n = t
  BY <1>2 DEF ThresholdKey
<1> QED BY <1>1, <1>2, <1>3 DEF Messages, Row

(* Only a list that is edited changes. *)
LEMMA RemindersStay == ASSUME "reminders" \notin Edits, [Next]_vars PROVE thresholds' = thresholds
<1>1. ASSUME NEW r \in Slots, Step(r) PROVE thresholds' = thresholds
  BY <1>1 DEF Step, PlanCert, SkipChannel, BeginSend, Accept, RetryCard, AnswerOk, AnswerError,
              AnswerRaise, Record, Finish, Abort, dataVars
<1>2. CASE StartDaily \/ StartManual \/ StartEscalation
  BY <1>2 DEF StartDaily, StartManual, StartEscalation, StartRun, dataVars
<1>3. CASE Tick \/ Crash \/ EditWatched \/ EditExpiry \/ EditSettings
  BY <1>3 DEF Tick, Crash, EditWatched, EditExpiry, EditSettings, dataVars
<1>4. CASE EditReminders
  BY <1>4 DEF EditReminders, Edit
<1>5. CASE UNCHANGED vars
  BY <1>5 DEF vars, dataVars
<1> QED BY <1>1, <1>2, <1>3, <1>4, <1>5 DEF Next

(* A row stays a row, and becomes "sent" only by a run that is sending it. *)
LEMMA RowStep ==
    ASSUME TypeOK, FoundIsCurrent, [Next]_vars, NEW m \in Messages
    PROVE  /\ log[m] # "none" => log'[m] # "none"
           /\ log'[m] = "sent" => log[m] = "sent" \/ \E r \in Slots : InFlight(r) /\ msg[r] = m
<1>1. CASE log' = log
  BY <1>1
<1>2. ASSUME NEW r \in Slots, PlanCert(r)
      PROVE  /\ log[m] # "none" => log'[m] # "none"
             /\ log'[m] = "sent" => log[m] = "sent"
  BY <1>2, PlanLog
<1>3. ASSUME NEW r \in Slots, InFlight(r), NEW status \in {"sent", "error"}, Record(r, status)
      PROVE  /\ log[m] # "none" => log'[m] # "none"
             /\ log'[m] = "sent" => log[m] = "sent" \/ msg[r] = m
  BY <1>3, RecordLog
<1>4. ASSUME NEW r \in Slots, AnswerOk(r) \/ AnswerError(r)
      PROVE  InFlight(r) /\ \E status \in {"sent", "error"} : Record(r, status)
  BY <1>4 DEF AnswerOk, AnswerError, Unanswered, InFlight
<1>5. \/ log' = log
      \/ \E r \in Slots : PlanCert(r) \/ AnswerOk(r) \/ AnswerError(r)
  BY DEF Next, vars, Step, SkipChannel, BeginSend, Accept, RetryCard, AnswerRaise, Finish, Abort,
         StartDaily, StartManual, StartEscalation, StartRun, Tick, Crash, Edit, EditWatched,
         EditExpiry, EditReminders, EditSettings
<1> QED BY <1>1, <1>2, <1>3, <1>4, <1>5

(* As long as a run keeps its reminder, what it knows of the others stays. *)
LEMMA HandIsKept ==
    ASSUME TypeOK, FoundIsCurrent, "reminders" \notin Edits, [Next]_vars,
           NEW r \in Slots, InHandIsNearest(r), pc[r] \notin {"idle", "plan"},
           msg'[r].cert = msg[r].cert, msg'[r].key = msg[r].key,
           run'[r].channels = run[r].channels, run'[r].due = run[r].due,
           InFlight(r)' => msg'[r].channel \in run[r].due
    PROVE  InHandIsNearest(r)'
<1> SUFFICES ASSUME msg[r].key.kind = "t"
             PROVE  InHandIsNearest(r)'
  BY DEF InHandIsNearest
<1>1. run[r].channels \subseteq Channels
  BY DEF TypeOK, RunRecords
<1>2. msg[r].cert \in Certs
  BY ReminderInHand
<1>3. ASSUME NEW ch \in run[r].channels, NEW u \in thresholds[msg[r].cert], msg[r].key.n < u
      PROVE  log'[Row(msg[r].cert, ch, u)] # "none"
  <2>1. log[Row(msg[r].cert, ch, u)] # "none"
    BY <1>3 DEF InHandIsNearest
  <2>2. Row(msg[r].cert, ch, u) \in Messages
    BY <1>1, <1>2, RowsAreMessages
  <2> QED BY <2>1, <2>2, RowStep
<1> QED BY <1>3, RemindersStay DEF InHandIsNearest, Row

(* Planning marks every farther reminder before it takes the nearest. *)
LEMMA PlanTakesNearest ==
    ASSUME TypeOK, "reminders" \notin Edits, [Next]_vars, NEW r \in Slots, PlanCert(r)
    PROVE  InHandIsNearest(r)'
<1>1. PICK c \in run[r].todo :
        \/ UNCHANGED pc
        \/ \E p \in Plan(r, c) :
           /\ log' = MarkSuperseded(c, p.superseded, run[r].channels)
           /\ run' = [run EXCEPT ![r].todo = @ \ {c}, ![r].due = DueChannels(r, c)]
           /\ msg' = [msg EXCEPT ![r] = [cert |-> c, channel |-> "email", key |-> p.key]]
           /\ pc' = [pc EXCEPT ![r] = "check"]
  BY DEF PlanCert
<1>2. c \in Certs /\ pc[r] = "plan" /\ run[r] \in RunRecords /\ run[r].channels \subseteq Channels
  BY DEF TypeOK, RunRecords, PlanCert
<1>3. CASE UNCHANGED pc
  BY <1>2, <1>3 DEF InHandIsNearest
<1>4. ASSUME NEW p \in Plan(r, c),
             log' = MarkSuperseded(c, p.superseded, run[r].channels),
             run' = [run EXCEPT ![r].todo = @ \ {c}, ![r].due = DueChannels(r, c)],
             msg' = [msg EXCEPT ![r] = [cert |-> c, channel |-> "email", key |-> p.key]],
             pc' = [pc EXCEPT ![r] = "check"],
             p.key.kind = "t"
      PROVE  InHandIsNearest(r)'
  <2> DEFINE days == notAfter[c] - Reference(r)
             C == Crossed(days, thresholds[c])
  <2>1. PICK t \in Nearest(C) : p = [key |-> ThresholdKey(t), superseded |-> C \ {t}]
    BY <1>4 DEF Plan, PlanFor, ExpiredHourKey, ExpiredKey
  <2>2. p.key = ThresholdKey(t) /\ p.superseded = C \ {t} /\ p.key.n = t
    BY <2>1 DEF ThresholdKey
  <2>3. days \in Int
    <3>1. notAfter[c] \in Int
      BY <1>2, JobsAssumption DEF TypeOK
    <3>2. Reference(r) \in Int
      BY <1>2, JobsAssumption, HoursPerDayAssumption DEF Reference, DayOf, RunRecords
    <3> QED BY <3>1, <3>2
  <2>4. thresholds[c] \subseteq 1 .. MaxThreshold /\ MaxThreshold \in Nat
    BY <1>2, RowsAreMessages, JobsAssumption DEF Channels
  <2> HIDE DEF days
  <2>5. t \in thresholds[c] \union {0} /\ t \in Int
    BY <2>4 DEF Nearest, Crossed
  <2>6. \A u \in thresholds[c] : t < u => u \in C \ {t}
    BY <2>3, <2>4, <2>5 DEF Nearest, Crossed
  <2> HIDE DEF C
  <2> DEFINE new == [run[r] EXCEPT !.todo = run[r].todo \ {c}, !.due = DueChannels(r, c)]
  <2>7. new.due = DueChannels(r, c) /\ new.channels = run[r].channels
    BY <1>2 DEF RunRecords
  <2>8. DueChannels(r, c) \subseteq run[r].channels
    BY DEF DueChannels
  <2>9. run' = [run EXCEPT ![r] = new]
    BY <1>4
  <2> HIDE DEF new
  <2>10. /\ run'[r] = new /\ pc'[r] = "check"
         /\ msg'[r] = [cert |-> c, channel |-> "email", key |-> p.key]
    BY <1>4, <2>9 DEF TypeOK
  <2>11. ASSUME NEW ch \in run[r].channels, NEW u \in thresholds[c], t < u
         PROVE  log'[Row(c, ch, u)] # "none"
    <3>1. Row(c, ch, u) \in Messages
      BY <1>2, RowsAreMessages
    <3>2. u \in p.superseded
      BY <2>2, <2>6, <2>11
    <3>3. log'[Row(c, ch, u)] = IF log[Row(c, ch, u)] = "none" THEN "skipped" ELSE log[Row(c, ch, u)]
      BY <1>4, <3>1, <3>2 DEF MarkSuperseded, Row
    <3> QED BY <3>3
  <2>12. thresholds' = thresholds
    BY RemindersStay
  <2> QED BY <2>2, <2>5, <2>7, <2>8, <2>10, <2>11, <2>12 DEF InHandIsNearest, InFlight, Row
<1>5. ASSUME NEW p \in Plan(r, c),
             msg' = [msg EXCEPT ![r] = [cert |-> c, channel |-> "email", key |-> p.key]],
             p.key.kind # "t"
      PROVE  InHandIsNearest(r)'
  <2>1. msg'[r].key.kind # "t"
    BY <1>5 DEF TypeOK
  <2> QED BY <2>1 DEF InHandIsNearest
<1> QED BY <1>1, <1>3, <1>4, <1>5

(* Each step of a run keeps what it knows of the reminder in hand. *)
LEMMA OwnStepKeepsNearest ==
    ASSUME TypeOK, FoundIsCurrent, "reminders" \notin Edits, [Next]_vars,
           NEW r \in Slots, InHandIsNearest(r), Step(r)
    PROVE  InHandIsNearest(r)'
<1>1. CASE PlanCert(r)
  BY <1>1, PlanTakesNearest
<1>2. ASSUME pc[r] \notin {"idle", "plan"}, NextChannel(r),
             run'[r].channels = run[r].channels, run'[r].due = run[r].due
      PROVE  InHandIsNearest(r)'
  <2>1. msg[r] \in Messages
    BY <1>2, InHand
  <2>2. CASE msg[r].channel = "email"
    <3> DEFINE new == [msg[r] EXCEPT !.channel = "teams"]
    <3>1. msg' = [msg EXCEPT ![r] = new] /\ pc' = [pc EXCEPT ![r] = "check"]
      BY <1>2, <2>2 DEF NextChannel
    <3>2. new.cert = msg[r].cert /\ new.key = msg[r].key
      BY <2>1 DEF Messages
    <3> HIDE DEF new
    <3>3. pc'[r] = "check" /\ msg'[r].cert = msg[r].cert /\ msg'[r].key = msg[r].key
      BY <3>1, <3>2 DEF TypeOK
    <3> QED BY <1>2, <3>3, HandIsKept DEF InFlight
  <2>3. CASE msg[r].channel # "email"
    <3>1. pc'[r] = "plan"
      BY <1>2, <2>3 DEF NextChannel, TypeOK
    <3> QED BY <3>1 DEF InHandIsNearest
  <2> QED BY <2>2, <2>3
<1>3. CASE SkipChannel(r)
  BY <1>2, <1>3 DEF SkipChannel
<1>4. CASE BeginSend(r)
  <2>1. /\ pc[r] = "check" /\ msg' = msg /\ run' = run /\ msg[r].channel \in run[r].due
    BY <1>4 DEF BeginSend, Wanted
  <2> QED BY <2>1, HandIsKept
<1>5. CASE Accept(r) \/ RetryCard(r)
  <2>1. InFlight(r) /\ pc[r] \notin {"idle", "plan"} /\ msg' = msg /\ run' = run
    BY <1>5 DEF Accept, RetryCard, Unanswered, InFlight
  <2>2. msg[r].key.kind = "t" => msg[r].channel \in run[r].due
    BY <2>1 DEF InHandIsNearest
  <2>3. CASE msg[r].key.kind = "t"
    BY <2>1, <2>2, <2>3, HandIsKept
  <2>4. CASE msg[r].key.kind # "t"
    BY <2>1, <2>4 DEF InHandIsNearest
  <2> QED BY <2>3, <2>4
<1>6. ASSUME NextCert(r)
      PROVE  InHandIsNearest(r)'
  <2>1. pc'[r] = "plan"
    BY <1>6 DEF NextCert, TypeOK
  <2> QED BY <2>1 DEF InHandIsNearest
<1>7. ASSUME InFlight(r), NEW status \in {"sent", "error"}, Record(r, status)
      PROVE  InHandIsNearest(r)'
  <2>1. CASE NextCert(r)
    BY <1>6, <2>1
  <2>2. CASE /\ NextChannel(r)
             /\ run' = [run EXCEPT ![r].failures = IF status = "error" THEN @ + 1 ELSE @]
    <3> DEFINE n == IF status = "error" THEN run[r].failures + 1 ELSE run[r].failures
               new == [run[r] EXCEPT !.failures = n]
    <3>1. run' = [run EXCEPT ![r] = new]
      BY <2>2
    <3>2. new.channels = run[r].channels /\ new.due = run[r].due
      BY DEF TypeOK, RunRecords
    <3> HIDE DEF new
    <3>3. run'[r] = new
      BY <3>1 DEF TypeOK
    <3> QED BY <1>2, <1>7, <2>2, <3>2, <3>3 DEF InFlight
  <2> QED BY <1>7, <2>1, <2>2 DEF Record
<1>8. CASE AnswerOk(r) \/ AnswerError(r)
  BY <1>7, <1>8 DEF AnswerOk, AnswerError, Unanswered, InFlight
<1>9. CASE AnswerRaise(r)
  BY <1>6, <1>9 DEF AnswerRaise
<1>10. CASE Finish(r) \/ Abort(r)
  BY <1>10 DEF Finish, Abort, InHandIsNearest, TypeOK
<1> QED BY <1>1, <1>3, <1>4, <1>5, <1>8, <1>9, <1>10 DEF Step

(* What somebody else does leaves it alone too. *)
LEMMA OthersKeepNearest ==
    ASSUME TypeOK, FoundIsCurrent, "reminders" \notin Edits, [Next]_vars,
           NEW r \in Slots, InHandIsNearest(r),
           pc'[r] = pc[r], msg'[r] = msg[r], run'[r] = run[r]
    PROVE  InHandIsNearest(r)'
<1>1. CASE pc[r] \in {"idle", "plan"} \/ msg[r].key.kind # "t"
  BY <1>1 DEF InHandIsNearest
<1>2. CASE ~ (pc[r] \in {"idle", "plan"} \/ msg[r].key.kind # "t")
  <2>1. InFlight(r)' => msg'[r].channel \in run[r].due
    BY <1>2 DEF InHandIsNearest, InFlight
  <2> QED BY <1>2, <2>1, HandIsKept
<1> QED BY <1>1, <1>2

LEMMA NearInvInductive ==
    ASSUME TypeOK, FoundIsCurrent, "reminders" \notin Edits, [Next]_vars, NearInv
    PROVE  NearInv'
<1>1. ASSUME NEW c \in Certs, NEW ch \in Channels, NEW t \in 0 .. MaxThreshold,
             NEW n \in thresholds[c], log'[Row(c, ch, t)] = "sent", t < n
      PROVE  log'[Row(c, ch, n)] # "none"
  <2>1. Row(c, ch, t) \in Messages /\ Row(c, ch, n) \in Messages
    BY RowsAreMessages
  <2>2. CASE log[Row(c, ch, t)] = "sent"
    <3>1. log[Row(c, ch, n)] # "none"
      BY <1>1, <2>2 DEF NearInv, SentIsNearest
    <3> QED BY <2>1, <3>1, RowStep
  <2>3. ASSUME NEW r \in Slots, InFlight(r), msg[r] = Row(c, ch, t)
        PROVE  log'[Row(c, ch, n)] # "none"
    <3>1. /\ msg[r].key.kind = "t" /\ msg[r].key.n = t /\ msg[r].cert = c /\ msg[r].channel = ch
          /\ pc[r] \notin {"idle", "plan"}
      BY <2>3 DEF Row, ThresholdKey, InFlight
    <3>2. ch \in run[r].channels
      BY <2>3, <3>1 DEF NearInv, InHandIsNearest
    <3>3. log[Row(c, ch, n)] # "none"
      BY <1>1, <3>1, <3>2 DEF NearInv, InHandIsNearest
    <3> QED BY <2>1, <3>3, RowStep
  <2> QED BY <1>1, <2>1, <2>2, <2>3, RowStep
<1>2. SentIsNearest'
  BY <1>1, RemindersStay DEF SentIsNearest, Row
<1>3. ASSUME NEW r \in Slots
      PROVE  InHandIsNearest(r)'
  <2>0. InHandIsNearest(r)
    BY DEF NearInv
  <2>1. ASSUME NEW s \in Slots, Step(s)
        PROVE  InHandIsNearest(r)'
    <3>1. CASE s = r
      BY <2>0, <2>1, <3>1, OwnStepKeepsNearest
    <3>2. CASE s # r
      BY <2>0, <2>1, <3>2, StepIsOwn, OthersKeepNearest
    <3> QED BY <3>1, <3>2
  <2>2. ASSUME NEW s \in Slots, NEW channels, NEW listed, StartRun(s, channels, listed)
        PROVE  InHandIsNearest(r)'
    <3>1. CASE s = r
      <4>1. pc'[r] = "plan"
        BY <2>2, <3>1 DEF StartRun, TypeOK
      <4> QED BY <4>1 DEF InHandIsNearest
    <3>2. CASE s # r
      <4>1. pc'[r] = pc[r] /\ msg'[r] = msg[r] /\ run'[r] = run[r]
        BY <2>2, <3>2 DEF StartRun, TypeOK
      <4> QED BY <2>0, <4>1, OthersKeepNearest
    <3> QED BY <3>1, <3>2
  <2>3. CASE StartDaily \/ StartManual \/ StartEscalation
    BY <2>2, <2>3 DEF StartDaily, StartManual, StartEscalation, Slots
  <2>4. CASE Tick \/ EditWatched \/ EditExpiry \/ EditReminders \/ EditSettings \/ UNCHANGED vars
    <3>1. UNCHANGED <<pc, msg, run>>
      BY <2>4 DEF Tick, EditWatched, EditExpiry, EditReminders, EditSettings, Edit, vars
    <3> QED BY <2>0, <3>1, OthersKeepNearest
  <2>5. CASE Crash
    BY <2>5 DEF Crash, InHandIsNearest
  <2> QED BY <2>1, <2>3, <2>4, <2>5 DEF Next
<1> QED BY <1>2, <1>3 DEF NearInv

(* A send begins only in BeginSend. *)
LEMMA OnlyBeginSend ==
    ASSUME TypeOK, FoundIsCurrent, [Next]_vars, NEW r \in Slots, ~ InFlight(r), InFlight(r)'
    PROVE  BeginSend(r)
<1>1. pc'[r] # pc[r] /\ pc'[r] \in {"sending", "accepted"}
  BY DEF InFlight
<1>2. ASSUME NEW s \in Slots, Step(s) PROVE BeginSend(r)
  <2>1. s = r
    BY <1>1, <1>2, StepIsOwn
  <2>2. CASE PlanCert(r) \/ Finish(r) \/ Abort(r) \/ SkipChannel(r)
    BY <1>1, <2>2 DEF PlanCert, Finish, Abort, SkipChannel, NextChannel, TypeOK
  <2>3. CASE Accept(r) \/ RetryCard(r) \/ AnswerOk(r) \/ AnswerError(r) \/ AnswerRaise(r)
    BY <2>3 DEF Accept, RetryCard, AnswerOk, AnswerError, AnswerRaise, Unanswered, InFlight
  <2> QED BY <1>2, <2>1, <2>2, <2>3 DEF Step
<1>3. ASSUME NEW s \in Slots, NEW channels, NEW listed, StartRun(s, channels, listed) PROVE FALSE
  BY <1>1, <1>3 DEF StartRun, TypeOK
<1>4. CASE StartDaily \/ StartManual \/ StartEscalation
  BY <1>3, <1>4 DEF StartDaily, StartManual, StartEscalation, Slots
<1>5. CASE Tick \/ Crash \/ EditWatched \/ EditExpiry \/ EditReminders \/ EditSettings \/ UNCHANGED vars
  BY <1>1, <1>5 DEF Tick, Crash, EditWatched, EditExpiry, EditReminders, EditSettings, Edit, vars
<1> QED BY <1>2, <1>4, <1>5 DEF Next

(* No run, however late it is, tries a farther reminder for the first time  *)
(* after a nearer one was sent on that channel (run_daily_job,             *)
(* mark_superseded): unless somebody edits the reminder days meanwhile.    *)
THEOREM RemindersComeNearer == "reminders" \notin Edits => (Spec => NeverFarther)
<1> SUFFICES ASSUME "reminders" \notin Edits
             PROVE  Spec => NeverFarther
  OBVIOUS
<1>1. Init => NearInv
  <2> SUFFICES ASSUME Init, NEW c \in Certs, NEW ch \in Channels, NEW t \in 0 .. MaxThreshold
               PROVE  log[Row(c, ch, t)] # "sent"
    BY DEF Init, NearInv, SentIsNearest, InHandIsNearest
  <2>1. Row(c, ch, t) \in Messages
    BY InitTypeOK, RowsAreMessages
  <2> QED BY <2>1 DEF Init
<1>2. TypeOK /\ LogInv /\ NearInv /\ [Next]_vars => NearInv'
  BY NearInvInductive DEF LogInv
<1>3. TypeOK /\ LogInv /\ NearInv /\ [Next]_vars =>
        [\A r \in Slots :
            (~ InFlight(r) /\ InFlight(r)' /\ found'[r] = "none" /\ msg[r].key.kind = "t") =>
                \A t \in 0 .. MaxThreshold :
                    t < msg[r].key.n => log[[msg[r] EXCEPT !.key = ThresholdKey(t)]] # "sent"]_vars
  <2> SUFFICES ASSUME TypeOK, FoundIsCurrent, NearInv, [Next]_vars, NEW r \in Slots,
                      ~ InFlight(r), InFlight(r)', found'[r] = "none", msg[r].key.kind = "t",
                      NEW t \in 0 .. MaxThreshold, t < msg[r].key.n
               PROVE  log[[msg[r] EXCEPT !.key = ThresholdKey(t)]] # "sent"
    BY DEF LogInv
  <2>1. pc[r] = "check" /\ log[msg[r]] = "none"
    BY OnlyBeginSend DEF BeginSend, TypeOK
  <2> DEFINE c == msg[r].cert
             ch == msg[r].channel
             n == msg[r].key.n
  <2>2. c \in Certs /\ ch \in Channels /\ n \in 0 .. MaxThreshold /\ msg[r] = Row(c, ch, n)
    BY <2>1, ReminderInHand
  <2>3. n \in thresholds[c]
    BY <2>1, <2>2 DEF NearInv, InHandIsNearest
  <2>4. [msg[r] EXCEPT !.key = ThresholdKey(t)] = Row(c, ch, t)
    BY <2>1, InHand DEF Row, Messages
  <2> HIDE DEF c, ch, n
  <2>5. log[Row(c, ch, t)] # "sent"
    BY <2>1, <2>2, <2>3 DEF NearInv, SentIsNearest, n
  <2> QED BY <2>4, <2>5
<1> QED BY <1>1, <1>2, <1>3, TypeCorrect, LogIsConsistent, PTL DEF Spec, NeverFarther
-----------------------------------------------------------------------------
(* Days, and the email of the expiry day: what the theorems about that day  *)
(* share.                                                                  *)

(* A run that goes on keeps its row and its hour.                          *)
LEMMA RunGoesOn ==
    ASSUME TypeOK, NEW r \in Slots, Step(r), pc'[r] # "idle"
    PROVE  pc[r] # "idle" /\ run'[r].id = run[r].id /\ run'[r].hour = run[r].hour
<1>1. run[r] \in RunRecords /\ run \in [Slots -> RunRecords] /\ pc \in [Slots -> {"idle", "plan", "check", "sending", "accepted"}]
  BY DEF TypeOK
<1>2. CASE PlanCert(r)
  BY <1>1, <1>2 DEF PlanCert, RunRecords
<1>3. CASE SkipChannel(r) \/ BeginSend(r) \/ Accept(r) \/ RetryCard(r)
  BY <1>3 DEF SkipChannel, BeginSend, Accept, RetryCard, Unanswered
<1>4. CASE AnswerOk(r) \/ AnswerError(r) \/ AnswerRaise(r)
  <2>1. pc[r] # "idle"
    BY <1>4 DEF AnswerOk, AnswerError, AnswerRaise, Unanswered, InFlight
  <2>2. \E n : run' = [run EXCEPT ![r].failures = n]
    BY <1>4 DEF AnswerOk, AnswerError, AnswerRaise, Record, NextCert
  <2> QED BY <1>1, <2>1, <2>2 DEF RunRecords
<1>5. CASE Finish(r) \/ Abort(r)
  BY <1>1, <1>5 DEF Finish, Abort
<1> QED BY <1>2, <1>3, <1>4, <1>5 DEF Step

(* The clock does not go back. *)
LEMMA HourMovesOn ==
    ASSUME TypeOK, [Next]_vars
    PROVE  hour \in Nat /\ hour' \in Nat /\ hour' >= hour
<1>1. hour' = hour \/ hour' \in hour + 1 .. MaxHour
  BY DEF Next, vars, Step, PlanCert, SkipChannel, BeginSend, Accept, RetryCard, AnswerOk, AnswerError,
         AnswerRaise, Record, Finish, Abort, StartDaily, StartManual, StartEscalation, StartRun,
         Tick, Crash, Edit, EditWatched, EditExpiry, EditReminders, EditSettings
<1>2. hour \in Nat
  BY DEF TypeOK
<1> QED BY <1>1, <1>2, JobsAssumption

(* The days of the clock: whole, in order, HoursPerDay hours each.         *)
LEMMA DayBounds ==
    ASSUME NEW a \in Nat
    PROVE  /\ DayOf(a) \in Nat
           /\ DayOf(a) * HoursPerDay \in Nat
           /\ DayOf(a) * HoursPerDay <= a
           /\ a < DayOf(a) * HoursPerDay + HoursPerDay
<1> DEFINE day == a \div HoursPerDay
           rest == a % HoursPerDay
<1>1. HoursPerDay \in Nat \ {0}
  BY HoursPerDayAssumption
<1>2. day \in Int /\ day >= 0 /\ rest \in 0 .. HoursPerDay - 1
  BY <1>1
<1>3. a = HoursPerDay * day + rest
  BY <1>1
<1> HIDE DEF day, rest
<1>4. day * HoursPerDay \in Nat /\ day * HoursPerDay <= a /\ a < day * HoursPerDay + HoursPerDay
  BY <1>1, <1>2, <1>3
<1> QED BY <1>2, <1>4 DEF DayOf, day

LEMMA DayOrder ==
    ASSUME NEW a \in Nat, NEW b \in Nat, a <= b
    PROVE  DayOf(a) <= DayOf(b)
<1> PICK da \in Nat : da = DayOf(a)
  BY DayBounds
<1> PICK db \in Nat : db = DayOf(b)
  BY DayBounds
<1>1. da * HoursPerDay <= a /\ b < db * HoursPerDay + HoursPerDay
  BY DayBounds
<1>2. CASE db < da
  <2>1. HoursPerDay \in Nat
    BY HoursPerDayAssumption
  <2>2. da >= db + 1
    BY <1>2
  <2>3. da * HoursPerDay >= (db + 1) * HoursPerDay
    BY <2>1, <2>2
  <2>4. (db + 1) * HoursPerDay = db * HoursPerDay + HoursPerDay
    BY <2>1
  <2> QED BY <1>1, <2>1, <2>3, <2>4
<1> QED BY <1>2

(* The email of the expiry day. *)
TrialOf(c) == [cert |-> c, channel |-> "email", key |-> ThresholdKey(0)]

LEMMA TrialIsMessage == \A c \in Certs : TrialOf(c) \in Messages
<1>1. ThresholdKey(0) \in Keys
  BY JobsAssumption DEF Keys
<1> QED BY <1>1 DEF TrialOf, Messages, Channels

(* plan_for on the day of expiry: the email of that very day.              *)
LEMMA ExpiryPlan ==
    ASSUME TypeOK, NEW r \in Slots \ {"escalation"}, NEW c \in Certs, notAfter[c] = Reference(r)
    PROVE  Plan(r, c) # {} /\ \A p \in Plan(r, c) : p.key = ThresholdKey(0)
<1> PICK day : day = Reference(r)
  OBVIOUS
<1>1. day \in Nat
  <2>1. run[r].hour \in Nat
    BY DEF TypeOK, RunRecords
  <2> QED BY <2>1, DayBounds DEF Reference
<1>2. thresholds[c] \subseteq Nat \ {0}
  <2>1. thresholds[c] \in SUBSET (1 .. MaxThreshold) /\ MaxThreshold \in Nat
    BY JobsAssumption DEF TypeOK
  <2> QED BY <2>1
<1>3. notAfter[c] - Reference(r) = 0
  BY <1>1
<1>4. Nearest(Crossed(0, thresholds[c])) = {0}
  BY <1>2 DEF Nearest, Crossed
<1>5. Plan(r, c) = PlanFor(0, thresholds[c], Reference(r), settings.dailyWhenExpired)
  BY <1>3 DEF Plan
<1>6. PlanFor(0, thresholds[c], Reference(r), settings.dailyWhenExpired)
      = {[key |-> ThresholdKey(t), superseded |-> Crossed(0, thresholds[c]) \ {t}] : t \in {0}}
  BY <1>4 DEF PlanFor
<1> PICK only : only = [key |-> ThresholdKey(0), superseded |-> Crossed(0, thresholds[c]) \ {0}]
  OBVIOUS
<1>7. Plan(r, c) = {only}
  BY <1>5, <1>6
<1>8. only.key = ThresholdKey(0)
  OBVIOUS
<1> QED BY <1>7, <1>8

(* What a run does with the certificate it takes.                          *)
LEMMA PlanChooses ==
    ASSUME NEW r \in Slots, PlanCert(r)
    PROVE  \E d \in run[r].todo :
              \/ /\ Plan(r, d) = {}
                 /\ run' = [run EXCEPT ![r].todo = @ \ {d}]
              \/ \E p \in Plan(r, d) :
                 /\ run' = [run EXCEPT ![r].todo = @ \ {d}, ![r].due = DueChannels(r, d)]
                 /\ msg' = [msg EXCEPT ![r] = [cert |-> d, channel |-> "email", key |-> p.key]]
BY DEF PlanCert
=============================================================================
