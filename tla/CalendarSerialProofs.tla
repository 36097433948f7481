------------------------- MODULE CalendarSerialProofs -------------------------
(***************************************************************************)
(* What the calendar rows say, proved for one request at a time in a       *)
(* process that does not stop: the rows tell what people hold, what is     *)
(* sent is newer than what they hold, and what they hold is the event of   *)
(* today.  Refused messages and lost answers are allowed.  (With two       *)
(* requests at once, or after a crash between a send and its commit, all   *)
(* three fail.)  And what it takes for archived records to leave nothing   *)
(* in anybody's calendar.                                                  *)
(***************************************************************************)
EXTENDS CalendarProofs

OneAtATime == (\E r : Requests = {r}) /\ "crash" \notin Faults

(* The row of an event as the request sees it: the change it has not        *)
(* committed, or the table.                                                *)
RowNow(r, u) == IF pending[r] # NoRow /\ u = Expiry(r) THEN pending[r] ELSE invites[u]

(* The mail has arrived and its row is not written yet. *)
Between(r, u) == pc[r] = "accepted" /\ u = UidOf(r)

(* A row that says "sent" tells what the people it names hold. *)
Told(row, u) ==
    row # NoRow /\ row.status = "sent" =>
        \A p \in row.to :
            IF row.cancelled THEN ~ Shows(p, u)
            ELSE Shows(p, u) /\ held[p][u].seq = row.seq /\ held[p][u].event.date = row.date

(* And no row is behind what anybody holds, sent or not. *)
Covers(row, u) == \A p \in People : held[p][u] # NoEvent => row # NoRow /\ held[p][u].seq <= row.seq

RowsTold(r) == \A u \in Uids : ~ Between(r, u) => Told(RowNow(r, u), u) /\ Covers(RowNow(r, u), u)

(* A request that sends has read the row that is still there. *)
SendInv(r) ==
    InFlight(r) => /\ loaded[r] = invites[UidOf(r)]
                   /\ mail[r].seq = SequenceAfter(loaded[r])
                   /\ mail[r].cancelled = (StepOf(r) # "publish")

(* Once it is accepted, everybody it names holds what it says. *)
Arrived(r) ==
    pc[r] = "accepted" =>
        /\ \A p \in People : held[p][UidOf(r)] # NoEvent => held[p][UidOf(r)].seq <= mail[r].seq
        /\ \A p \in work[r].to : IF mail[r].cancelled THEN ~ Shows(p, UidOf(r))
                                 ELSE held[p][UidOf(r)] = mail[r]

RowInv(r) == RowsTold(r) /\ SendInv(r) /\ Arrived(r)

-----------------------------------------------------------------------------
(* A step that leaves the calendars, and the rows as the request sees them. *)
LEMMA RowsAreLeft ==
    ASSUME NEW r \in Requests, RowInv(r), ~ InFlight(r), ~ InFlight(r)', held' = held,
           \A u \in Uids : RowNow(r, u)' = RowNow(r, u)
    PROVE  RowInv(r)'
<1>1. \A u \in Uids : Told(RowNow(r, u), u) /\ Covers(RowNow(r, u), u)
  BY DEF RowInv, RowsTold, Between, InFlight
<1>2. \A u \in Uids : Told(RowNow(r, u), u)' /\ Covers(RowNow(r, u), u)'
  BY <1>1 DEF Told, Covers, Shows
<1> QED
  BY <1>2 DEF RowInv, RowsTold, SendInv, Arrived, InFlight

(* Nothing waits for a commit outside a call. *)
LEMMA OutsideACall ==
    ASSUME NEW r \in Requests, RowInv(r), WorkInv(r), pc[r] \in {"idle", "open"},
           ~ InFlight(r)', UNCHANGED <<invites, held, pending>>
    PROVE  RowInv(r)'
<1>1. pending[r] = NoRow /\ pending'[r] = NoRow /\ ~ InFlight(r)
  BY DEF WorkInv, InCall, InFlight
<1>2. \A u \in Uids : RowNow(r, u)' = RowNow(r, u)
  BY <1>1 DEF RowNow
<1> QED
  BY <1>1, <1>2, RowsAreLeft

(* With nobody else there, no lock is waited for, no row appears or changes *)
(* during a send, and the row is written as it was meant.                  *)
LEMMA NobodyInTheWay ==
    ASSUME CallInv, NEW r \in Requests, Requests = {r}, SendInv(r)
    PROVE  /\ ~ FlushFails(r)
           /\ InFlight(r) => ~ CommitFails(r)
           /\ InFlight(r) => \A new \in Rows : Merge(invites[UidOf(r)], loaded[r], new) = new
<1>1. writer \in {r, NoOne}
  BY DEF CallInv, TypeOK
<1>2. ~ Locked(r)
  BY <1>1 DEF Locked
<1>3. ASSUME InFlight(r), NEW new \in Rows
      PROVE  Merge(invites[UidOf(r)], loaded[r], new) = new
  <2>1. loaded[r] = invites[UidOf(r)]
    BY <1>3 DEF SendInv
  <2>2. new = [column \in DOMAIN new |-> new[column]]
    BY DEF Rows
  <2> QED
    BY <2>1, <2>2 DEF Merge
<1> QED
  BY <1>2, <1>3 DEF FlushFails, CommitFails, Collides, SendInv

(* The steps of a call, and the rows they are about. *)
LEMMA StepNow ==
    ASSUME CallInv, NEW r \in Requests, InCall(r)
    PROVE  /\ UidOf(r) \in Uids /\ Expiry(r) \in Uids
           /\ pending[r] # NoRow => StepOf(r) = "cancelLegacy" /\ UidOf(r) # Expiry(r)
           /\ StepOf(r) = "cancel" => UidOf(r) = Expiry(r)
<1>1. pending[r] # NoRow => StepOf(r) = "cancelLegacy"
  BY DEF CallInv, WorkInv, StepOf
<1> QED
  BY <1>1, UidsInCall DEF CallInv, UidOf, Expiry

LEMMA SkipKeepsRows ==
    ASSUME CallInv, NEW r \in Requests, RowInv(r), SkipStep(r)
    PROVE  RowInv(r)'
<1>1. /\ pc[r] = "step" /\ Advance(r) /\ held' = held
      /\ invites' = IF pending[r] = NoRow THEN invites ELSE [invites EXCEPT ![Expiry(r)] = pending[r]]
      /\ pending' = [pending EXCEPT ![r] = NoRow]
  BY DEF SkipStep
<1>2. InCall(r) /\ ~ InFlight(r) /\ pending'[r] = NoRow
  BY <1>1 DEF InCall, InFlight, CallInv, TypeOK
<1>3. pc'[r] \in {"open", "step"}
  BY <1>1, <1>2, AdvanceKeepsWork DEF CallInv, TypeOK
<1>4. \A u \in Uids : RowNow(r, u)' = RowNow(r, u)
  BY <1>1, <1>2, UidsInCall DEF RowNow, CallInv, TypeOK
<1> QED
  BY <1>1, <1>2, <1>3, <1>4, RowsAreLeft DEF InFlight

LEMMA BeginKeepsRows ==
    ASSUME CallInv, NEW r \in Requests, RowInv(r), BeginSend(r)
    PROVE  RowInv(r)'
<1> DEFINE event == IF StepOf(r) = "cancelLegacy" THEN work[r].event ELSE Event(work[r].cert)
           message == [seq |-> SequenceAfter(invites[UidOf(r)]),
                       cancelled |-> StepOf(r) # "publish", event |-> event]
<1>1. /\ pc[r] = "step" /\ pc' = [pc EXCEPT ![r] = "sending"]
      /\ loaded' = [loaded EXCEPT ![r] = invites[UidOf(r)]]
      /\ mail' = [mail EXCEPT ![r] = message]
      /\ UNCHANGED <<invites, held, work, pending>>
  BY DEF BeginSend
<1>2. /\ message.seq = SequenceAfter(invites[UidOf(r)])
      /\ message.cancelled = (StepOf(r) # "publish")
  OBVIOUS
<1> HIDE DEF message
<1>3. /\ pc'[r] = "sending" /\ loaded'[r] = invites[UidOf(r)] /\ mail'[r] = message
  BY <1>1 DEF CallInv, TypeOK
<1>4. /\ UidOf(r)' = UidOf(r) /\ StepOf(r)' = StepOf(r)
      /\ \A u \in Uids : RowNow(r, u)' = RowNow(r, u)
  BY <1>1 DEF UidOf, StepOf, RowNow, Expiry
<1>5. SendInv(r)' /\ Arrived(r)'
  BY <1>1, <1>2, <1>3, <1>4 DEF SendInv, Arrived
<1>6. \A u \in Uids : Told(RowNow(r, u), u) /\ Covers(RowNow(r, u), u)
  BY <1>1 DEF RowInv, RowsTold, Between
<1>7. \A u \in Uids : Told(RowNow(r, u), u)' /\ Covers(RowNow(r, u), u)'
  BY <1>1, <1>4, <1>6 DEF Told, Covers, Shows
<1> QED
  BY <1>5, <1>7 DEF RowInv, RowsTold

(* What is sent is newer than what anybody holds. *)
LEMMA MailIsNewer ==
    ASSUME CallInv, NEW r \in Requests, RowInv(r), pc[r] = "sending",
           NEW p \in People, held[p][UidOf(r)] # NoEvent
    PROVE  mail[r].seq > held[p][UidOf(r)].seq
<1>1. InCall(r) /\ InFlight(r)
  BY DEF InCall, InFlight
<1>2. UidOf(r) \in Uids /\ RowNow(r, UidOf(r)) = invites[UidOf(r)]
  BY <1>1, StepNow DEF RowNow
<1>3. invites[UidOf(r)] # NoRow /\ held[p][UidOf(r)].seq <= invites[UidOf(r)].seq
  BY <1>2 DEF RowInv, RowsTold, Between, Covers
<1>4. invites[UidOf(r)].seq \in Nat /\ held[p][UidOf(r)].seq \in Nat
  BY <1>2, <1>3 DEF CallInv, TypeOK, Rows, Messages
<1>5. mail[r].seq = invites[UidOf(r)].seq + 1
  BY <1>1, <1>3 DEF RowInv, SendInv, SequenceAfter
<1> QED
  BY <1>3, <1>4, <1>5

LEMMA AcceptKeepsRows ==
    ASSUME CallInv, NEW r \in Requests, RowInv(r), Accept(r)
    PROVE  RowInv(r)'
<1> DEFINE at == UidOf(r)
<1>1. /\ pc[r] = "sending" /\ pc' = [pc EXCEPT ![r] = "accepted"]
      /\ held' = [p \in People |->
            IF p \in work[r].to /\ Replaces(mail[r], held[p][at])
            THEN [held[p] EXCEPT ![at] = mail[r]] ELSE held[p]]
      /\ UNCHANGED <<invites, work, mail, loaded, pending>>
  BY DEF Accept
<1>2. InFlight(r) /\ InCall(r) /\ pc'[r] = "accepted" /\ InFlight(r)'
  BY <1>1 DEF InFlight, InCall, CallInv, TypeOK
<1>3. /\ at \in Uids /\ at' = at /\ StepOf(r)' = StepOf(r)
      /\ \A u \in Uids : RowNow(r, u)' = RowNow(r, u)
  BY <1>1, <1>2, StepNow DEF UidOf, StepOf, RowNow, Expiry
<1>4. mail[r] \in Messages /\ mail[r] # NoEvent /\ mail[r].seq \in Nat /\ work[r].to \subseteq People
  <2>1. mail[r] \in Messages /\ mail[r] # NoEvent
    BY <1>2 DEF CallInv, TypeOK
  <2> QED
    BY <2>1 DEF CallInv, TypeOK, WorkRecords, Messages
<1>5. \A p \in People : held[p][at] # NoEvent => mail[r].seq > held[p][at].seq /\ held[p][at].seq \in Nat
  <2>1. \A p \in People : held[p][at] \in Messages \union {NoEvent}
    BY <1>3 DEF CallInv, TypeOK
  <2> QED
    BY <1>1, <2>1, MailIsNewer DEF Messages
<1> HIDE DEF at
<1>6. \A p \in People, u \in Uids \ {at} : held'[p][u] = held[p][u]
  BY <1>1
<1>7. \A p \in People : held'[p][at] = IF p \in work[r].to /\ Replaces(mail[r], held[p][at])
                                       THEN mail[r] ELSE held[p][at]
  BY <1>1, <1>3 DEF CallInv, TypeOK
<1>8. Arrived(r)'
  <2>1. \A p \in People : held'[p][at] # NoEvent => held'[p][at].seq <= mail[r].seq
    BY <1>4, <1>5, <1>7
  <2>2. ASSUME NEW p \in work[r].to
        PROVE  IF mail[r].cancelled THEN ~ Shows(p, at)' ELSE held'[p][at] = mail[r]
    <3>1. CASE held[p][at] = NoEvent
      BY <1>3, <1>4, <1>7, <3>1 DEF Replaces, Shows
    <3>2. CASE held[p][at] # NoEvent
      <4>1. held'[p][at] = mail[r]
        BY <1>4, <1>5, <1>7, <3>2 DEF Replaces
      <4> QED
        BY <1>3, <1>4, <4>1 DEF Shows
    <3> QED
      BY <3>1, <3>2
  <2> QED
    BY <1>1, <1>3, <2>1, <2>2 DEF Arrived, at
<1>9. SendInv(r)'
  BY <1>1, <1>2, <1>3 DEF RowInv, SendInv, at
<1>10. RowsTold(r)'
  <2> SUFFICES ASSUME NEW u \in Uids, u # at
               PROVE  Told(RowNow(r, u), u)' /\ Covers(RowNow(r, u), u)'
    BY <1>2, <1>3 DEF RowsTold, Between, at
  <2>1. Told(RowNow(r, u), u) /\ Covers(RowNow(r, u), u)
    BY <1>1 DEF RowInv, RowsTold, Between
  <2>2. RowNow(r, u) # NoRow => RowNow(r, u).to \subseteq People
    BY <1>2, UidsInCall DEF RowNow, CallInv, TypeOK, Rows
  <2> QED
    BY <1>3, <1>6, <2>1, <2>2 DEF Told, Covers, Shows
<1> QED
  BY <1>8, <1>9, <1>10 DEF RowInv

(* The row an answer writes. *)
Written(r, status) == Row(mail[r].seq, mail[r].cancelled, status, mail[r].event.date, work[r].to)

(* With nobody else there an answer writes that row, and no other. *)
LEMMA AnswerNow ==
    ASSUME CallInv, NEW r \in Requests, Requests = {r}, SendInv(r), InFlight(r),
           NEW status \in {"sent", "error"}, Answer(r, status)
    PROVE  /\ Written(r, status) \in Rows /\ Written(r, status) # NoRow
           /\ \A u \in Uids : RowNow(r, u)' = IF u = UidOf(r) THEN Written(r, status) ELSE RowNow(r, u)
           /\ UNCHANGED <<records, settings, held, untold>>
           /\ pc'[r] = (IF Tail(work[r].steps) = <<>> THEN "open" ELSE "step")
           /\ Advance(r)
<1> DEFINE new == Written(r, status)
<1>1. new \in Rows
  <2>1. mail[r] \in Messages /\ work[r].to \in SUBSET People
    BY DEF CallInv, TypeOK, WorkRecords
  <2>2. mail[r].seq \in Nat /\ mail[r].cancelled \in BOOLEAN /\ mail[r].event.date \in Days
    BY <2>1 DEF Messages, Events
  <2> QED
    BY <2>1, <2>2 DEF Row, Rows, Written
<1>2. ~ CommitFails(r) /\ Merge(invites[UidOf(r)], loaded[r], new) = new
  BY <1>1, NobodyInTheWay
<1>3. /\ Keep(r, new) /\ Advance(r) /\ UNCHANGED <<records, settings, held, untold>>
  BY <1>2 DEF Answer, Written
<1>4. new # NoRow
  BY <1>1, NamesAssumption
<1>5. InCall(r) /\ pc'[r] = (IF Tail(work[r].steps) = <<>> THEN "open" ELSE "step")
  BY <1>3 DEF InCall, InFlight, Advance, CallInv, TypeOK
<1>6. Expiry(r)' = Expiry(r)
  BY <1>3, <1>5, AdvanceKeepsWork DEF Expiry
<1>7. ASSUME NEW u \in Uids
      PROVE  RowNow(r, u)' = IF u = UidOf(r) THEN new ELSE RowNow(r, u)
  <2> HIDE DEF new
  <2>1. CASE StepOf(r) = "cancel"
    <3>1. pending' = [pending EXCEPT ![r] = new] /\ invites' = invites
      BY <1>3, <2>1 DEF Keep
    <3>2. pending[r] = NoRow /\ UidOf(r) = Expiry(r) /\ pending'[r] = new
      BY <1>5, <2>1, <3>1, StepNow DEF CallInv, TypeOK
    <3> QED
      BY <1>4, <1>6, <3>1, <3>2 DEF RowNow
  <2>2. CASE StepOf(r) # "cancel"
    <3>1. /\ invites' = [v \in Uids |->
                CASE v = UidOf(r) -> new
                  [] v = Expiry(r) /\ v # UidOf(r) /\ pending[r] # NoRow -> pending[r]
                  [] OTHER -> invites[v]]
          /\ pending' = [pending EXCEPT ![r] = NoRow]
      BY <1>3, <2>2 DEF Keep
    <3>2. pending'[r] = NoRow /\ RowNow(r, u)' = invites'[u]
      BY <3>1 DEF RowNow, CallInv, TypeOK
    <3>3. CASE u = UidOf(r)
      BY <3>1, <3>2, <3>3
    <3>4. CASE u # UidOf(r)
      BY <3>1, <3>2, <3>4 DEF RowNow
    <3> QED
      BY <3>3, <3>4
  <2> QED
    BY <2>1, <2>2
<1> QED
  BY <1>1, <1>3, <1>4, <1>5, <1>7

LEMMA AnswerKeepsRows ==
    ASSUME CallInv, NEW r \in Requests, Requests = {r}, RowInv(r), AnswerOk(r) \/ AnswerError(r)
    PROVE  RowInv(r)'
<1>1. PICK status \in {"sent", "error"} :
         /\ InFlight(r) /\ Answer(r, status)
         /\ status = "sent" => pc[r] = "accepted"
  BY DEF AnswerOk, AnswerError, InFlight
<1> DEFINE new == Written(r, status)
           at == UidOf(r)
<1>2. /\ new \in Rows /\ new # NoRow
      /\ \A u \in Uids : RowNow(r, u)' = IF u = at THEN new ELSE RowNow(r, u)
      /\ held' = held /\ ~ InFlight(r)' /\ InCall(r)
  BY <1>1, AnswerNow DEF RowInv, InFlight, InCall
<1>3. /\ new.seq = mail[r].seq /\ new.cancelled = mail[r].cancelled /\ new.status = status
      /\ new.date = mail[r].event.date /\ new.to = work[r].to
  BY DEF Written, Row
<1>4. mail[r] \in Messages /\ mail[r] # NoEvent /\ mail[r].cancelled \in BOOLEAN
      /\ work[r].to \subseteq People /\ at \in Uids
  <2>1. mail[r] \in Messages /\ mail[r] # NoEvent /\ work[r] \in WorkRecords
    BY <1>1 DEF CallInv, TypeOK
  <2> QED
    BY <1>2, <2>1, StepNow DEF Messages, WorkRecords
<1>5. Told(new, at)
  <2> SUFFICES ASSUME status = "sent", NEW p \in work[r].to
               PROVE  IF mail[r].cancelled THEN ~ Shows(p, at)
                      ELSE Shows(p, at) /\ held[p][at].seq = mail[r].seq
                           /\ held[p][at].event.date = mail[r].event.date
    BY <1>3 DEF Told
  <2>1. IF mail[r].cancelled THEN ~ Shows(p, at) ELSE held[p][at] = mail[r]
    BY <1>1 DEF RowInv, Arrived
  <2> QED
    BY <1>4, <2>1 DEF Shows
<1>6. Covers(new, at)
  <2> SUFFICES ASSUME NEW p \in People, held[p][at] # NoEvent
               PROVE  held[p][at].seq <= mail[r].seq
    BY <1>2, <1>3 DEF Covers
  <2>1. CASE pc[r] = "accepted"
    BY <2>1 DEF RowInv, Arrived
  <2>2. CASE pc[r] = "sending"
    <3>1. mail[r].seq > held[p][at].seq
      BY <2>2, MailIsNewer
    <3>2. held[p][at].seq \in Nat /\ mail[r].seq \in Nat
      BY <1>4 DEF CallInv, TypeOK, Messages
    <3> QED
      BY <3>1, <3>2
  <2> QED
    BY <1>1, <2>1, <2>2 DEF InFlight
<1> HIDE DEF new, at
<1>7. \A u \in Uids \ {at} : Told(RowNow(r, u), u) /\ Covers(RowNow(r, u), u)
  BY DEF RowInv, RowsTold, Between, at
<1>8. \A u \in Uids : Told(RowNow(r, u), u)' /\ Covers(RowNow(r, u), u)'
  <2> TAKE u \in Uids
  <2>1. CASE u = at
    BY <1>2, <1>5, <1>6, <2>1 DEF Told, Covers, Shows
  <2>2. CASE u # at
    BY <1>2, <1>7, <2>2 DEF Told, Covers, Shows
  <2> QED
    BY <2>1, <2>2
<1> QED
  BY <1>2, <1>8 DEF RowInv, RowsTold, SendInv, Arrived, InFlight

-----------------------------------------------------------------------------
(* Every step of the only request. *)
RowsInv == \A r \in Requests : RowInv(r)

(* The event of an installation that predates the single event. *)
LEMMA InitRow ==
    ASSUME Init, NEW u \in Uids, u[1] \in Ids
    PROVE  /\ u[1] = 1 /\ invites[u] \in Rows /\ invites[u] # NoRow
           /\ invites[u].to = Audience(1) /\ Audience(1) \subseteq People
           /\ invites[u].seq = 0 /\ ~ invites[u].cancelled /\ invites[u].date = records[1].date
           /\ \A p \in People : held[p][u] = IF p \in Audience(1) THEN LegacyEvent ELSE NoEvent
           /\ LegacyEvent # NoEvent /\ LegacyEvent.seq = 0 /\ ~ LegacyEvent.cancelled
           /\ LegacyEvent.event = Event(1) /\ Event(1).date = records[1].date
<1>1. /\ invites = [v \in Uids |->
            IF v[1] \in Ids THEN Row(0, FALSE, "sent", records[1].date, Audience(1)) ELSE NoRow]
      /\ held = [p \in People |-> [v \in Uids |->
            IF v[1] \in Ids /\ p \in Audience(1) THEN LegacyEvent ELSE NoEvent]]
  BY DEF Init
<1>2. CallInv
  BY CallInvInit
<1>3. u[1] = 1 /\ 1 \in Ids /\ records[1] \in Record
  <2>1. Ids \subseteq {1}
    BY DEF Init, Ids
  <2> QED
    BY <1>2, <2>1 DEF CallInv, TypeOK, Ids
<1>4. records[1].date \in Days /\ Audience(1) \in SUBSET People /\ Event(1) \in Events
  BY <1>2, <1>3, EventAt DEF CallInv, TypeOK, Record
<1>5. invites[u] = Row(0, FALSE, "sent", records[1].date, Audience(1))
  BY <1>1
<1>6. invites[u] \in Rows /\ invites[u] # NoRow
  <2>1. Row(0, FALSE, "sent", records[1].date, Audience(1)) \in Rows
    BY <1>4 DEF Row, Rows
  <2> QED
    BY <1>5, <2>1, NamesAssumption
<1>7. /\ invites[u].to = Audience(1) /\ invites[u].seq = 0
      /\ ~ invites[u].cancelled /\ invites[u].date = records[1].date
  BY <1>5 DEF Row
<1>8. \A p \in People : held[p][u] = IF p \in Audience(1) THEN LegacyEvent ELSE NoEvent
  BY <1>1
<1>9. LegacyEvent # NoEvent
  <2>1. LegacyEvent \in Messages
    BY <1>4 DEF LegacyEvent, Messages
  <2> QED
    BY <2>1, NamesAssumption
<1>10. /\ LegacyEvent.seq = 0 /\ ~ LegacyEvent.cancelled
       /\ LegacyEvent.event = Event(1) /\ Event(1).date = records[1].date
  BY DEF LegacyEvent, Event
<1> QED
  BY <1>3, <1>4, <1>6, <1>7, <1>8, <1>9, <1>10

LEMMA RowsInit ==
    ASSUME Init
    PROVE  RowsInv
<1> SUFFICES ASSUME NEW r \in Requests
             PROVE  RowInv(r)
  BY DEF RowsInv
<1>1. pc[r] = "idle" /\ pending[r] = NoRow
  BY DEF Init
<1>2. ASSUME NEW u \in Uids
      PROVE  Told(invites[u], u) /\ Covers(invites[u], u)
  <2>1. CASE u[1] \notin Ids
    BY <2>1 DEF Init, Told, Covers
  <2>2. CASE u[1] \in Ids
    <3>1. /\ invites[u] # NoRow /\ invites[u].to = Audience(1) /\ Audience(1) \subseteq People
          /\ invites[u].seq = 0 /\ ~ invites[u].cancelled /\ invites[u].date = records[1].date
          /\ \A p \in People : held[p][u] = IF p \in Audience(1) THEN LegacyEvent ELSE NoEvent
          /\ LegacyEvent # NoEvent /\ LegacyEvent.seq = 0 /\ ~ LegacyEvent.cancelled
          /\ LegacyEvent.event.date = records[1].date
      BY <2>2, InitRow
    <3> HIDE DEF LegacyEvent
    <3>2. \A p \in People : held[p][u] # NoEvent => held[p][u].seq <= invites[u].seq
      <4>1. \A p \in People : held[p][u] # NoEvent => held[p][u].seq = 0
        BY <3>1
      <4> QED
        BY <3>1, <4>1
    <3>3. \A p \in Audience(1) : held[p][u] = LegacyEvent /\ Shows(p, u)
      BY <3>1 DEF Shows
    <3>4. Told(invites[u], u)
      BY <3>1, <3>3 DEF Told
    <3> QED
      BY <3>1, <3>2, <3>4 DEF Covers
  <2> QED
    BY <2>1, <2>2
<1> QED
  BY <1>1, <1>2 DEF RowInv, RowsTold, RowNow, SendInv, Arrived, InFlight

(* A route leaves rows and calendars to the calls it has still to make. *)
LEMMA RouteServes ==
    ASSUME NEW r \in Requests, Route(r)
    PROVE  \E route, calls, later : Serve(r, route, calls, later)
BY DEF Route, RegisterUpload, RegisterManual, UpdateCertificate, ArchiveCertificate,
       RestoreCertificate, Attach, RenewCertificate, ResendInvites, SaveGlobalSettings

LEMMA StepKeepsRows ==
    ASSUME CallInv, OneAtATime, RowsInv, [Next]_vars
    PROVE  RowsInv'
<1>1. PICK r : Requests = {r}
  BY DEF OneAtATime
<1>2. r \in Requests /\ RowInv(r) /\ WorkInv(r) /\ SendInv(r)
  BY <1>1 DEF RowsInv, CallInv, RowInv
<1> SUFFICES RowInv(r)'
  BY <1>1 DEF RowsInv
<1>3. CASE UNCHANGED vars
  BY <1>2, <1>3 DEF vars, requestVars, RowInv, RowsTold, RowNow, Between, Told, Covers, Shows, Expiry,
                    UidOf, StepOf, SendInv, Arrived, InFlight
<1>4. CASE Route(r)
  <2>1. PICK route, calls, later : Serve(r, route, calls, later)
    BY <1>2, <1>4, RouteServes
  <2>2. pc[r] = "idle" /\ pc'[r] = "open" /\ UNCHANGED <<invites, held, pending>>
    BY <1>2, <2>1 DEF Serve, CallInv, TypeOK
  <2> QED
    BY <1>2, <2>2, OutsideACall DEF InFlight
<1>5. CASE OpenCall(r) \/ NextReissue(r) \/ Close(r)
  <2>0. pc[r] = "open" /\ UNCHANGED <<invites, held, pending>>
    BY <1>5 DEF OpenCall, NextReissue, Close
  <2>1. pc'[r] \in {"open", "step", "idle"}
    <3>1. pc \in [Requests -> {"idle", "open", "step", "sending", "accepted"}]
      BY DEF CallInv, TypeOK
    <3>2. \E to \in {"open", "step", "idle"} : pc' = [pc EXCEPT ![r] = to]
      BY <1>5, <2>0, <3>1 DEF OpenCall, NextReissue, Close
    <3> QED
      BY <1>2, <3>1, <3>2
  <2>2. ~ InFlight(r)'
    BY <2>1 DEF InFlight
  <2> QED
    BY <1>2, <2>0, <2>2, OutsideACall
<1>6. CASE FlushFailure(r)
  BY <1>1, <1>2, <1>6, NobodyInTheWay DEF FlushFailure
<1> QED
  BY <1>1, <1>2, <1>3, <1>4, <1>5, <1>6, SkipKeepsRows, BeginKeepsRows, AcceptKeepsRows,
     AnswerKeepsRows DEF Next, Step, OneAtATime, Crash

LEMMA RowsInvariant == OneAtATime => (Spec => []RowsInv)
<1>1. RowsInv /\ CallInv /\ OneAtATime /\ [Next]_vars => RowsInv'
  BY StepKeepsRows
<1>2. ASSUME OneAtATime
      PROVE  Spec => []RowsInv
  <2>1. RowsInv /\ CallInv /\ [Next]_vars => RowsInv'
    BY <1>1, <1>2
  <2> QED
    BY <2>1, RowsInit, CallInvariant, PTL DEF Spec
<1> QED
  BY <1>2

(* A row that says "sent" tells what the people it names have in their      *)
(* calendars, whenever no request is open.                                 *)
THEOREM RowsTellTheTruth == OneAtATime => (Spec => []RowTells)
<1>1. ASSUME RowsInv, CallInv, OneAtATime
      PROVE  RowTells
  <2> SUFFICES ASSUME Quiet, NEW u \in Uids
               PROVE  Told(invites[u], u)
    BY DEF RowTells, Told
  <2>1. PICK r : Requests = {r}
    BY <1>1 DEF OneAtATime
  <2>2. r \in Requests /\ pc[r] = "idle" /\ pending[r] = NoRow
    BY <1>1, <2>1 DEF Quiet, CallInv, WorkInv, InCall
  <2>3. RowNow(r, u) = invites[u] /\ ~ Between(r, u)
    BY <2>2 DEF RowNow, Between
  <2> QED
    BY <1>1, <2>2, <2>3 DEF RowsInv, RowInv, RowsTold
<1>2. ASSUME OneAtATime
      PROVE  Spec => []RowTells
  <2>1. RowsInv /\ CallInv => RowTells
    BY <1>1, <1>2
  <2>2. Spec => []RowsInv
    BY <1>2, RowsInvariant
  <2> QED
    BY <2>1, <2>2, CallInvariant, PTL
<1> QED
  BY <1>2

(* What arrives is newer than what the person has, so that the calendar     *)
(* takes it.                                                               *)
THEOREM SequenceAlwaysGrows == OneAtATime => (Spec => SequenceGrows)
<1> DEFINE A == \A r \in Requests : pc[r] = "sending" /\ pc'[r] = "accepted" =>
                   \A p \in work[r].to :
                       held[p][UidOf(r)] # NoEvent => mail[r].seq > held[p][UidOf(r)].seq
<1>1. ASSUME RowsInv, CallInv
      PROVE  A
  <2> SUFFICES ASSUME NEW r \in Requests, pc[r] = "sending", NEW p \in work[r].to,
                      held[p][UidOf(r)] # NoEvent
               PROVE  mail[r].seq > held[p][UidOf(r)].seq
    OBVIOUS
  <2>1. p \in People
    BY <1>1 DEF CallInv, TypeOK, WorkRecords
  <2> QED
    BY <1>1, <2>1, MailIsNewer DEF RowsInv
<1>2. ASSUME OneAtATime
      PROVE  Spec => SequenceGrows
  <2>1. RowsInv /\ CallInv => [A]_vars
    BY <1>1
  <2>2. Spec => []RowsInv
    BY <1>2, RowsInvariant
  <2> QED
    BY <2>1, <2>2, CallInvariant, PTL DEF SequenceGrows
<1> QED
  BY <1>2

-----------------------------------------------------------------------------
(* The event of today.  A row that says "sent" is up to date for whoever it *)
(* names ... *)
Fresh(r, i) ==
    LET u == <<i, "expiry">>
        row == RowNow(r, u)
    IN  row # NoRow /\ row.status = "sent" =>
            \A p \in row.to : Shows(p, u) /\ held[p][u].event = Event(i)

(* ... or the request has still to publish the event. *)
Coming(r, i) ==
    \/ \E k \in 1 .. Len(work[r].calls) : work[r].calls[k] = Call("publish", i)
    \/ i \in work[r].later
    \/ InCall(r) /\ work[r].cert = i /\ StepOf(r) \in {"retire", "publish"}

(* What is withdrawn is off the board, and nothing but a publication that   *)
(* is still to come, or one that found nobody to tell, leaves an active     *)
(* record's event behind.                                                  *)
EventInv(r) ==
    /\ pc[r] = "idle" => work[r] = NoWork
    /\ \A k \in 1 .. Len(work[r].calls) :
          work[r].calls[k].what = "withdraw" => ~ Active(work[r].calls[k].cert)
    /\ InCall(r) /\ StepOf(r) \in {"cancel", "cancelLegacy"} => ~ Active(work[r].cert)
    /\ InFlight(r) /\ StepOf(r) = "publish" => mail[r].event = Event(work[r].cert)
    /\ \A i \in Ids : Active(i) => Fresh(r, i) \/ Coming(r, i) \/ i \in untold

(* The steps of a call, in their order. *)
LEMMA StepsLeft ==
    ASSUME CallInv, NEW r \in Requests, InCall(r)
    PROVE  /\ StepOf(r) \in StepNames
           /\ StepOf(r) = "retire" => Tail(work[r].steps) = <<"publish">>
           /\ StepOf(r) = "cancel" => Tail(work[r].steps) = <<"cancelLegacy">>
           /\ StepOf(r) \in {"publish", "cancelLegacy"} => Tail(work[r].steps) = <<>>
<1> DEFINE steps == work[r].steps
<1>1. steps \in StepLists
  BY DEF CallInv, WorkInv
<1> HIDE DEF steps
<1>2. \/ steps = <<"retire", "publish">> \/ steps = <<"cancel", "cancelLegacy">>
      \/ steps = <<"publish">> \/ steps = <<"cancelLegacy">>
  BY <1>1 DEF StepLists
<1>3. /\ Tail(<<"retire", "publish">>) = <<"publish">> /\ Head(<<"retire", "publish">>) = "retire"
      /\ Tail(<<"publish">>) = <<>> /\ Head(<<"publish">>) = "publish"
      /\ Tail(<<"cancelLegacy">>) = <<>> /\ Head(<<"cancelLegacy">>) = "cancelLegacy"
      /\ Tail(<<"cancel", "cancelLegacy">>) = <<"cancelLegacy">>
      /\ Head(<<"cancel", "cancelLegacy">>) = "cancel"
  OBVIOUS
<1>4. /\ Head(steps) \in StepNames
      /\ Head(steps) = "retire" => Tail(steps) = <<"publish">>
      /\ Head(steps) = "cancel" => Tail(steps) = <<"cancelLegacy">>
      /\ Head(steps) \in {"publish", "cancelLegacy"} => Tail(steps) = <<>>
  BY <1>2, <1>3 DEF StepNames
<1> QED
  BY <1>4 DEF steps, StepOf

(* What a row says stays up to date while the row, the calendars and the    *)
(* record's event stay as they are.                                        *)
LEMMA FreshStays ==
    ASSUME NEW r \in Requests, NEW i, Fresh(r, i), Event(i)' = Event(i), UNCHANGED held,
           RowNow(r, <<i, "expiry">>)' = RowNow(r, <<i, "expiry">>)
    PROVE  Fresh(r, i)'
BY DEF Fresh, Shows

(* A route leaves a call for every record whose event it changed. *)
LEMMA ServeKeepsEvents ==
    ASSUME CallInv, NEW r \in Requests, EventInv(r),
           NEW route, NEW calls, NEW later,
           Serve(r, route, calls, later),
           \A k \in 1 .. Len(calls) : calls[k].what = "withdraw" => ~ Active(calls[k].cert)',
           \A i \in Ids' : Active(i)' =>
               \/ \E k \in 1 .. Len(calls) : calls[k] = Call("publish", i)
               \/ i \in later
               \/ i \in Ids /\ Active(i) /\ Event(i)' = Event(i)
    PROVE  EventInv(r)'
<1>1. /\ pc[r] = "idle" /\ pc'[r] = "open"
      /\ work'[r] = [NoWork EXCEPT !.calls = calls, !.later = later]
      /\ UNCHANGED <<invites, held, pending, untold>>
  BY DEF Serve, CallInv, TypeOK
<1>2. work'[r].calls = calls /\ work'[r].later = later
  BY <1>1 DEF NoWork
<1>3. work[r].calls = <<>> /\ work[r].later = {} /\ ~ InCall(r) /\ pending[r] = NoRow
  BY <1>1, NoWorkIsRecord DEF EventInv, InCall, CallInv, WorkInv
<1>4. \A i : ~ Coming(r, i)
  BY <1>3 DEF Coming
<1>5. ~ InCall(r)' /\ ~ InFlight(r)' /\ pc'[r] # "idle"
  BY <1>1 DEF InCall, InFlight
<1>6. ASSUME NEW i \in Ids', Active(i)'
      PROVE  Fresh(r, i)' \/ Coming(r, i)' \/ i \in untold'
  <2>1. CASE (\E k \in 1 .. Len(calls) : calls[k] = Call("publish", i)) \/ i \in later
    BY <1>2, <2>1 DEF Coming
  <2>2. CASE i \in Ids /\ Active(i) /\ Event(i)' = Event(i)
    <3>1. Fresh(r, i) \/ i \in untold
      BY <1>4, <2>2 DEF EventInv
    <3>2. RowNow(r, <<i, "expiry">>)' = RowNow(r, <<i, "expiry">>)
      BY <1>1, <1>3 DEF RowNow
    <3> QED
      BY <1>1, <2>2, <3>1, <3>2, FreshStays
  <2> QED
    BY <1>6, <2>1, <2>2
<1> QED
  BY <1>2, <1>5, <1>6 DEF EventInv

(* The event and the audience of a record follow from the record. *)
LEMMA SameRecord ==
    ASSUME NEW i, records'[i] = records[i], settings' = settings
    PROVE  /\ Active(i)' = Active(i) /\ Event(i)' = Event(i) /\ Audience(i)' = Audience(i)
BY DEF Active, Event, Timing, Audience

(* One publication or withdrawal is all that most routes leave to do. *)
LEMMA OneCall ==
    ASSUME CallInv, NEW r \in Requests, EventInv(r),
           NEW route, NEW what, NEW n,
           Serve(r, route, <<Call(what, n)>>, {}),
           what = "withdraw" => ~ Active(n)',
           \A i \in Ids' : Active(i)' =>
               \/ what = "publish" /\ i = n
               \/ i \in Ids /\ Active(i) /\ Event(i)' = Event(i)
    PROVE  EventInv(r)'
<1> DEFINE calls == <<Call(what, n)>>
<1>1. Len(calls) = 1 /\ calls[1] = Call(what, n)
  OBVIOUS
<1>2. Serve(r, route, calls, {})
  OBVIOUS
<1> HIDE DEF calls
<1>3. \A k \in 1 .. Len(calls) : calls[k].what = "withdraw" => ~ Active(calls[k].cert)'
  <2>1. Call(what, n).what = what /\ Call(what, n).cert = n
    BY DEF Call
  <2>2. \A k \in 1 .. Len(calls) : calls[k] = Call(what, n)
    BY <1>1
  <2> HIDE DEF calls
  <2>3. \A k \in 1 .. Len(calls) : calls[k].what = what /\ calls[k].cert = n
    BY <2>1, <2>2
  <2> QED
    BY <2>3
<1>4. \A i : what = "publish" /\ i = n => \E k \in 1 .. Len(calls) : calls[k] = Call("publish", i)
  BY <1>1
<1> QED
  BY <1>2, <1>3, <1>4, ServeKeepsEvents

LEMMA NoCall ==
    ASSUME CallInv, NEW r \in Requests, EventInv(r),
           NEW route, NEW later,
           Serve(r, route, <<>>, later),
           \A i \in Ids' : Active(i)' =>
               \/ i \in later
               \/ i \in Ids /\ Active(i) /\ Event(i)' = Event(i)
    PROVE  EventInv(r)'
<1> DEFINE calls == <<>>
<1>1. Len(calls) = 0 /\ Serve(r, route, calls, later)
  OBVIOUS
<1> HIDE DEF calls
<1> QED
  BY <1>1, ServeKeepsEvents

(* Replacing a record archives it; the only other record that changes is    *)
(* its successor.                                                          *)
LEMMA RenewChanges ==
    ASSUME records \in Seq(Record), NEW n \in Ids, NEW f \in Files, Renew(n, f)
    PROVE  /\ Successor(f) # n /\ ~ Active(n)' /\ settings' = settings
           /\ Ids' \subseteq Ids \union {Successor(f)}
           /\ \A i \in Ids \ {n, Successor(f)} : records'[i] = records[i]
<1> DEFINE s == Successor(f)
           archived == [records EXCEPT ![n] = Replaced(n, s)]
<1>1. /\ f # records[n].file /\ settings' = settings /\ s <= MaxRecords
      /\ records' = IF s \in Ids THEN [archived EXCEPT ![s].extra = records[n].extra]
                    ELSE Append(archived, New(f, ExpiryOf[f], records[n].owner, records[n].extra))
  BY DEF Renew
<1>2. s # n /\ (s \notin Ids => s = Len(records) + 1)
  BY <1>1 DEF Successor, ByFile, Ids
<1>3. Replaced(n, s) \in Record /\ Replaced(n, s).status = "archived"
  <2>1. records[n] \in Record /\ s \in 0 .. MaxRecords
    <3>1. s \in Nat
      BY DEF Successor, ByFile, Ids
    <3> HIDE DEF s
    <3> QED
      BY <1>1, <3>1, RecordsAssumption DEF Ids
  <2> HIDE DEF s
  <2> QED
    BY <2>1 DEF Replaced, Record
<1>4. /\ DOMAIN archived = Ids /\ archived[n] = Replaced(n, s)
      /\ \A i \in Ids \ {n} : archived[i] = records[i]
  BY DEF Ids
<1>5. Ids = 1 .. Len(records) /\ Len(records) \in Nat
  BY DEF Ids
<1> HIDE DEF s
<1>6. CASE s \in Ids
  <2>1. records' = [archived EXCEPT ![s].extra = records[n].extra]
    BY <1>1, <1>6
  <2>2. Ids' = Ids /\ records'[n] = archived[n] /\ \A i \in Ids \ {s} : records'[i] = archived[i]
    BY <1>2, <1>4, <1>6, <2>1 DEF Ids
  <2> QED
    BY <1>1, <1>2, <1>3, <1>4, <2>2 DEF Active, s
<1>7. CASE s \notin Ids
  <2> DEFINE new == New(f, ExpiryOf[f], records[n].owner, records[n].extra)
             length == Len(records)
  <2>1. records' = Append(archived, new) /\ s = length + 1 /\ length \in Nat
    BY <1>1, <1>2, <1>5, <1>7
  <2>2. archived \in Seq(Record) /\ Len(archived) = length
    BY <1>3, <1>5
  <2> HIDE DEF new, archived, length
  <2>3. Ids' = 1 .. (length + 1) /\ \A i \in 1 .. length : records'[i] = archived[i]
    BY <2>1, <2>2 DEF Ids
  <2> QED
    BY <1>1, <1>2, <1>3, <1>4, <1>5, <2>1, <2>3 DEF Active, s, length
<1> QED
  BY <1>6, <1>7

LEMMA RouteKeepsEvents ==
    ASSUME CallInv, NEW r \in Requests, EventInv(r), Route(r)
    PROVE  EventInv(r)'
<1>0. records \in Seq(Record) /\ settings \in Settings
  BY DEF CallInv, TypeOK
<1>1. CASE RegisterUpload(r) \/ RegisterManual(r)
  <2>1. PICK record, route :
          Insert(record) /\ Serve(r, route, <<Call("publish", Len(records) + 1)>>, {})
    BY <1>1 DEF RegisterUpload, RegisterManual, CreateFromFacts, CreateManual
  <2>2. /\ Ids' = Ids \union {Len(records) + 1} /\ settings' = settings
        /\ \A i \in Ids : records'[i] = records[i]
    BY <1>0, <2>1 DEF Insert, Ids
  <2> QED
    BY <2>1, <2>2, SameRecord, OneCall
<1>2. CASE UpdateCertificate(r)
  <2>1. PICK n \in Ids, own \in Timings \union {Inherit}, o \in Owners,
             a \in Audiences \union {{}}, b \in BOOLEAN :
          /\ UpdateDetails(n, own, o, a, b)
          /\ LET retimed == \/ Timing(n)' # Timing(n)
                            \/ <<o, a, b>> # <<records[n].owner, records[n].extra, records[n].replace>>
             IN  Serve(r, "update",
                       IF retimed /\ Active(n) THEN <<Call("publish", n)>> ELSE <<>>, {})
    BY <1>2 DEF UpdateCertificate
  <2> DEFINE new == [records[n] EXCEPT !.own = own, !.owner = o, !.extra = a, !.replace = b]
             retimed == \/ Timing(n)' # Timing(n)
                        \/ <<o, a, b>> # <<records[n].owner, records[n].extra, records[n].replace>>
  <2>2. records' = [records EXCEPT ![n] = new] /\ settings' = settings
    BY <1>0, <2>1 DEF UpdateDetails, Ids
  <2>3. /\ new.status = records[n].status /\ new.date = records[n].date
        /\ new.owner = o /\ new.extra = a /\ new.replace = b
    <3>1. records[n] \in Record
      BY <1>0 DEF Ids
    <3> QED
      BY <3>1 DEF Record
  <2> HIDE DEF new
  <2>4. Ids' = Ids /\ records'[n] = new /\ \A i \in Ids \ {n} : records'[i] = records[i]
    BY <1>0, <2>2 DEF Ids
  <2>5. \A i \in Ids \ {n} : Active(i)' = Active(i) /\ Event(i)' = Event(i) /\ Audience(i)' = Audience(i)
    BY <2>2, <2>4, SameRecord
  <2>6. Active(n)' = Active(n)
    BY <2>3, <2>4 DEF Active
  <2>7. CASE retimed /\ Active(n)
    <3>1. Serve(r, "update", <<Call("publish", n)>>, {})
      BY <2>1, <2>7
    <3> QED
      BY <2>4, <2>5, <3>1, OneCall
  <2>8. CASE ~ retimed
    <3>1. Serve(r, "update", <<>>, {})
      BY <2>1, <2>8
    <3>2. Event(n)' = Event(n) /\ Audience(n)' = Audience(n)
      BY <2>2, <2>3, <2>4, <2>8 DEF Event, Audience
    <3> HIDE DEF retimed
    <3> QED
      BY <2>4, <2>5, <2>6, <3>1, <3>2, NoCall
  <2>9. CASE ~ Active(n)
    <3>1. Serve(r, "update", <<>>, {})
      BY <2>1, <2>9
    <3> HIDE DEF retimed
    <3> QED
      BY <2>4, <2>5, <2>6, <2>9, <3>1, NoCall
  <2> QED
    BY <2>7, <2>8, <2>9
<1>3. CASE ArchiveCertificate(r)
  <2>1. PICK n \in Ids : Archive(n) /\ Serve(r, "archive", <<Call("withdraw", n)>>, {})
    BY <1>3 DEF ArchiveCertificate
  <2>2. /\ Ids' = Ids /\ settings' = settings /\ records'[n].status = "archived"
        /\ \A i \in Ids \ {n} : records'[i] = records[i]
    <3>1. records' = [records EXCEPT ![n].status = "archived"] /\ records[n] \in Record
      BY <1>0, <2>1 DEF Archive, Ids
    <3> QED
      BY <1>0, <2>1, <3>1 DEF Archive, Ids, Record
  <2>3. \A i \in Ids \ {n} : Active(i)' = Active(i) /\ Event(i)' = Event(i) /\ Audience(i)' = Audience(i)
    BY <2>2, SameRecord
  <2>4. ~ Active(n)'
    BY <2>2 DEF Active
  <2> QED
    BY <2>1, <2>2, <2>3, <2>4, OneCall
<1>4. CASE RestoreCertificate(r) \/ Attach(r) \/ ResendInvites(r)
  <2>1. PICK n \in Ids :
          /\ Ids' = Ids /\ settings' = settings
          /\ \A i \in Ids \ {n} : records'[i] = records[i]
          /\ \E route : Serve(r, route, <<Call("publish", n)>>, {})
    BY <1>0, <1>4 DEF RestoreCertificate, Restore, Attach, AttachFacts, ResendInvites, Ids
  <2>2. \A i \in Ids \ {n} : Active(i)' = Active(i) /\ Event(i)' = Event(i) /\ Audience(i)' = Audience(i)
    BY <2>1, SameRecord
  <2> QED
    BY <2>1, <2>2, OneCall
<1>5. CASE RenewCertificate(r)
  <2>1. PICK n \in Ids, f \in Files :
          /\ Renew(n, f)
          /\ Serve(r, "renew", <<Call("withdraw", n), Call("publish", Successor(f))>>, {})
    BY <1>5 DEF RenewCertificate
  <2> PICK s : s = Successor(f)
    OBVIOUS
  <2> PICK calls : calls = <<Call("withdraw", n), Call("publish", s)>>
    OBVIOUS
  <2> PICK later : later = {}
    OBVIOUS
  <2>2. /\ s # n /\ ~ Active(n)' /\ Ids' \subseteq Ids \union {s}
        /\ settings' = settings /\ \A i \in Ids \ {n, s} : records'[i] = records[i]
    BY <1>0, <2>1, RenewChanges
  <2>3. /\ Len(calls) = 2 /\ calls[1] = Call("withdraw", n) /\ calls[2] = Call("publish", s)
    OBVIOUS
  <2>4. Serve(r, "renew", calls, later)
    BY <2>1
  <2>5. \A k \in 1 .. Len(calls) : calls[k].what = "withdraw" => ~ Active(calls[k].cert)'
    <3>1. /\ Call("withdraw", n).cert = n /\ Call("publish", s).what = "publish"
      BY DEF Call
    <3>2. \A k \in 1 .. Len(calls) : k = 1 \/ k = 2
      BY <2>3
    <3> QED
      BY <2>2, <2>3, <3>1, <3>2
  <2>6. \E k \in 1 .. Len(calls) : calls[k] = Call("publish", s)
    BY <2>3
  <2>7. \A i \in Ids \ {n, s} : Active(i)' = Active(i) /\ Event(i)' = Event(i) /\ Audience(i)' = Audience(i)
    BY <2>2, SameRecord
  <2>8. \A i \in Ids' : Active(i)' =>
           \/ \E k \in 1 .. Len(calls) : calls[k] = Call("publish", i)
           \/ i \in later
           \/ i \in Ids /\ Active(i) /\ Event(i)' = Event(i)
    <3> SUFFICES ASSUME NEW i \in Ids', Active(i)', i # s
                 PROVE  i \in Ids /\ Active(i) /\ Event(i)' = Event(i)
      BY <2>6
    <3>1. i \in Ids \ {n, s}
      BY <2>2
    <3> QED
      BY <2>7, <3>1
  <2> QED
    BY <2>4, <2>5, <2>8, ServeKeepsEvents
<1>6. CASE SaveGlobalSettings(r)
  <2>1. PICK t \in Timings, a \in Audiences :
          /\ SaveSettings(t, a)
          /\ Serve(r, "settings", <<>>,
                   IF t # settings.timing THEN {i \in Ids : Active(i)} ELSE {})
    BY <1>6 DEF SaveGlobalSettings
  <2> DEFINE later == IF t # settings.timing THEN {i \in Ids : Active(i)} ELSE {}
  <2>2. records' = records /\ Ids' = Ids /\ settings'.timing = t
    BY <2>1 DEF SaveSettings, Ids
  <2>3. \A i : Active(i)' = Active(i)
    BY <2>2 DEF Active
  <2>4. t = settings.timing => \A i : Event(i)' = Event(i)
    BY <2>2 DEF Event, Timing
  <2>5. \A i \in Ids' : Active(i)' =>
           \/ i \in later
           \/ i \in Ids /\ Active(i) /\ Event(i)' = Event(i)
    BY <2>2, <2>3, <2>4
  <2>6. Serve(r, "settings", <<>>, later)
    BY <2>1
  <2> HIDE DEF later
  <2> QED
    BY <2>5, <2>6, NoCall
<1> QED
  BY <1>1, <1>2, <1>3, <1>4, <1>5, <1>6 DEF Route

-----------------------------------------------------------------------------
(* The calls of a request: what is still to come is begun, or left. *)
LEMMA OpenCallKeepsEvents ==
    ASSUME CallInv, NEW r \in Requests, EventInv(r), OpenCall(r)
    PROVE  EventInv(r)'
<1> PICK call : call = Head(work[r].calls)
  OBVIOUS
<1> PICK to : to = Audience(call.cert)
  OBVIOUS
<1> DEFINE list == IF to = {} THEN <<>> ELSE Steps(call.what)
           rest == Tail(work[r].calls)
           new == [work[r] EXCEPT !.calls = rest, !.cert = call.cert, !.to = to,
                                  !.steps = list, !.event = Event(call.cert)]
<1>1. /\ pc[r] = "open" /\ work[r].calls # <<>>
      /\ work' = [work EXCEPT ![r] = new]
      /\ pc' = [pc EXCEPT ![r] = IF to = {} THEN "open" ELSE "step"]
      /\ UNCHANGED <<records, settings, invites, held, pending>>
  BY DEF OpenCall
<1>2. work[r] \in WorkRecords /\ work[r].calls \in Seq(CallRecords)
  BY DEF CallInv, TypeOK, WorkRecords
<1>3. /\ work[r].calls[1] = call
      /\ \A k \in 1 .. Len(work[r].calls) : k = 1 \/ (k - 1 \in 1 .. Len(rest) /\ rest[k - 1] = work[r].calls[k])
      /\ \A k \in 1 .. Len(rest) : k + 1 \in 1 .. Len(work[r].calls) /\ rest[k] = work[r].calls[k + 1]
      /\ call \in CallRecords /\ 1 \in 1 .. Len(work[r].calls)
  BY <1>1, <1>2
<1>4. /\ new.calls = rest /\ new.later = work[r].later /\ new.cert = call.cert /\ new.steps = list
  BY <1>2 DEF WorkRecords
<1> PICK calls : calls = rest
  OBVIOUS
<1> HIDE DEF new, rest, list
<1>5. /\ work'[r] = new /\ pc'[r] = (IF to = {} THEN "open" ELSE "step")
      /\ ~ InFlight(r)' /\ pc'[r] # "idle" /\ (InCall(r)' <=> to # {})
  BY <1>1 DEF CallInv, TypeOK, InFlight, InCall
<1>6. /\ work'[r].calls = calls /\ work'[r].later = work[r].later /\ work'[r].cert = call.cert
      /\ StepOf(r)' = Head(list)
  BY <1>4, <1>5 DEF StepOf
<1>7. \A i : Active(i)' = Active(i) /\ Event(i)' = Event(i) /\ Audience(i)' = Audience(i)
  BY <1>1, SameRecord
<1>8. pending[r] = NoRow /\ pending'[r] = NoRow /\ ~ InCall(r)
  BY <1>1 DEF CallInv, WorkInv, InCall
<1>9. Ids' = Ids /\ \A i : Fresh(r, i) => Fresh(r, i)'
  <2>1. \A u : RowNow(r, u)' = RowNow(r, u)
    BY <1>1, <1>8 DEF RowNow
  <2> QED
    BY <1>1, <1>7, <2>1, FreshStays DEF Ids
<1>10. to # {} => Head(list) = IF call.what = "publish" THEN "retire" ELSE "cancel"
  <2>1. Head(<<"retire", "publish">>) = "retire" /\ Head(<<"cancel", "cancelLegacy">>) = "cancel"
    OBVIOUS
  <2> QED
    BY <2>1 DEF list, Steps
<1>11. call.what \in {"publish", "withdraw"} /\ (call.what = "withdraw" => ~ Active(call.cert))
  BY <1>3 DEF EventInv, CallRecords
<1>12. \A k \in 1 .. Len(calls) : calls[k].what = "withdraw" => ~ Active(calls[k].cert)'
  <2>1. \A k \in 1 .. Len(work[r].calls) :
           work[r].calls[k].what = "withdraw" => ~ Active(work[r].calls[k].cert)
    BY DEF EventInv
  <2>2. \A k \in 1 .. Len(calls) : k + 1 \in 1 .. Len(work[r].calls) /\ calls[k] = work[r].calls[k + 1]
    BY <1>3
  <2> QED
    BY <1>7, <2>1, <2>2
<1>13. \A i : i \in untold' <=> IF call.what = "publish" /\ call.cert = i THEN to = {} ELSE i \in untold
  BY DEF OpenCall
<1>14. InCall(r)' /\ StepOf(r)' \in {"cancel", "cancelLegacy"} => ~ Active(work[r].cert)'
  <2> SUFFICES ASSUME to # {}, Head(list) \in {"cancel", "cancelLegacy"}
               PROVE  ~ Active(call.cert)'
    BY <1>5, <1>6 DEF Active
  <2> QED
    BY <1>7, <1>10, <1>11
<1>15. ASSUME NEW i \in Ids, Active(i)
       PROVE  Fresh(r, i)' \/ Coming(r, i)' \/ i \in untold'
  <2>1. CASE Fresh(r, i)
    BY <1>9, <2>1
  <2>2. CASE i \in work[r].later
    BY <1>6, <2>2 DEF Coming
  <2>3. ASSUME NEW k \in 1 .. Len(work[r].calls), work[r].calls[k] = Call("publish", i)
        PROVE  Coming(r, i)' \/ i \in untold'
    <3>1. CASE k = 1
      <4>1. call.what = "publish" /\ call.cert = i /\ to = Audience(i)
        BY <1>3, <2>3, <3>1 DEF Call
      <4> QED
        BY <1>5, <1>6, <1>10, <1>13, <4>1 DEF Coming
    <3>2. CASE k # 1
      <4>1. k - 1 \in 1 .. Len(calls) /\ calls[k - 1] = Call("publish", i)
        BY <1>3, <2>3, <3>2
      <4> QED
        BY <1>6, <4>1 DEF Coming
    <3> QED
      BY <3>1, <3>2
  <2>4. CASE i \in untold
    <3>1. CASE call.what = "publish" /\ call.cert = i
      <4>1. call = Call("publish", i)
        BY <1>3, <3>1 DEF CallRecords, Call
      <4> QED
        BY <1>3, <2>3, <4>1
    <3>2. CASE ~ (call.what = "publish" /\ call.cert = i)
      BY <1>13, <2>4, <3>2
    <3> QED
      BY <3>1, <3>2
  <2>5. Fresh(r, i) \/ Coming(r, i) \/ i \in untold
    BY <1>15 DEF EventInv
  <2> QED
    BY <1>8, <2>1, <2>2, <2>3, <2>4, <2>5 DEF Coming
<1> QED
  BY <1>5, <1>6, <1>7, <1>9, <1>12, <1>14, <1>15 DEF EventInv

LEMMA NextReissueKeepsEvents ==
    ASSUME CallInv, NEW r \in Requests, EventInv(r), NextReissue(r)
    PROVE  EventInv(r)'
<1>1. PICK n \in work[r].later :
          work' = [work EXCEPT ![r].calls = <<Call("publish", n)>>, ![r].later = @ \ {n}]
  BY DEF NextReissue
<1>2. /\ pc[r] = "open" /\ work[r].calls = <<>>
      /\ UNCHANGED <<records, settings, invites, held, pc, pending, untold>>
  BY DEF NextReissue
<1> DEFINE calls == <<Call("publish", n)>>
<1>3. Len(calls) = 1 /\ calls[1] = Call("publish", n) /\ calls[1].what = "publish"
  BY DEF Call
<1> HIDE DEF calls
<1>4. work'[r].calls = calls /\ work'[r].later = work[r].later \ {n}
  BY <1>1 DEF CallInv, TypeOK, WorkRecords, calls
<1>5. ~ InCall(r) /\ ~ InCall(r)' /\ ~ InFlight(r)' /\ pc'[r] # "idle"
  BY <1>2 DEF InCall, InFlight
<1>6. \A i : Active(i)' = Active(i) /\ Event(i)' = Event(i) /\ Audience(i)' = Audience(i)
  BY <1>2, SameRecord
<1>7. Ids' = Ids /\ \A i : Fresh(r, i) => Fresh(r, i)'
  <2>1. pending[r] = NoRow /\ pending'[r] = NoRow
    BY <1>2, <1>5 DEF CallInv, WorkInv
  <2>2. \A u : RowNow(r, u)' = RowNow(r, u)
    BY <1>2, <2>1 DEF RowNow
  <2> QED
    BY <1>2, <1>6, <2>2, FreshStays DEF Ids
<1>8. \A i : Coming(r, i) => Coming(r, i)'
  BY <1>2, <1>3, <1>4, <1>5 DEF Coming
<1>9. \A k \in 1 .. Len(calls) : calls[k].what # "withdraw"
  BY <1>3
<1> QED
  BY <1>2, <1>4, <1>5, <1>6, <1>7, <1>8, <1>9 DEF EventInv

LEMMA CloseKeepsEvents ==
    ASSUME CallInv, NEW r \in Requests, EventInv(r), Close(r)
    PROVE  EventInv(r)'
<1>1. /\ pc[r] = "open" /\ work[r].calls = <<>> /\ work[r].later = {}
      /\ pc'[r] = "idle" /\ work'[r] = NoWork
      /\ UNCHANGED <<records, settings, invites, held, pending, untold>>
  BY DEF Close, CallInv, TypeOK
<1>2. ~ InCall(r) /\ ~ InCall(r)' /\ ~ InFlight(r)'
  BY <1>1 DEF InCall, InFlight
<1>3. \A i : Active(i)' = Active(i) /\ Event(i)' = Event(i) /\ Audience(i)' = Audience(i)
  BY <1>1, SameRecord
<1>4. Ids' = Ids /\ \A i : Fresh(r, i) => Fresh(r, i)'
  <2>1. pending[r] = NoRow /\ pending'[r] = NoRow
    BY <1>1, <1>2 DEF CallInv, WorkInv
  <2>2. \A u : RowNow(r, u)' = RowNow(r, u)
    BY <1>1, <2>1 DEF RowNow
  <2> QED
    BY <1>1, <1>3, <2>2, FreshStays DEF Ids
<1>5. \A i : ~ Coming(r, i)
  BY <1>1, <1>2 DEF Coming
<1> QED
  BY <1>1, <1>2, <1>3, <1>4, <1>5, NoWorkIsRecord DEF EventInv

(* The steps of a call.  When one is done the next is begun; a publication  *)
(* that is done leaves the row up to date.                                 *)
LEMMA AdvanceKeepsEvents ==
    ASSUME CallInv, NEW r \in Requests, InCall(r), EventInv(r), Advance(r),
           UNCHANGED <<records, settings, untold>>,
           \A i \in Ids : Active(i) /\ (Fresh(r, i) \/ (work[r].cert = i /\ StepOf(r) = "publish"))
                             => Fresh(r, i)'
    PROVE  EventInv(r)'
<1> DEFINE rest == Tail(work[r].steps)
<1>1. /\ work'[r].calls = work[r].calls /\ work'[r].later = work[r].later
      /\ work'[r].cert = work[r].cert /\ work'[r].steps = rest
      /\ pc'[r] = IF rest = <<>> THEN "open" ELSE "step"
  BY AdvanceKeepsWork DEF CallInv, TypeOK
<1>2. /\ StepOf(r) \in StepNames
      /\ StepOf(r) = "retire" => rest = <<"publish">>
      /\ StepOf(r) = "cancel" => rest = <<"cancelLegacy">>
      /\ StepOf(r) \in {"publish", "cancelLegacy"} => rest = <<>>
  BY StepsLeft
<1> HIDE DEF rest
<1>3. /\ Head(<<"publish">>) = "publish" /\ Head(<<"cancelLegacy">>) = "cancelLegacy"
      /\ <<"publish">> # <<>> /\ <<"cancelLegacy">> # <<>>
  OBVIOUS
<1>4. /\ StepOf(r) = "retire" => InCall(r)' /\ StepOf(r)' = "publish"
      /\ StepOf(r) = "cancel" => StepOf(r)' = "cancelLegacy"
      /\ InCall(r)' => StepOf(r) \in {"retire", "cancel"}
      /\ ~ InFlight(r)' /\ pc'[r] # "idle"
  <2>1. StepOf(r)' = Head(rest) /\ (InCall(r)' <=> rest # <<>>)
    BY <1>1 DEF StepOf, InCall
  <2> QED
    BY <1>1, <1>2, <1>3, <2>1 DEF StepNames, InFlight
<1>5. \A i : Active(i)' = Active(i) /\ Event(i)' = Event(i) /\ Audience(i)' = Audience(i)
  BY SameRecord
<1>6. InCall(r)' /\ StepOf(r)' \in {"cancel", "cancelLegacy"} => ~ Active(work[r].cert)'
  BY <1>1, <1>4, <1>5 DEF EventInv, Active
<1>7. ASSUME NEW i \in Ids, Active(i)
      PROVE  Fresh(r, i)' \/ Coming(r, i)' \/ i \in untold'
  <2>1. Fresh(r, i) \/ Coming(r, i) \/ i \in untold
    BY <1>7 DEF EventInv
  <2> QED
    BY <1>1, <1>4, <1>5, <1>7, <2>1 DEF Coming
<1>8. Ids' = Ids /\ \A k \in 1 .. Len(work[r].calls) :
         work[r].calls[k].what = "withdraw" => ~ Active(work[r].calls[k].cert)'
  BY <1>1 DEF EventInv, Ids, Active
<1> QED
  BY <1>1, <1>4, <1>5, <1>6, <1>7, <1>8 DEF EventInv

LEMMA SkipKeepsEvents ==
    ASSUME CallInv, NEW r \in Requests, EventInv(r), SkipStep(r)
    PROVE  EventInv(r)'
<1>1. /\ pc[r] = "step" /\ Advance(r) /\ NothingToDo(r)
      /\ UNCHANGED <<records, settings, held, untold>>
      /\ invites' = IF pending[r] = NoRow THEN invites ELSE [invites EXCEPT ![Expiry(r)] = pending[r]]
      /\ pending' = [pending EXCEPT ![r] = NoRow]
  BY DEF SkipStep
<1>2. InCall(r) /\ pending'[r] = NoRow /\ StepOf(r) # "publish"
  BY <1>1 DEF InCall, CallInv, TypeOK, NothingToDo
<1>3. \A u \in Uids : RowNow(r, u)' = RowNow(r, u)
  BY <1>1, <1>2, UidsInCall DEF RowNow, CallInv, TypeOK
<1>4. \A i \in Ids : <<i, "expiry">> \in Uids
  BY <1>2, UidsInCall DEF CallInv, Uids, Kinds
<1>5. \A i \in Ids : Fresh(r, i) => Fresh(r, i)'
  BY <1>1, <1>3, <1>4, SameRecord, FreshStays
<1> QED
  BY <1>1, <1>2, <1>5, AdvanceKeepsEvents

(* A publication carries the event of the record as it is. *)
LEMMA BeginKeepsEvents ==
    ASSUME CallInv, NEW r \in Requests, EventInv(r), BeginSend(r)
    PROVE  EventInv(r)'
<1>1. /\ pc[r] = "step" /\ pc'[r] = "sending" /\ InCall(r) /\ InCall(r)'
      /\ UNCHANGED <<records, settings, invites, held, work, pending, untold>>
      /\ StepOf(r) = "publish" => mail'[r].event = Event(work[r].cert)
  BY DEF BeginSend, CallInv, TypeOK, InCall
<1>2. \A i : Active(i)' = Active(i) /\ Event(i)' = Event(i) /\ Audience(i)' = Audience(i)
  BY <1>1, SameRecord
<1>3. StepOf(r)' = StepOf(r) /\ Ids' = Ids /\ \A u : RowNow(r, u)' = RowNow(r, u)
  BY <1>1 DEF StepOf, Ids, RowNow, Expiry
<1>4. \A i : Fresh(r, i) => Fresh(r, i)'
  BY <1>1, <1>2, <1>3, FreshStays
<1>5. \A i : Coming(r, i) => Coming(r, i)'
  BY <1>1, <1>3 DEF Coming
<1>6. Active(work[r].cert)' = Active(work[r].cert) /\ Event(work[r].cert)' = Event(work[r].cert)
  BY <1>1 DEF Active, Event, Timing
<1>7. \A k \in 1 .. Len(work[r].calls) :
         work[r].calls[k].what = "withdraw" => ~ Active(work[r].calls[k].cert)'
  BY <1>1 DEF EventInv, Active
<1> QED
  BY <1>1, <1>2, <1>3, <1>4, <1>5, <1>6, <1>7 DEF EventInv

(* What arrives concerns a record that is withdrawn, or is the publication  *)
(* itself, whose row is still to be written.                               *)
LEMMA AcceptKeepsEvents ==
    ASSUME CallInv, NEW r \in Requests, EventInv(r), Accept(r)
    PROVE  EventInv(r)'
<1> PICK at : at = UidOf(r)
  OBVIOUS
<1>1. /\ pc[r] = "sending" /\ pc'[r] = "accepted"
      /\ held' = [p \in People |->
            IF p \in work[r].to /\ Replaces(mail[r], held[p][at])
            THEN [held[p] EXCEPT ![at] = mail[r]] ELSE held[p]]
      /\ UNCHANGED <<records, settings, invites, work, mail, pending, untold>>
  BY DEF Accept, CallInv, TypeOK
<1>2. InCall(r) /\ InCall(r)' /\ InFlight(r) /\ StepOf(r)' = StepOf(r) /\ Ids' = Ids
      /\ \A u : RowNow(r, u)' = RowNow(r, u)
  BY <1>1 DEF InCall, InFlight, StepOf, Ids, RowNow, Expiry
<1>3. \A i : Active(i)' = Active(i) /\ Event(i)' = Event(i) /\ Audience(i)' = Audience(i)
  BY <1>1, SameRecord
<1>4. \A p \in People : \A u : u # at => held'[p][u] = held[p][u]
  BY <1>1
<1>5. \A i : Coming(r, i) => Coming(r, i)'
  BY <1>1, <1>2 DEF Coming
<1>6. ASSUME NEW i \in Ids, Active(i)
      PROVE  Fresh(r, i)' \/ Coming(r, i)' \/ i \in untold'
  <2> DEFINE u == <<i, "expiry">>
  <2>1. CASE u = at
    <3>1. work[r].cert = i /\ StepOf(r) \in {"publish", "cancel"}
      BY <1>2, <2>1, StepsLeft DEF UidOf, StepNames
    <3>2. StepOf(r) = "publish"
      BY <1>2, <1>6, <3>1 DEF EventInv
    <3>3. Coming(r, i)
      BY <1>2, <3>1, <3>2 DEF Coming
    <3> QED
      BY <1>5, <3>3
  <2>2. CASE u # at
    <3>1. Fresh(r, i) => Fresh(r, i)'
      <4>1. RowNow(r, u) \in Rows \union {NoRow}
        BY <1>2, UidsInCall DEF RowNow, CallInv, TypeOK, Uids, Kinds
      <4>2. RowNow(r, u) # NoRow => RowNow(r, u).to \subseteq People
        BY <4>1 DEF Rows
      <4> QED
        BY <1>2, <1>3, <1>4, <2>2, <4>2 DEF Fresh, Shows
    <3>2. Fresh(r, i) \/ Coming(r, i) \/ i \in untold
      BY <1>6 DEF EventInv
    <3> QED
      BY <1>1, <1>3, <1>5, <3>1, <3>2
  <2> QED
    BY <2>1, <2>2
<1>7. Active(work[r].cert)' = Active(work[r].cert) /\ Event(work[r].cert)' = Event(work[r].cert)
  BY <1>1 DEF Active, Event, Timing
<1>8. \A k \in 1 .. Len(work[r].calls) :
         work[r].calls[k].what = "withdraw" => ~ Active(work[r].calls[k].cert)'
  BY <1>1 DEF EventInv, Active
<1> QED
  BY <1>1, <1>2, <1>3, <1>6, <1>7, <1>8 DEF EventInv

(* The row says "sent" only when everybody it names holds today's event. *)
LEMMA AnswerKeepsEvents ==
    ASSUME CallInv, NEW r \in Requests, Requests = {r}, RowInv(r), EventInv(r),
           AnswerOk(r) \/ AnswerError(r)
    PROVE  EventInv(r)'
<1>1. PICK status \in {"sent", "error"} :
         /\ InFlight(r) /\ Answer(r, status)
         /\ status = "sent" => pc[r] = "accepted"
  BY DEF AnswerOk, AnswerError, InFlight
<1> PICK new : new = Written(r, status)
  OBVIOUS
<1> PICK at : at = UidOf(r)
  OBVIOUS
<1>2. /\ \A u \in Uids : RowNow(r, u)' = IF u = at THEN new ELSE RowNow(r, u)
      /\ UNCHANGED <<records, settings, held, untold>> /\ Advance(r) /\ InCall(r)
  BY <1>1, AnswerNow DEF RowInv, InFlight, InCall
<1>3. new.status = status /\ new.to = work[r].to
  BY DEF Written, Row
<1>4. \A i \in Ids : <<i, "expiry">> \in Uids /\ Event(i)' = Event(i)
  BY <1>2, UidsInCall, SameRecord DEF CallInv, Uids, Kinds
<1>5. ASSUME NEW i \in Ids, Active(i), Fresh(r, i) \/ (work[r].cert = i /\ StepOf(r) = "publish")
      PROVE  Fresh(r, i)'
  <2> DEFINE u == <<i, "expiry">>
  <2>1. CASE u = at
    <3>1. work[r].cert = i /\ StepOf(r) \in {"publish", "cancel"}
      BY <1>2, <2>1, StepsLeft DEF UidOf, StepNames
    <3>2. StepOf(r) = "publish"
      BY <1>2, <1>5, <3>1 DEF EventInv
    <3>3. mail[r].event = Event(i) /\ ~ mail[r].cancelled
      BY <1>1, <3>1, <3>2 DEF EventInv, RowInv, SendInv
    <3>4. mail[r] # NoEvent
      BY <1>1 DEF CallInv, TypeOK
    <3>5. status = "sent" => \A p \in work[r].to : held[p][u] = mail[r]
      BY <1>1, <2>1, <3>3 DEF RowInv, Arrived
    <3>6. RowNow(r, u)' = new
      BY <1>2, <1>4, <2>1
    <3> QED
      BY <1>2, <1>3, <1>4, <3>3, <3>4, <3>5, <3>6 DEF Fresh, Shows
  <2>2. CASE u # at
    <3>1. RowNow(r, u)' = RowNow(r, u)
      BY <1>2, <1>4, <2>2
    <3>2. Fresh(r, i)
      BY <1>5, <2>2 DEF UidOf
    <3> QED
      BY <1>2, <1>4, <3>1, <3>2, FreshStays
  <2> QED
    BY <2>1, <2>2
<1> QED
  BY <1>2, <1>5, AdvanceKeepsEvents

-----------------------------------------------------------------------------
(* Every step of the only request. *)
EventsInv == \A r \in Requests : EventInv(r)

LEMMA EventsInit ==
    ASSUME Init
    PROVE  EventsInv
<1> SUFFICES ASSUME NEW r \in Requests
             PROVE  EventInv(r)
  BY DEF EventsInv
<1>1. pc[r] = "idle" /\ pending[r] = NoRow /\ work[r] = NoWork
  BY DEF Init
<1>2. ASSUME NEW i \in Ids
      PROVE  Fresh(r, i)
  <2> DEFINE u == <<i, "expiry">>
  <2>1. u \in Uids /\ u[1] \in Ids
    <3>1. CallInv
      BY CallInvInit
    <3>2. Ids \subseteq 1 .. MaxRecords
      BY <3>1, RecordsAssumption DEF CallInv, TypeOK, Ids
    <3> QED
      BY <3>2 DEF Uids, Kinds
  <2>2. /\ i = 1 /\ invites[u].to = Audience(1) /\ Audience(1) \subseteq People
        /\ \A p \in People : held[p][u] = IF p \in Audience(1) THEN LegacyEvent ELSE NoEvent
        /\ LegacyEvent # NoEvent /\ ~ LegacyEvent.cancelled /\ LegacyEvent.event = Event(1)
    BY <2>1, InitRow
  <2> HIDE DEF LegacyEvent
  <2>3. RowNow(r, u) = invites[u]
    BY <1>1 DEF RowNow
  <2>4. \A p \in invites[u].to : Shows(p, u) /\ held[p][u].event = Event(i)
    BY <2>2 DEF Shows
  <2> QED
    BY <2>3, <2>4 DEF Fresh
<1>3. Len(work[r].calls) = 0
  BY <1>1, NoWorkIsRecord
<1> QED
  BY <1>1, <1>2, <1>3 DEF EventInv, InCall, InFlight

LEMMA StepKeepsEvents ==
    ASSUME CallInv, OneAtATime, RowsInv, EventsInv, [Next]_vars
    PROVE  EventsInv'
<1>1. PICK r : Requests = {r}
  BY DEF OneAtATime
<1>2. r \in Requests /\ RowInv(r) /\ EventInv(r) /\ SendInv(r)
  BY <1>1 DEF RowsInv, EventsInv, RowInv
<1>3. CASE UNCHANGED vars
  BY <1>1, <1>2, <1>3
  DEF vars, requestVars, EventsInv, EventInv, Fresh, Coming, RowNow, Shows, Expiry, StepOf,
      InCall, InFlight, Active, Event, Timing, Audience, Ids
<1>4. CASE Next
  <2> SUFFICES EventInv(r)'
    BY <1>1 DEF EventsInv
  <2>1. CASE FlushFailure(r)
    BY <1>1, <1>2, <2>1, NobodyInTheWay DEF FlushFailure
  <2> QED
    BY <1>1, <1>2, <1>4, <2>1, RouteKeepsEvents, OpenCallKeepsEvents, NextReissueKeepsEvents,
       CloseKeepsEvents, SkipKeepsEvents, BeginKeepsEvents, AcceptKeepsEvents, AnswerKeepsEvents
       DEF Next, Step, OneAtATime, Crash
<1> QED
  BY <1>3, <1>4

(* With no request open, whoever is to be told about an active record and   *)
(* was named by its row holds its present date and alarms, unless the row   *)
(* says that the last message failed, or there was nobody to tell when the  *)
(* event changed: filling the default recipients sends nothing             *)
(* (send_invites, _reissue_invites).                                       *)
THEOREM EventsAreCurrent == OneAtATime => (Spec => []EventIsCurrent)
<1>1. ASSUME OneAtATime, EventsInv, CallInv
      PROVE  EventIsCurrent
  <2> SUFFICES ASSUME Quiet, NEW i \in Ids, Active(i), i \notin untold,
                      invites[<<i, "expiry">>] # NoRow, invites[<<i, "expiry">>].status = "sent",
                      NEW p \in Audience(i), p \in invites[<<i, "expiry">>].to
               PROVE  Shows(p, <<i, "expiry">>) /\ held[p][<<i, "expiry">>].event = Event(i)
    BY DEF EventIsCurrent
  <2>1. PICK r : Requests = {r}
    BY <1>1 DEF OneAtATime
  <2>2. r \in Requests /\ pc[r] = "idle" /\ pending[r] = NoRow /\ EventInv(r) /\ ~ InCall(r)
    BY <1>1, <2>1 DEF Quiet, CallInv, WorkInv, InCall, EventsInv
  <2>3. ~ Coming(r, i)
    BY <2>2, NoWorkIsRecord DEF EventInv, Coming
  <2>4. Fresh(r, i)
    BY <2>2, <2>3 DEF EventInv
  <2>5. RowNow(r, <<i, "expiry">>) = invites[<<i, "expiry">>]
    BY <2>2 DEF RowNow
  <2> QED
    BY <2>4, <2>5 DEF Fresh
<1>2. ASSUME OneAtATime
      PROVE  Spec => []EventIsCurrent
  <2>1. RowsInv /\ EventsInv /\ CallInv /\ [Next]_vars => EventsInv'
    BY <1>2, StepKeepsEvents
  <2>2. EventsInv /\ CallInv => EventIsCurrent
    BY <1>1, <1>2
  <2>3. Spec => []RowsInv
    BY <1>2, RowsInvariant
  <2>4. Init => EventsInv
    BY EventsInit
  <2> QED
    BY <2>1, <2>2, <2>3, <2>4, CallInvariant, PTL DEF Spec
<1> QED
  BY <1>2

-----------------------------------------------------------------------------
(* What is left of withdrawn events.  README.md says that archiving or      *)
(* replacing a record takes its event back, and the run "left" shows two    *)
(* ways in which it does not: whoever is taken off a record is not told,    *)
(* and the event of an archived record can be published again.  Without     *)
(* these two it is so.                                                      *)
NobodyIsTakenOff == [][\A i \in Ids : Audience(i) \subseteq Audience(i)']_vars

OnlyActiveIsPublished ==
    \A r \in Requests : \A k \in 1 .. Len(work[r].calls) :
        work[r].calls[k].what = "publish" => Active(work[r].calls[k].cert)

Refused(row) == row # NoRow /\ row.status = "error"

Gone(u) == \A p \in People : ~ Shows(p, u)

(* The cancellation of an event is still to be sent. *)
Withdrawing(r, u) ==
    \/ pc[r] # "idle" /\ \E k \in 1 .. Len(work[r].calls) : work[r].calls[k] = Call("withdraw", u[1])
    \/ /\ InCall(r) /\ work[r].cert = u[1]
       /\ StepOf(r) = "cancel" \/ (StepOf(r) = "cancelLegacy" /\ u[2] = "renew")

(* Whoever holds an event is somebody the next message about it reaches,    *)
(* and an archived record's event is gone, refused, or about to be taken    *)
(* back.                                                                    *)
LeftInv(r) ==
    /\ \A p \in People, u \in Uids : Shows(p, u) => u[1] \in Ids /\ p \in Audience(u[1])
    /\ InCall(r) => work[r].to = Audience(work[r].cert)
    /\ InCall(r) /\ StepOf(r) \in {"retire", "publish"} => Active(work[r].cert)
    /\ \A u \in Uids : u[1] \in Ids /\ ~ Active(u[1]) =>
          Withdrawing(r, u) \/ Refused(RowNow(r, u)) \/ Gone(u)

(* A step that sends nothing and writes no row. *)
LEMMA NothingIsSent ==
    ASSUME NEW r \in Requests, LeftInv(r), UNCHANGED <<records, settings, held>>,
           \A u \in Uids : RowNow(r, u)' = RowNow(r, u),
           InCall(r)' => work'[r].to = Audience(work'[r].cert),
           InCall(r)' /\ StepOf(r)' \in {"retire", "publish"} => Active(work'[r].cert),
           \A u \in Uids : u[1] \in Ids /\ ~ Active(u[1]) /\ Withdrawing(r, u) =>
               Withdrawing(r, u)' \/ Refused(RowNow(r, u)) \/ Gone(u)
    PROVE  LeftInv(r)'
<1>1. \A i : Active(i)' = Active(i) /\ Audience(i)' = Audience(i)
  BY SameRecord
<1>2. \A p \in People, u \in Uids : Shows(p, u)' = Shows(p, u)
  BY DEF Shows
<1>3. \A u \in Uids : Gone(u)' = Gone(u) /\ Refused(RowNow(r, u))' = Refused(RowNow(r, u))
  BY <1>2 DEF Gone, Refused
<1>4. Ids' = Ids
  BY DEF Ids
<1>5. InCall(r)' => (work[r].to)' = (Audience(work[r].cert))'
  BY DEF Audience
<1>6. InCall(r)' /\ StepOf(r)' \in {"retire", "publish"} => Active(work[r].cert)'
  BY DEF Active
<1>7. \A u \in Uids : u[1] \in Ids /\ ~ Active(u[1]) =>
          Withdrawing(r, u)' \/ Refused(RowNow(r, u)) \/ Gone(u)
  BY DEF LeftInv
<1>8. \A p \in People, u \in Uids : Shows(p, u)' => u[1] \in Ids' /\ p \in Audience(u[1])'
  BY <1>1, <1>2, <1>4 DEF LeftInv
<1>9. \A u \in Uids : u[1] \in Ids' /\ ~ Active(u[1])' =>
          Withdrawing(r, u)' \/ Refused(RowNow(r, u))' \/ Gone(u)'
  BY <1>1, <1>3, <1>4, <1>7
<1> QED
  BY <1>5, <1>6, <1>8, <1>9 DEF LeftInv

(* A route that archives a record leaves the call that withdraws its event. *)
LEMMA ServeKeepsLeft ==
    ASSUME CallInv, NEW r \in Requests, LeftInv(r), NEW route, NEW calls, NEW later,
           Serve(r, route, calls, later),
           Ids \subseteq Ids', \A i \in Ids : Audience(i) \subseteq Audience(i)',
           \A i \in Ids' : ~ Active(i)' =>
               \/ i \in Ids /\ ~ Active(i)
               \/ \E k \in 1 .. Len(calls) : calls[k] = Call("withdraw", i)
    PROVE  LeftInv(r)'
<1>1. /\ pc[r] = "idle" /\ pc'[r] = "open"
      /\ work'[r] = [NoWork EXCEPT !.calls = calls, !.later = later]
      /\ UNCHANGED <<invites, held, pending>>
  BY DEF Serve, CallInv, TypeOK
<1>2. work'[r].calls = calls /\ pc'[r] # "idle"
  BY <1>1 DEF NoWork
<1>3. ~ InCall(r) /\ ~ InCall(r)' /\ pending[r] = NoRow
  BY <1>1 DEF InCall, CallInv, WorkInv
<1>4. \A u \in Uids : ~ Withdrawing(r, u)
  BY <1>1, <1>3 DEF Withdrawing
<1>5. \A p \in People, u \in Uids : Shows(p, u)' = Shows(p, u)
  BY <1>1 DEF Shows
<1>6. \A u \in Uids : Gone(u)' = Gone(u) /\ Refused(RowNow(r, u))' = Refused(RowNow(r, u))
  BY <1>1, <1>3, <1>5 DEF Gone, Refused, RowNow
<1>7. ASSUME NEW u \in Uids, u[1] \in Ids', ~ Active(u[1])'
      PROVE  Withdrawing(r, u)' \/ Refused(RowNow(r, u))' \/ Gone(u)'
  <2>1. CASE u[1] \in Ids /\ ~ Active(u[1])
    BY <1>4, <1>6, <2>1 DEF LeftInv
  <2>2. CASE \E k \in 1 .. Len(calls) : calls[k] = Call("withdraw", u[1])
    BY <1>2, <2>2 DEF Withdrawing
  <2> QED
    BY <1>7, <2>1, <2>2
<1>8. \A p \in People, u \in Uids : Shows(p, u)' => u[1] \in Ids' /\ p \in Audience(u[1])'
  BY <1>5 DEF LeftInv
<1> QED
  BY <1>3, <1>7, <1>8 DEF LeftInv

LEMMA RouteWithdraws ==
    ASSUME CallInv, NEW r \in Requests, Route(r)
    PROVE  \E route, calls, later :
              /\ Serve(r, route, calls, later)
              /\ \A i \in Ids' : ~ Active(i)' =>
                    \/ i \in Ids /\ ~ Active(i)
                    \/ \E k \in 1 .. Len(calls) : calls[k] = Call("withdraw", i)
<1>0. records \in Seq(Record) /\ settings \in Settings
  BY DEF CallInv, TypeOK
<1>1. ASSUME NEW route, NEW calls, NEW later, Serve(r, route, calls, later),
             \A i \in Ids' : ~ Active(i)' => i \in Ids /\ ~ Active(i)
      PROVE  \E way, todo, after :
                /\ Serve(r, way, todo, after)
                /\ \A i \in Ids' : ~ Active(i)' =>
                      \/ i \in Ids /\ ~ Active(i)
                      \/ \E k \in 1 .. Len(todo) : todo[k] = Call("withdraw", i)
  BY <1>1
<1>2. CASE RegisterUpload(r) \/ RegisterManual(r)
  <2>1. PICK file, date, owner, route, calls :
          Insert(New(file, date, owner, {})) /\ Serve(r, route, calls, {})
    BY <1>2 DEF RegisterUpload, RegisterManual, CreateFromFacts, CreateManual
  <2> PICK new : new = New(file, date, owner, {})
    OBVIOUS
  <2>2. new.status = "active"
    BY DEF New
  <2>3. /\ Ids' = Ids \union {Len(records) + 1} /\ records'[Len(records) + 1] = new
        /\ \A i \in Ids : records'[i] = records[i]
    BY <1>0, <2>1 DEF Insert, Ids
  <2>4. \A i \in Ids' : ~ Active(i)' => i \in Ids /\ ~ Active(i)
    BY <2>2, <2>3 DEF Active
  <2> QED
    BY <1>1, <2>1, <2>4
<1>3. CASE UpdateCertificate(r)
  <2>1. PICK n \in Ids, own \in Timings \union {Inherit}, o \in Owners,
             a \in Audiences \union {{}}, b \in BOOLEAN :
          /\ UpdateDetails(n, own, o, a, b)
          /\ \E calls : Serve(r, "update", calls, {})
    BY <1>3 DEF UpdateCertificate
  <2> DEFINE new == [records[n] EXCEPT !.own = own, !.owner = o, !.extra = a, !.replace = b]
  <2>2. new.status = records[n].status
    <3>1. records[n] \in Record
      BY <1>0 DEF Ids
    <3> QED
      BY <3>1 DEF Record
  <2>3. records' = [records EXCEPT ![n] = new]
    BY <1>0, <2>1 DEF UpdateDetails, Ids
  <2> HIDE DEF new
  <2>4. Ids' = Ids /\ records'[n] = new /\ \A i \in Ids \ {n} : records'[i] = records[i]
    BY <1>0, <2>3 DEF Ids
  <2>5. \A i \in Ids' : ~ Active(i)' => i \in Ids /\ ~ Active(i)
    BY <2>2, <2>4 DEF Active
  <2> QED
    BY <1>1, <2>1, <2>5
<1>4. CASE ArchiveCertificate(r)
  <2>1. PICK n \in Ids : Archive(n) /\ Serve(r, "archive", <<Call("withdraw", n)>>, {})
    BY <1>4 DEF ArchiveCertificate
  <2> PICK calls : calls = <<Call("withdraw", n)>>
    OBVIOUS
  <2>2. Ids' = Ids /\ \A i \in Ids \ {n} : records'[i] = records[i]
    BY <1>0, <2>1 DEF Archive, Ids
  <2>3. 1 \in 1 .. Len(calls) /\ calls[1] = Call("withdraw", n)
    OBVIOUS
  <2>4. \A i \in Ids' : ~ Active(i)' =>
           (i \in Ids /\ ~ Active(i)) \/ \E k \in 1 .. Len(calls) : calls[k] = Call("withdraw", i)
    BY <2>2, <2>3 DEF Active
  <2> QED
    BY <2>1, <2>4
<1>5. CASE RestoreCertificate(r) \/ Attach(r) \/ ResendInvites(r) \/ SaveGlobalSettings(r)
  <2>1. Ids' = Ids /\ \A i \in Ids : Active(i) => Active(i)'
    <3>1. CASE RestoreCertificate(r)
      <4>1. PICK n \in Ids : records' = [records EXCEPT ![n].status = "active"]
        BY <3>1 DEF RestoreCertificate, Restore
      <4>2. records[n] \in Record
        BY <1>0 DEF Ids
      <4> QED
        BY <1>0, <4>1, <4>2 DEF Active, Ids, Record
    <3>2. CASE Attach(r)
      <4>1. PICK n \in Ids, f \in Files :
              records' = [records EXCEPT ![n].file = f, ![n].date = ExpiryOf[f]]
        BY <3>2 DEF Attach, AttachFacts
      <4>2. records[n] \in Record
        BY <1>0 DEF Ids
      <4> QED
        BY <1>0, <4>1, <4>2 DEF Active, Ids, Record
    <3>3. CASE ResendInvites(r) \/ SaveGlobalSettings(r)
      BY <3>3 DEF ResendInvites, SaveGlobalSettings, SaveSettings, Active, Ids
    <3> QED
      BY <1>5, <3>1, <3>2, <3>3
  <2>2. \E route, calls, later : Serve(r, route, calls, later)
    BY <1>5 DEF RestoreCertificate, Attach, ResendInvites, SaveGlobalSettings
  <2> QED
    BY <1>1, <2>1, <2>2
<1>6. CASE RenewCertificate(r)
  <2>1. PICK n \in Ids, f \in Files :
          /\ Renew(n, f)
          /\ Serve(r, "renew", <<Call("withdraw", n), Call("publish", Successor(f))>>, {})
    BY <1>6 DEF RenewCertificate
  <2> PICK s : s = Successor(f)
    OBVIOUS
  <2> PICK calls : calls = <<Call("withdraw", n), Call("publish", s)>>
    OBVIOUS
  <2>2. Ids' \subseteq Ids \union {s} /\ \A i \in Ids \ {n, s} : records'[i] = records[i]
    BY <1>0, <2>1, RenewChanges
  <2>3. records'[s].status = IF s \in Ids THEN records[s].status ELSE "active"
    <3>1. s # n
      BY <1>0, <2>1, RenewChanges
    <3> DEFINE archived == [records EXCEPT ![n] = Replaced(n, s)]
               new == New(f, ExpiryOf[f], records[n].owner, records[n].extra)
    <3>2. records' = IF s \in Ids THEN [archived EXCEPT ![s].extra = records[n].extra]
                     ELSE Append(archived, new)
      BY <2>1 DEF Renew
    <3>3. DOMAIN archived = Ids /\ \A i \in Ids \ {n} : archived[i] = records[i]
      BY DEF Ids
    <3>4. CASE s \in Ids
      <4>1. archived[s] = records[s] /\ records[s] \in Record
        BY <1>0, <3>1, <3>3, <3>4 DEF Ids
      <4> HIDE DEF archived
      <4>2. records'[s] = [records[s] EXCEPT !.extra = records[n].extra]
        BY <3>2, <3>3, <3>4, <4>1
      <4> QED
        BY <3>1, <3>4, <4>1, <4>2 DEF Record
    <3>5. CASE s \notin Ids
      <4>1. s = Len(records) + 1 /\ Len(records) \in Nat /\ Ids = 1 .. Len(records)
        BY <1>0, <3>5 DEF Successor, ByFile, Ids
      <4>2. archived \in [1 .. Len(records) -> Record \union {Replaced(n, s)}]
        BY <1>0, <3>3, <4>1 DEF Ids
      <4>3. new.status = "active"
        BY DEF New
      <4> HIDE DEF archived, new
      <4>4. Append(archived, new)[s] = new
        BY <4>1, <4>2
      <4> QED
        BY <3>1, <3>2, <3>5, <4>3, <4>4
    <3> QED
      BY <3>4, <3>5
  <2>4. 1 \in 1 .. Len(calls) /\ calls[1] = Call("withdraw", n)
    OBVIOUS
  <2>5. ASSUME NEW i \in Ids', ~ Active(i)', i # n
        PROVE  i \in Ids /\ ~ Active(i)
    BY <2>2, <2>3, <2>5 DEF Active
  <2>6. \A i \in Ids' : ~ Active(i)' =>
           (i \in Ids /\ ~ Active(i)) \/ \E k \in 1 .. Len(calls) : calls[k] = Call("withdraw", i)
    BY <2>4, <2>5
  <2> QED
    BY <2>1, <2>6
<1> QED
  BY <1>2, <1>3, <1>4, <1>5, <1>6 DEF Route

-----------------------------------------------------------------------------
(* The calls of a request: a withdrawal is begun, or nobody was told. *)
LEMMA OpenCallKeepsLeft ==
    ASSUME CallInv, NEW r \in Requests, LeftInv(r), OnlyActiveIsPublished, OpenCall(r)
    PROVE  LeftInv(r)'
<1> PICK call : call = Head(work[r].calls)
  OBVIOUS
<1> PICK to : to = Audience(call.cert)
  OBVIOUS
<1> DEFINE list == IF to = {} THEN <<>> ELSE Steps(call.what)
           rest == Tail(work[r].calls)
           new == [work[r] EXCEPT !.calls = rest, !.cert = call.cert, !.to = to,
                                  !.steps = list, !.event = Event(call.cert)]
<1>1. /\ pc[r] = "open" /\ work[r].calls # <<>>
      /\ work' = [work EXCEPT ![r] = new]
      /\ pc' = [pc EXCEPT ![r] = IF to = {} THEN "open" ELSE "step"]
      /\ UNCHANGED <<records, settings, invites, held, pending>>
  BY DEF OpenCall
<1>2. work[r] \in WorkRecords /\ work[r].calls \in Seq(CallRecords)
  BY DEF CallInv, TypeOK, WorkRecords
<1>3. /\ work[r].calls[1] = call /\ call \in CallRecords /\ 1 \in 1 .. Len(work[r].calls)
      /\ \A k \in 1 .. Len(work[r].calls) : k = 1 \/ (k - 1 \in 1 .. Len(rest) /\ rest[k - 1] = work[r].calls[k])
  BY <1>1, <1>2
<1>4. new.calls = rest /\ new.cert = call.cert /\ new.steps = list /\ new.to = to
  BY <1>2 DEF WorkRecords
<1>5. to # {} => Head(list) = IF call.what = "publish" THEN "retire" ELSE "cancel"
  <2>1. Head(<<"retire", "publish">>) = "retire" /\ Head(<<"cancel", "cancelLegacy">>) = "cancel"
    OBVIOUS
  <2> QED
    BY <2>1 DEF list, Steps
<1> PICK calls : calls = rest
  OBVIOUS
<1> HIDE DEF new, rest, list
<1>6. /\ work'[r] = new /\ pc'[r] = (IF to = {} THEN "open" ELSE "step")
      /\ pc'[r] # "idle" /\ (InCall(r)' <=> to # {})
  BY <1>1 DEF CallInv, TypeOK, InCall
<1>7. /\ work'[r].calls = calls /\ work'[r].cert = call.cert /\ work'[r].to = to
      /\ StepOf(r)' = Head(list)
  BY <1>4, <1>6 DEF StepOf
<1>8. pending[r] = NoRow /\ pending'[r] = NoRow /\ ~ InCall(r)
  BY <1>1 DEF CallInv, WorkInv, InCall
<1>9. \A u \in Uids : RowNow(r, u)' = RowNow(r, u)
  BY <1>1, <1>8 DEF RowNow
<1>10. InCall(r)' /\ StepOf(r)' \in {"retire", "publish"} => Active(work'[r].cert)
  <2> SUFFICES ASSUME to # {}, Head(list) \in {"retire", "publish"}
               PROVE  Active(call.cert)
    BY <1>6, <1>7
  <2> QED
    BY <1>3, <1>5 DEF OnlyActiveIsPublished
<1>11. InCall(r)' => work'[r].to = Audience(work'[r].cert)
  BY <1>7
<1>12. ASSUME NEW u \in Uids, Withdrawing(r, u)
       PROVE  Withdrawing(r, u)' \/ Gone(u)
  <2>1. PICK k \in 1 .. Len(work[r].calls) : work[r].calls[k] = Call("withdraw", u[1])
    BY <1>8, <1>12 DEF Withdrawing
  <2>2. CASE k # 1
    BY <1>3, <1>6, <1>7, <2>1, <2>2 DEF Withdrawing
  <2>3. CASE k = 1
    <3>1. call.what = "withdraw" /\ call.cert = u[1]
      BY <1>3, <2>1, <2>3 DEF Call
    <3>2. CASE to = {}
      BY <3>1, <3>2 DEF LeftInv, Gone
    <3>3. CASE to # {}
      BY <1>5, <1>6, <1>7, <3>1, <3>3 DEF Withdrawing
    <3> QED
      BY <3>2, <3>3
  <2> QED
    BY <2>2, <2>3
<1> QED
  BY <1>1, <1>9, <1>10, <1>11, <1>12, NothingIsSent

(* Between two calls, and at the end, nothing is left to withdraw. *)
LEMMA BetweenCallsKeepsLeft ==
    ASSUME CallInv, NEW r \in Requests, LeftInv(r), NextReissue(r) \/ Close(r)
    PROVE  LeftInv(r)'
<1>1. /\ pc[r] = "open" /\ work[r].calls = <<>> /\ pc'[r] \in {"open", "idle"}
      /\ UNCHANGED <<records, settings, invites, held, pending>>
  BY DEF NextReissue, Close, CallInv, TypeOK
<1>2. ~ InCall(r) /\ ~ InCall(r)' /\ Len(work[r].calls) = 0
  BY <1>1 DEF InCall
<1>3. \A u \in Uids : ~ Withdrawing(r, u)
  BY <1>2 DEF Withdrawing
<1>4. pending[r] = NoRow /\ pending'[r] = NoRow
  BY <1>1, <1>2 DEF CallInv, WorkInv
<1>5. \A u \in Uids : RowNow(r, u)' = RowNow(r, u)
  BY <1>1, <1>4 DEF RowNow
<1> QED
  BY <1>1, <1>2, <1>3, <1>5, NothingIsSent

(* A step that is done.  One that takes an event back leaves nothing of it, *)
(* or a row that says it was refused.                                      *)
LEMMA AdvanceKeepsLeft ==
    ASSUME CallInv, NEW r \in Requests, LeftInv(r), InCall(r), Advance(r),
           UNCHANGED <<records, settings, held>>, NEW at, at = UidOf(r),
           \A u \in Uids \ {at} : RowNow(r, u)' = RowNow(r, u),
           StepOf(r) \in {"cancel", "cancelLegacy"} => Refused(RowNow(r, at))' \/ Gone(at)
    PROVE  LeftInv(r)'
<1> DEFINE rest == Tail(work[r].steps)
<1>1. /\ work'[r].calls = work[r].calls /\ work'[r].cert = work[r].cert
      /\ work'[r].steps = rest /\ pc'[r] = IF rest = <<>> THEN "open" ELSE "step"
  BY AdvanceKeepsWork DEF CallInv, TypeOK
<1>2. work'[r].to = work[r].to
  BY DEF Advance, CallInv, TypeOK, WorkRecords
<1>3. /\ StepOf(r) \in StepNames
      /\ StepOf(r) = "retire" => rest = <<"publish">>
      /\ StepOf(r) = "cancel" => rest = <<"cancelLegacy">>
      /\ StepOf(r) \in {"publish", "cancelLegacy"} => rest = <<>>
  BY StepsLeft
<1> HIDE DEF rest
<1>4. /\ StepOf(r) = "cancel" => InCall(r)' /\ StepOf(r)' = "cancelLegacy"
      /\ InCall(r)' /\ StepOf(r)' \in {"retire", "publish"} => StepOf(r) = "retire"
      /\ pc'[r] # "idle" /\ pc[r] # "idle"
  <2>1. StepOf(r)' = Head(rest) /\ (InCall(r)' <=> rest # <<>>)
    BY <1>1 DEF StepOf, InCall
  <2>2. /\ Head(<<"publish">>) = "publish" /\ Head(<<"cancelLegacy">>) = "cancelLegacy"
        /\ <<"publish">> # <<>> /\ <<"cancelLegacy">> # <<>>
    OBVIOUS
  <2> QED
    BY <1>1, <1>3, <2>1, <2>2 DEF StepNames, InCall
<1>5. \A i : Active(i)' = Active(i) /\ Audience(i)' = Audience(i)
  BY SameRecord
<1>6. Ids' = Ids /\ \A p \in People, u \in Uids : Shows(p, u)' = Shows(p, u)
  BY DEF Ids, Shows
<1>7. InCall(r)' => (work[r].to)' = (Audience(work[r].cert))'
  BY <1>1, <1>2 DEF LeftInv, Audience
<1>8. InCall(r)' /\ StepOf(r)' \in {"retire", "publish"} => Active(work[r].cert)'
  BY <1>1, <1>4 DEF LeftInv, Active
<1>9. ASSUME NEW u \in Uids, u[1] \in Ids, ~ Active(u[1])
      PROVE  Withdrawing(r, u)' \/ Refused(RowNow(r, u))' \/ Gone(u)
  <2>1. Withdrawing(r, u) \/ Refused(RowNow(r, u)) \/ Gone(u)
    BY <1>9 DEF LeftInv
  <2>2. CASE u = at
    <3>1. work[r].cert = u[1]
      BY <2>2 DEF UidOf
    <3>2. StepOf(r) \in {"cancel", "cancelLegacy"}
      BY <1>3, <1>9, <3>1 DEF LeftInv, StepNames
    <3> QED
      BY <2>2, <3>2
  <2>3. CASE u # at
    <3>1. Refused(RowNow(r, u)) => Refused(RowNow(r, u))'
      BY <2>3 DEF Refused
    <3>2. CASE \E k \in 1 .. Len(work[r].calls) : work[r].calls[k] = Call("withdraw", u[1])
      BY <1>1, <1>4, <3>2 DEF Withdrawing
    <3>3. CASE work[r].cert = u[1] /\ (StepOf(r) = "cancel" \/ (StepOf(r) = "cancelLegacy" /\ u[2] = "renew"))
      <4>1. u = <<u[1], u[2]>> /\ u[2] \in {"expiry", "renew"}
        BY DEF Uids, Kinds
      <4>2. StepOf(r) = "cancel" /\ u[2] = "renew"
        BY <2>3, <3>3, <4>1 DEF UidOf
      <4> QED
        BY <1>1, <1>4, <3>3, <4>2 DEF Withdrawing
    <3> QED
      BY <2>1, <3>1, <3>2, <3>3 DEF Withdrawing
  <2> QED
    BY <2>2, <2>3
<1>10. \A u \in Uids : Gone(u)' = Gone(u)
  BY <1>6 DEF Gone
<1>11. \A p \in People, u \in Uids : Shows(p, u)' => u[1] \in Ids' /\ p \in Audience(u[1])'
  BY <1>5, <1>6 DEF LeftInv
<1>12. \A u \in Uids : u[1] \in Ids' /\ ~ Active(u[1])' =>
           Withdrawing(r, u)' \/ Refused(RowNow(r, u))' \/ Gone(u)'
  BY <1>5, <1>6, <1>9, <1>10
<1> QED
  BY <1>7, <1>8, <1>11, <1>12 DEF LeftInv

LEMMA SkipKeepsLeft ==
    ASSUME CallInv, NEW r \in Requests, RowInv(r), LeftInv(r), SkipStep(r)
    PROVE  LeftInv(r)'
<1> PICK at : at = UidOf(r)
  OBVIOUS
<1>1. /\ pc[r] = "step" /\ Advance(r) /\ NothingToDo(r)
      /\ UNCHANGED <<records, settings, held>>
      /\ invites' = IF pending[r] = NoRow THEN invites ELSE [invites EXCEPT ![Expiry(r)] = pending[r]]
      /\ pending' = [pending EXCEPT ![r] = NoRow]
  BY DEF SkipStep
<1>2. InCall(r) /\ pending'[r] = NoRow /\ at \in Uids
  BY <1>1, StepNow DEF InCall, CallInv, TypeOK
<1>3. \A u \in Uids : RowNow(r, u)' = RowNow(r, u)
  BY <1>1, <1>2, UidsInCall DEF RowNow, CallInv, TypeOK
<1>4. StepOf(r) \in {"cancel", "cancelLegacy"} => Gone(at)
  <2> SUFFICES ASSUME StepOf(r) \in {"cancel", "cancelLegacy"}
               PROVE  Gone(at)
    OBVIOUS
  <2>1. invites[at] = NoRow
    BY <1>1 DEF NothingToDo
  <2>2. RowNow(r, at) = NoRow
    BY <1>2, <2>1, StepNow DEF RowNow
  <2>3. Covers(RowNow(r, at), at)
    BY <1>1, <1>2 DEF RowInv, RowsTold, Between
  <2> QED
    BY <2>2, <2>3 DEF Covers, Gone, Shows
<1> QED
  BY <1>1, <1>2, <1>3, <1>4, AdvanceKeepsLeft

LEMMA BeginKeepsLeft ==
    ASSUME NEW r \in Requests, CallInv, LeftInv(r), BeginSend(r)
    PROVE  LeftInv(r)'
<1>1. /\ pc[r] = "step" /\ pc'[r] = "sending"
      /\ UNCHANGED <<records, settings, invites, held, work, pending>>
  BY DEF BeginSend, CallInv, TypeOK
<1>2. InCall(r) /\ InCall(r)' /\ StepOf(r)' = StepOf(r) /\ \A u \in Uids : RowNow(r, u)' = RowNow(r, u)
  BY <1>1 DEF InCall, StepOf, RowNow, Expiry
<1>3. \A u \in Uids : Withdrawing(r, u) => Withdrawing(r, u)'
  BY <1>1, <1>2 DEF Withdrawing
<1>4. work'[r].to = Audience(work'[r].cert)
      /\ (StepOf(r)' \in {"retire", "publish"} => Active(work'[r].cert))
  BY <1>1, <1>2 DEF LeftInv
<1> QED
  BY <1>1, <1>2, <1>3, <1>4, NothingIsSent

(* What arrives is a publication of an active record, for people who are on *)
(* it, or takes an event back.                                              *)
LEMMA AcceptKeepsLeft ==
    ASSUME CallInv, NEW r \in Requests, RowInv(r), LeftInv(r), Accept(r)
    PROVE  LeftInv(r)'
<1> PICK at : at = UidOf(r)
  OBVIOUS
<1>1. /\ pc[r] = "sending" /\ pc'[r] = "accepted"
      /\ held' = [p \in People |->
            IF p \in work[r].to /\ Replaces(mail[r], held[p][at])
            THEN [held[p] EXCEPT ![at] = mail[r]] ELSE held[p]]
      /\ UNCHANGED <<records, settings, invites, work, mail, pending>>
  BY DEF Accept, CallInv, TypeOK
<1>2. /\ InCall(r) /\ InCall(r)' /\ InFlight(r) /\ StepOf(r)' = StepOf(r) /\ Ids' = Ids
      /\ \A u : RowNow(r, u)' = RowNow(r, u)
  BY <1>1 DEF InCall, InFlight, StepOf, Ids, RowNow, Expiry
<1>3. \A i : Active(i)' = Active(i) /\ Audience(i)' = Audience(i)
  BY <1>1, SameRecord
<1>4. at \in Uids /\ at[1] = work[r].cert /\ at[1] \in Ids
  <2>1. at \in Uids /\ work[r].cert \in Ids
    BY <1>2, UidsInCall DEF CallInv, WorkInv
  <2> QED
    BY <2>1 DEF UidOf
<1>5. ASSUME NEW p \in People, NEW u \in Uids, Shows(p, u)', ~ Shows(p, u)
      PROVE  u = at /\ p \in Audience(at[1]) /\ Active(at[1])
  <2>1. u = at /\ p \in work[r].to /\ held'[p][at] = mail[r]
    BY <1>1, <1>5 DEF Shows, CallInv, TypeOK
  <2>2. StepOf(r) = "publish"
    BY <1>2, <1>5, <2>1 DEF Shows, RowInv, SendInv
  <2> QED
    BY <1>2, <1>4, <2>1, <2>2 DEF LeftInv
<1>6. \A p \in People, u \in Uids : Shows(p, u)' => u[1] \in Ids' /\ p \in Audience(u[1])'
  BY <1>2, <1>3, <1>4, <1>5 DEF LeftInv
<1>7. \A u \in Uids : ~ Active(u[1]) /\ Gone(u) => Gone(u)'
  BY <1>5 DEF Gone
<1>8. \A u \in Uids : /\ Withdrawing(r, u) => Withdrawing(r, u)'
                      /\ Refused(RowNow(r, u)) => Refused(RowNow(r, u))'
  BY <1>1, <1>2 DEF Withdrawing, Refused
<1>9. \A u \in Uids : u[1] \in Ids' /\ ~ Active(u[1])' =>
          Withdrawing(r, u)' \/ Refused(RowNow(r, u))' \/ Gone(u)'
  BY <1>2, <1>3, <1>7, <1>8 DEF LeftInv
<1>10. InCall(r)' => (work[r].to)' = (Audience(work[r].cert))'
  BY <1>1, <1>2 DEF LeftInv, Audience
<1>11. InCall(r)' /\ StepOf(r)' \in {"retire", "publish"} => Active(work[r].cert)'
  BY <1>1, <1>2 DEF LeftInv, Active
<1> QED
  BY <1>6, <1>9, <1>10, <1>11 DEF LeftInv

(* A cancellation the mail server took has reached everybody who held the   *)
(* event; one it did not take leaves a row that says so.                    *)
LEMMA AnswerKeepsLeft ==
    ASSUME CallInv, NEW r \in Requests, Requests = {r}, RowInv(r), LeftInv(r),
           AnswerOk(r) \/ AnswerError(r)
    PROVE  LeftInv(r)'
<1>1. PICK status \in {"sent", "error"} :
         /\ InFlight(r) /\ Answer(r, status)
         /\ status = "sent" => pc[r] = "accepted"
  BY DEF AnswerOk, AnswerError, InFlight
<1> PICK new : new = Written(r, status)
  OBVIOUS
<1> PICK at : at = UidOf(r)
  OBVIOUS
<1>2. /\ \A u \in Uids : RowNow(r, u)' = IF u = at THEN new ELSE RowNow(r, u)
      /\ UNCHANGED <<records, settings, held>> /\ Advance(r) /\ InCall(r) /\ new # NoRow
  BY <1>1, AnswerNow DEF RowInv, InFlight, InCall
<1>3. new.status = status /\ at \in Uids /\ at[1] = work[r].cert
  BY <1>2, StepNow DEF Written, Row, UidOf
<1>4. StepOf(r) \in {"cancel", "cancelLegacy"} => Refused(RowNow(r, at))' \/ Gone(at)
  <2> SUFFICES ASSUME StepOf(r) \in {"cancel", "cancelLegacy"}
               PROVE  Refused(RowNow(r, at))' \/ Gone(at)
    OBVIOUS
  <2>1. CASE status = "error"
    BY <1>2, <1>3, <2>1 DEF Refused
  <2>2. CASE status = "sent"
    <3>1. mail[r].cancelled
      BY <1>1 DEF RowInv, SendInv
    <3>2. \A p \in work[r].to : ~ Shows(p, at)
      BY <1>1, <2>2, <3>1 DEF RowInv, Arrived
    <3>3. work[r].to = Audience(at[1])
      BY <1>2, <1>3 DEF LeftInv
    <3> QED
      BY <1>3, <3>2, <3>3 DEF LeftInv, Gone
  <2> QED
    BY <2>1, <2>2
<1> QED
  BY <1>2, <1>4, AdvanceKeepsLeft

-----------------------------------------------------------------------------
LeftsInv == \A r \in Requests : LeftInv(r)

LEMMA LeftsInit ==
    ASSUME Init
    PROVE  LeftsInv
<1> SUFFICES ASSUME NEW r \in Requests
             PROVE  LeftInv(r)
  BY DEF LeftsInv
<1>1. ~ InCall(r)
  BY DEF Init, InCall
<1>2. \A p \in People, u \in Uids : Shows(p, u) => u[1] \in Ids /\ p \in Audience(1)
  BY DEF Init, Shows
<1>3. \A u \in Uids : u[1] \in Ids => u[1] = 1
  BY InitRow
<1>4. \A i \in Ids : Active(i)
  <2>1. CASE records = <<>>
    BY <2>1 DEF Ids
  <2>2. CASE \E d \in Days : records = <<New(NoFile, d, {}, {})>>
    BY <2>2 DEF Ids, Active, New
  <2> QED
    BY <2>1, <2>2 DEF Init
<1> QED
  BY <1>1, <1>2, <1>3, <1>4 DEF LeftInv

LEMMA StepKeepsLeft ==
    ASSUME RecordsInv, CallInv, OneAtATime, RowsInv, LeftsInv, OnlyActiveIsPublished, [Next]_vars,
           [\A i \in Ids : Audience(i) \subseteq Audience(i)']_vars
    PROVE  LeftsInv'
<1>1. PICK r : Requests = {r}
  BY DEF OneAtATime
<1>2. r \in Requests /\ RowInv(r) /\ LeftInv(r) /\ SendInv(r)
  BY <1>1 DEF RowsInv, LeftsInv, RowInv
<1> SUFFICES LeftInv(r)'
  BY <1>1 DEF LeftsInv
<1>3. CASE UNCHANGED vars
  <2>1. UNCHANGED <<records, settings, held, invites, pc, work, pending>>
    BY <1>3 DEF vars, requestVars
  <2>2. InCall(r)' = InCall(r) /\ StepOf(r)' = StepOf(r) /\ \A u \in Uids : RowNow(r, u)' = RowNow(r, u)
    BY <2>1 DEF InCall, StepOf, RowNow, Expiry
  <2>3. \A u \in Uids : Withdrawing(r, u) => Withdrawing(r, u)'
    BY <2>1, <2>2 DEF Withdrawing
  <2> QED
    BY <1>2, <2>1, <2>2, <2>3, NothingIsSent DEF LeftInv
<1>4. CASE FlushFailure(r)
  BY <1>1, <1>2, <1>4, NobodyInTheWay DEF FlushFailure
<1>5. CASE Route(r)
  <2>1. \A i \in Ids : Audience(i) \subseteq Audience(i)'
    <3>1. CASE UNCHANGED vars
      BY <3>1, SameRecord DEF vars
    <3> QED
      BY <3>1
  <2>2. Ids \subseteq Ids'
    BY CalendarStepIsRecordsStep, TableGrows DEF CallInv, TypeOK
  <2> QED
    BY <1>2, <1>5, <2>1, <2>2, RouteWithdraws, ServeKeepsLeft
<1> QED
  BY <1>1, <1>2, <1>3, <1>4, <1>5, OpenCallKeepsLeft, BetweenCallsKeepsLeft,
     SkipKeepsLeft, BeginKeepsLeft, AcceptKeepsLeft, AnswerKeepsLeft
     DEF Next, Step, OneAtATime, Crash

(* Nothing is left behind in a run in which nobody is taken off a record    *)
(* and only active records' events are published: the events of an archived *)
(* record whose messages were all delivered are in nobody's calendar.       *)
THEOREM NothingElseIsLeft ==
    OneAtATime => (Spec /\ NobodyIsTakenOff /\ []OnlyActiveIsPublished => []NothingLeftBehind)
<1>1. ASSUME OneAtATime, LeftsInv, CallInv
      PROVE  NothingLeftBehind
  <2> SUFFICES ASSUME Quiet, NEW i \in Ids, NEW k \in Kinds, ~ Active(i),
                      \A kind \in Kinds :
                          invites[<<i, kind>>] # NoRow => invites[<<i, kind>>].status = "sent"
               PROVE  \A p \in People : ~ Shows(p, <<i, k>>)
    BY DEF NothingLeftBehind
  <2>1. PICK r : Requests = {r}
    BY <1>1 DEF OneAtATime
  <2>2. r \in Requests /\ pc[r] = "idle" /\ ~ InCall(r) /\ pending[r] = NoRow /\ LeftInv(r)
    BY <1>1, <2>1 DEF Quiet, CallInv, WorkInv, InCall, LeftsInv
  <2> PICK u : u = <<i, k>>
    OBVIOUS
  <2>3. u \in Uids /\ u[1] = i
    <3>1. Ids \subseteq 1 .. MaxRecords
      BY <1>1, RecordsAssumption DEF CallInv, TypeOK, Ids
    <3> QED
      BY <3>1 DEF Uids
  <2>4. ~ Withdrawing(r, u) /\ RowNow(r, u) = invites[u]
    BY <2>2 DEF Withdrawing, RowNow
  <2>5. ~ Refused(invites[u])
    BY DEF Refused
  <2> QED
    BY <2>2, <2>3, <2>4, <2>5 DEF LeftInv, Gone
<1>2. ASSUME OneAtATime
      PROVE  Spec /\ NobodyIsTakenOff /\ []OnlyActiveIsPublished => []NothingLeftBehind
  <2>1. /\ RecordsInv /\ CallInv /\ RowsInv /\ LeftsInv /\ OnlyActiveIsPublished
        /\ [Next]_vars /\ [\A i \in Ids : Audience(i) \subseteq Audience(i)']_vars
        => LeftsInv'
    BY <1>2, StepKeepsLeft
  <2>2. LeftsInv /\ CallInv => NothingLeftBehind
    BY <1>1, <1>2
  <2>3. Spec => []RowsInv
    BY <1>2, RowsInvariant
  <2> QED
    BY <2>1, <2>2, <2>3, LeftsInit, CallInvariant, RecordsInvariant, PTL DEF Spec, NobodyIsTakenOff
<1> QED
  BY <1>2
=============================================================================
