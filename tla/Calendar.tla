------------------------------- MODULE Calendar -------------------------------
(***************************************************************************)
(* The calendar events of the certificate records: the routes of           *)
(* app/routes/certificates.py and save_settings, each followed by          *)
(* Notifier.send_invites or cancel_invites (app/notifier.py).              *)
(*                                                                         *)
(* A request changes its record and commits in one step (module Records);  *)
(* then it sends, and every send is an await during which other requests   *)
(* run.  A row of calendar_invite is read before the send and written      *)
(* after it, and only the columns whose value differs from the one read    *)
(* are written.  cancel_invites sends twice before its one commit: the     *)
(* second look-up flushes the first change, and SQLite's write lock is     *)
(* held across the second send.                                            *)
(*                                                                         *)
(* A calendar replaces an event by a message with a higher SEQUENCE, as    *)
(* send_invites and _reissue_invites say it does.                          *)
(***************************************************************************)
EXTENDS Records

CONSTANTS
    Requests,           \* requests open at once
    Routes,             \* the routes people use
    Faults,             \* subset of {"refused", "lost", "crash"}
    NoOne, NoRow, NoEvent,
    Legacy,             \* whether record 1 exists, with a separate renewal event
    MaxServed           \* bound on the requests

ASSUME CalendarAssumption ==
    /\ Routes \subseteq {"upload", "manual", "update", "archive", "restore",
                         "attach", "renew", "resend", "settings"}
    /\ Faults \subseteq {"refused", "lost", "crash"}
    /\ NoOne \notin Requests
    /\ Legacy \in BOOLEAN
    /\ Legacy => MaxRecords # 0
    /\ MaxServed \in Nat

VARIABLES
    invites,            \* calendar_invite: the row of each event, or NoRow
    held,               \* the event in each person's calendar, or NoEvent
    pc,                 \* where each request is
    work,               \* what it has left to do
    mail,               \* the message it is sending
    loaded,             \* the row it read before sending
    pending,            \* a row it changed and has not committed
    writer,             \* who holds the write lock
    served,             \* requests so far
    untold              \* history: records whose event was last published for nobody

requestVars == <<pc, work, mail, loaded, pending>>
vars == <<records, settings, invites, held, requestVars, writer, served, untold>>

Kinds == {"expiry", "renew"}
Uids == (1 .. MaxRecords) \X Kinds

(* What one send_invites call does for each kind, in order.  "retire" is    *)
(* _retire_separate_renewal_event.                                         *)
Steps(what) == IF what = "publish" THEN <<"retire", "publish">>
                                   ELSE <<"cancel", "cancelLegacy">>

NoWork == [calls |-> <<>>, later |-> {}, cert |-> 0, to |-> {}, steps |-> <<>>, event |-> NoEvent]
Call(what, i) == [what |-> what, cert |-> i]

InFlight(r) == pc[r] \in {"sending", "accepted"}
LoopFree == \A r \in Requests : pc[r] = "idle" \/ InFlight(r)

Row(seq, cancelled, status, date, to) ==
    [seq |-> seq, cancelled |-> cancelled, status |-> status, date |-> date, to |-> to]

(* The old record of an installation that predates the single event. *)
LegacyEvent == [seq |-> 0, cancelled |-> FALSE, event |-> Event(1)]

Init ==
    /\ settings \in [timing : Timings, defaults : Audiences]
    /\ \/ ~ Legacy /\ records = <<>>
       \/ Legacy /\ \E d \in Days : records = <<New(NoFile, d, {}, {})>>
    /\ invites = [u \in Uids |->
          IF u[1] \in Ids THEN Row(0, FALSE, "sent", records[1].date, Audience(1)) ELSE NoRow]
    /\ held = [p \in People |-> [u \in Uids |->
          IF u[1] \in Ids /\ p \in Audience(1) THEN LegacyEvent ELSE NoEvent]]
    /\ pc = [r \in Requests |-> "idle"]
    /\ work = [r \in Requests |-> NoWork]
    /\ mail = [r \in Requests |-> NoEvent]
    /\ loaded = [r \in Requests |-> NoRow]
    /\ pending = [r \in Requests |-> NoRow]
    /\ writer = NoOne
    /\ served = 0
    /\ untold = {}

-----------------------------------------------------------------------------
(* The routes.  While another session holds the write lock a commit fails,  *)
(* and the request with it, before it changed anything.                    *)
Serve(r, route, calls, later) ==
    /\ LoopFree
    /\ route \in Routes
    /\ pc[r] = "idle"
    /\ served < MaxServed
    /\ served' = served + 1
    /\ pc' = [pc EXCEPT ![r] = "open"]
    /\ work' = [work EXCEPT ![r] = [NoWork EXCEPT !.calls = calls, !.later = later]]
    /\ UNCHANGED <<invites, held, mail, loaded, pending, writer, untold>>

RegisterUpload(r) ==
    /\ writer = NoOne
    /\ \E f \in Files, o \in Owners : CreateFromFacts(f, o)
    /\ Serve(r, "upload", <<Call("publish", Len(records) + 1)>>, {})

RegisterManual(r) ==
    /\ writer = NoOne
    /\ \E d \in Days, o \in Owners : CreateManual(d, o)
    /\ Serve(r, "manual", <<Call("publish", Len(records) + 1)>>, {})

(* Only a change of timing or audience is sent, and not for an archived one. *)
UpdateCertificate(r) ==
    /\ writer = NoOne
    /\ \E i \in Ids, own \in Timings \union {Inherit}, o \in Owners,
          a \in Audiences \union {{}}, b \in BOOLEAN :
          /\ UpdateDetails(i, own, o, a, b)
          /\ LET retimed == \/ Timing(i)' # Timing(i)
                            \/ <<o, a, b>> # <<records[i].owner, records[i].extra, records[i].replace>>
             IN  Serve(r, "update",
                       IF retimed /\ Active(i) THEN <<Call("publish", i)>> ELSE <<>>, {})

ArchiveCertificate(r) ==
    /\ writer = NoOne
    /\ \E i \in Ids : Archive(i) /\ Serve(r, "archive", <<Call("withdraw", i)>>, {})

RestoreCertificate(r) ==
    /\ writer = NoOne
    /\ \E i \in Ids : Restore(i) /\ Serve(r, "restore", <<Call("publish", i)>>, {})

Attach(r) ==
    /\ writer = NoOne
    /\ \E i \in Ids, f \in Files, confirm \in BOOLEAN :
          AttachFacts(i, f, confirm) /\ Serve(r, "attach", <<Call("publish", i)>>, {})

RenewCertificate(r) ==
    /\ writer = NoOne
    /\ \E i \in Ids, f \in Files :
          /\ Renew(i, f)
          /\ Serve(r, "renew", <<Call("withdraw", i), Call("publish", Successor(f))>>, {})

(* No look at the status: an archived record's event is published too. *)
ResendInvites(r) ==
    /\ \E i \in Ids : Serve(r, "resend", <<Call("publish", i)>>, {})
    /\ UNCHANGED <<records, settings>>

(* A variant with a fault: the events people hold keep the old timing. *)
SettingsKeepEvents(r) ==
    /\ writer = NoOne
    /\ \E t \in Timings, a \in Audiences :
          SaveSettings(t, a) /\ Serve(r, "settings", <<>>, {})

(* _reissue_invites lists the active records once. *)
SaveGlobalSettings(r) ==
    /\ writer = NoOne
    /\ \E t \in Timings, a \in Audiences :
          /\ SaveSettings(t, a)
          /\ Serve(r, "settings", <<>>,
                   IF t # settings.timing THEN {i \in Ids : Active(i)} ELSE {})

-----------------------------------------------------------------------------
(* send_invites: nobody to tell, or the steps of the call.  The program    *)
(* keeps no note of an event that was published for nobody; untold does.   *)
OpenCall(r) ==
    /\ pc[r] = "open"
    /\ work[r].calls # <<>>
    /\ LET call == Head(work[r].calls)
           to   == Audience(call.cert)
       IN /\ work' = [work EXCEPT ![r].calls = Tail(@), ![r].cert = call.cert, ![r].to = to,
                                  ![r].steps = IF to = {} THEN <<>> ELSE Steps(call.what),
                                  ![r].event = Event(call.cert)]
          /\ pc' = [pc EXCEPT ![r] = IF to = {} THEN "open" ELSE "step"]
          /\ untold' = IF call.what # "publish" THEN untold
                       ELSE IF to = {} THEN untold \union {call.cert} ELSE untold \ {call.cert}
    /\ UNCHANGED <<records, settings, invites, held, mail, loaded, pending, writer, served>>

NextReissue(r) ==
    /\ pc[r] = "open"
    /\ work[r].calls = <<>>
    /\ \E i \in work[r].later :
          work' = [work EXCEPT ![r].calls = <<Call("publish", i)>>, ![r].later = @ \ {i}]
    /\ UNCHANGED <<records, settings, invites, held, pc, mail, loaded, pending, writer, served, untold>>

Close(r) ==
    /\ pc[r] = "open"
    /\ work[r].calls = <<>>
    /\ work[r].later = {}
    /\ pc' = [pc EXCEPT ![r] = "idle"]
    /\ work' = [work EXCEPT ![r] = NoWork]
    /\ UNCHANGED <<records, settings, invites, held, mail, loaded, pending, writer, served, untold>>

(* The request ends with an error; its session is rolled back. *)
Fail(r) ==
    /\ pc' = [pc EXCEPT ![r] = "idle"]
    /\ work' = [work EXCEPT ![r] = NoWork]
    /\ mail' = [mail EXCEPT ![r] = NoEvent]
    /\ loaded' = [loaded EXCEPT ![r] = NoRow]
    /\ pending' = [pending EXCEPT ![r] = NoRow]
    /\ writer' = IF writer = r THEN NoOne ELSE writer
    /\ UNCHANGED invites

Locked(r) == writer \notin {NoOne, r}

Advance(r) ==
    /\ work' = [work EXCEPT ![r].steps = Tail(@)]
    /\ pc' = [pc EXCEPT ![r] = IF Tail(work[r].steps) = <<>> THEN "open" ELSE "step"]

StepOf(r) == Head(work[r].steps)
UidOf(r) == <<work[r].cert, IF StepOf(r) \in {"retire", "cancelLegacy"} THEN "renew" ELSE "expiry">>
Expiry(r) == <<work[r].cert, "expiry">>

(* A pending change is flushed by the next look-up. *)
FlushFails(r) == pending[r] # NoRow /\ Locked(r)

(* Nothing to withdraw: no row or, before publishing, an event withdrawn    *)
(* already.                                                                *)
NothingToDo(r) ==
    LET row == invites[UidOf(r)]
    IN  /\ StepOf(r) # "publish"
        /\ IF row = NoRow THEN TRUE ELSE StepOf(r) = "retire" /\ row.cancelled

SkipStep(r) ==
    /\ pc[r] = "step"
    /\ ~ FlushFails(r)
    /\ NothingToDo(r)
    /\ invites' = IF pending[r] = NoRow THEN invites ELSE [invites EXCEPT ![Expiry(r)] = pending[r]]
    /\ pending' = [pending EXCEPT ![r] = NoRow]
    /\ Advance(r)
    /\ UNCHANGED <<records, settings, held, mail, loaded, writer, served, untold>>

(* A variant with a fault: the SEQUENCE is not incremented. *)
SequenceKept(row) == IF row = NoRow THEN 0 ELSE row.seq

SequenceAfter(row) == IF row = NoRow THEN 0 ELSE row.seq + 1

(* The record is read again after every commit; only the second             *)
(* cancellation follows a send without one.                                *)
BeginSend(r) ==
    /\ pc[r] = "step"
    /\ ~ FlushFails(r)
    /\ ~ NothingToDo(r)
    /\ LET row == invites[UidOf(r)]
       IN /\ loaded' = [loaded EXCEPT ![r] = row]
          /\ mail' = [mail EXCEPT ![r] =
                [seq       |-> SequenceAfter(row),
                 cancelled |-> StepOf(r) # "publish",
                 event     |-> IF StepOf(r) = "cancelLegacy" THEN work[r].event
                                                             ELSE Event(work[r].cert)]]
    /\ writer' = IF pending[r] = NoRow THEN writer ELSE r
    /\ pc' = [pc EXCEPT ![r] = "sending"]
    /\ UNCHANGED <<records, settings, invites, held, work, pending, served, untold>>

(* A variant with a fault: the flush waits for the lock without a limit.    *)
FlushWaits(r) == pc[r] = "step" /\ FlushFails(r) /\ UNCHANGED vars

(* The flush waits five seconds for the lock, on the event loop.           *)
FlushFailure(r) ==
    /\ pc[r] = "step"
    /\ FlushFails(r)
    /\ Fail(r)
    /\ UNCHANGED <<records, settings, held, served, untold>>

-----------------------------------------------------------------------------
(* The mail arrives: everybody it is addressed to has the event now. *)
Replaces(m, old) == IF old = NoEvent THEN ~ m.cancelled ELSE m.seq > old.seq

Accept(r) ==
    /\ pc[r] = "sending"
    /\ held' = [p \in People |->
          IF p \in work[r].to /\ Replaces(mail[r], held[p][UidOf(r)])
          THEN [held[p] EXCEPT ![UidOf(r)] = mail[r]] ELSE held[p]]
    /\ pc' = [pc EXCEPT ![r] = "accepted"]
    /\ UNCHANGED <<records, settings, invites, work, mail, loaded, pending, writer, served, untold>>

(* Columns that did not change since they were read keep what is there now. *)
Merge(now, old, new) ==
    IF old = NoRow THEN new
    ELSE [column \in DOMAIN new |-> IF new[column] = old[column] THEN now[column] ELSE new[column]]

(* uq_invite_kind: another request inserted the row meanwhile. *)
Collides(r) == loaded[r] = NoRow /\ invites[UidOf(r)] # NoRow

(* Only cancel_invites does not commit after its first kind. *)
CommitFails(r) == StepOf(r) # "cancel" /\ (Locked(r) \/ Collides(r))

(* A variant with a fault: the write lock is not released by the commit. *)
KeepLock(r, row) ==
    IF StepOf(r) = "cancel"
    THEN /\ pending' = [pending EXCEPT ![r] = row]
         /\ UNCHANGED <<invites, writer>>
    ELSE /\ invites' = [u \in Uids |->
              CASE u = UidOf(r) -> row
                [] u = Expiry(r) /\ u # UidOf(r) /\ pending[r] # NoRow -> pending[r]
                [] OTHER -> invites[u]]
         /\ pending' = [pending EXCEPT ![r] = NoRow]
         /\ UNCHANGED writer

(* The answer is written into the row; the commit writes both changed rows  *)
(* and releases the lock.                                                  *)
Keep(r, row) ==
    IF StepOf(r) = "cancel"
    THEN /\ pending' = [pending EXCEPT ![r] = row]
         /\ UNCHANGED <<invites, writer>>
    ELSE /\ invites' = [u \in Uids |->
              CASE u = UidOf(r) -> row
                [] u = Expiry(r) /\ u # UidOf(r) /\ pending[r] # NoRow -> pending[r]
                [] OTHER -> invites[u]]
         /\ pending' = [pending EXCEPT ![r] = NoRow]
         /\ writer' = IF writer = r THEN NoOne ELSE writer

Answer(r, status) ==
    /\ LoopFree
    /\ \/ CommitFails(r) /\ Fail(r)
       \/ /\ ~ CommitFails(r)
          /\ LET new == Row(mail[r].seq, mail[r].cancelled, status, mail[r].event.date, work[r].to)
             IN  Keep(r, Merge(invites[UidOf(r)], loaded[r], new))
          /\ mail' = [mail EXCEPT ![r] = NoEvent]
          /\ loaded' = [loaded EXCEPT ![r] = NoRow]
          /\ Advance(r)
    /\ UNCHANGED <<records, settings, held, served, untold>>

AnswerOk(r) == pc[r] = "accepted" /\ Answer(r, "sent")

(* A variant with a fault: the row says a failed message was sent. *)
AnswerErrorAsSent(r) ==
    /\ \/ pc[r] = "sending" /\ "refused" \in Faults
       \/ pc[r] = "accepted" /\ "lost" \in Faults
    /\ Answer(r, "sent")

AnswerError(r) ==
    /\ \/ pc[r] = "sending" /\ "refused" \in Faults
       \/ pc[r] = "accepted" /\ "lost" \in Faults
    /\ Answer(r, "error")

Crash ==
    /\ "crash" \in Faults
    /\ \E r \in Requests : pc[r] # "idle"
    /\ pc' = [r \in Requests |-> "idle"]
    /\ work' = [r \in Requests |-> NoWork]
    /\ mail' = [r \in Requests |-> NoEvent]
    /\ loaded' = [r \in Requests |-> NoRow]
    /\ pending' = [r \in Requests |-> NoRow]
    /\ writer' = NoOne
    /\ UNCHANGED <<records, settings, invites, held, served, untold>>

-----------------------------------------------------------------------------
Route(r) ==
    \/ RegisterUpload(r) \/ RegisterManual(r) \/ UpdateCertificate(r)
    \/ ArchiveCertificate(r) \/ RestoreCertificate(r) \/ Attach(r)
    \/ RenewCertificate(r) \/ ResendInvites(r) \/ SaveGlobalSettings(r)

Step(r) ==
    \/ OpenCall(r) \/ NextReissue(r) \/ Close(r)
    \/ SkipStep(r) \/ BeginSend(r) \/ FlushFailure(r)
    \/ Accept(r) \/ AnswerOk(r) \/ AnswerError(r)

Next == (\E r \in Requests : Route(r) \/ Step(r)) \/ Crash

Spec == Init /\ [][Next]_vars

(* Every send is answered in the end: the mail is sent with a time limit. *)
Fairness == \A r \in Requests : WF_vars(Step(r))

FairSpec == Spec /\ Fairness
=============================================================================
