-------------------------- MODULE CalendarProperties --------------------------
(***************************************************************************)
(* What the calendar invites must get right, over the module Calendar.     *)
(***************************************************************************)
EXTENDS Calendar

Events == [date : Days, timing : Timings]
Messages == [seq : Nat, cancelled : BOOLEAN, event : Events]
Rows == [seq : Nat, cancelled : BOOLEAN, status : {"sent", "error"}, date : Days,
         to : SUBSET People]
CallRecords == [what : {"publish", "withdraw"}, cert : 1 .. MaxRecords]
WorkRecords == [calls : Seq(CallRecords), later : SUBSET (1 .. MaxRecords),
                cert : 0 .. MaxRecords, to : SUBSET People,
                steps : Seq({"retire", "publish", "cancel", "cancelLegacy"}),
                event : Events \union {NoEvent}]

ASSUME NamesAssumption == NoRow \notin Rows /\ NoEvent \notin Messages

(* Every variable keeps its type; a request that sends has a message, and   *)
(* the write lock belongs to one that sends its second cancellation.        *)
TypeOK ==
    /\ records \in Seq(Record) /\ Len(records) <= MaxRecords
    /\ settings \in Settings
    /\ invites \in [Uids -> Rows \union {NoRow}]
    /\ held \in [People -> [Uids -> Messages \union {NoEvent}]]
    /\ pc \in [Requests -> {"idle", "open", "step", "sending", "accepted"}]
    /\ work \in [Requests -> WorkRecords]
    /\ mail \in [Requests -> Messages \union {NoEvent}]
    /\ loaded \in [Requests -> Rows \union {NoRow}]
    /\ pending \in [Requests -> Rows \union {NoRow}]
    /\ writer \in Requests \union {NoOne}
    /\ served \in 0 .. MaxServed
    /\ untold \subseteq 1 .. MaxRecords
    /\ \A r \in Requests : InFlight(r) <=> mail[r] # NoEvent
    /\ writer # NoOne => InFlight(writer) /\ pending[writer] # NoRow

Quiet == \A r \in Requests : pc[r] = "idle"

Shows(p, u) == held[p][u] # NoEvent /\ ~ held[p][u].cancelled

-----------------------------------------------------------------------------
(* A row that says "sent" describes what the people it names have in their  *)
(* calendars, when nobody is working on it.                                *)
RowTells ==
    Quiet => \A u \in Uids : invites[u] # NoRow /\ invites[u].status = "sent" =>
        \A p \in invites[u].to :
            IF invites[u].cancelled THEN ~ Shows(p, u)
            ELSE /\ Shows(p, u)
                 /\ held[p][u].seq = invites[u].seq
                 /\ held[p][u].event.date = invites[u].date

(* notifier.py: SEQUENCE is incremented on every send, which is what makes  *)
(* calendar clients replace the previous version.  So what arrives is       *)
(* always newer than what the person has.                                  *)
SequenceGrows ==
    [][\A r \in Requests : pc[r] = "sending" /\ pc'[r] = "accepted" =>
          \A p \in work[r].to :
              held[p][UidOf(r)] # NoEvent => mail[r].seq > held[p][UidOf(r)].seq]_vars

(* README.md, "Calendar invites": the event moves when the date, the alarms *)
(* or the global timing do.  After attaching, retiming, restoring, renewing *)
(* and changing the global timing, whoever is to be told about an active    *)
(* record and was named by its row holds the present date and alarms --    *)
(* unless the row says that the last message failed, or there was nobody   *)
(* to tell when the event changed.                                         *)
EventIsCurrent ==
    Quiet => \A i \in Ids : Active(i) /\ i \notin untold =>
        LET row == invites[<<i, "expiry">>] IN
        row # NoRow /\ row.status = "sent" =>
            \A p \in Audience(i) \intersect row.to :
                Shows(p, <<i, "expiry">>) /\ held[p][<<i, "expiry">>].event = Event(i)

(* README.md: archiving or replacing a certificate cancels the event people *)
(* already have rather than leaving it behind.  Nobody holds an event of an *)
(* archived record whose messages were all delivered.                      *)
NothingLeftBehind ==
    Quiet => \A i \in Ids, k \in Kinds :
        /\ ~ Active(i)
        /\ \A kind \in Kinds : invites[<<i, kind>>] # NoRow => invites[<<i, kind>>].status = "sent"
        => \A p \in People : ~ Shows(p, <<i, k>>)

(* Every request comes to its end, and so the write lock that one of them   *)
(* holds while it sends is given back.                                     *)
RequestsEnd == \A r \in Requests : pc[r] # "idle" ~> pc[r] = "idle"
=============================================================================
