-------------------------------- MODULE Records --------------------------------
(***************************************************************************)
(* The certificate records and what people do to them: app/services.py and *)
(* the part of app/routes/certificates.py that changes a record before it  *)
(* talks to anybody.  Every operation runs from reading the record to its  *)
(* commit without an await (an upload is read from memory), so each is one *)
(* step.  A file stands for its fingerprint; its expiry day is read from   *)
(* it.                                                                     *)
(***************************************************************************)
EXTENDS Integers, Sequences

CONSTANTS
    Files,              \* certificates that may be uploaded
    NoFile,             \* the fingerprint of a record entered by hand
    Days,               \* expiry days
    ExpiryOf,           \* the expiry day a file states
    Timings,            \* lead times and alarms of a calendar event
    Inherit,            \* a record that follows the global timing
    People,
    Audiences,          \* the sets of people somebody may type
    Owners,             \* those that name an owner: at most one person
    MaxRecords          \* bound on the records

ASSUME RecordsAssumption ==
    /\ NoFile \notin Files
    /\ Inherit \notin Timings
    /\ ExpiryOf \in [Files -> Days]
    /\ Audiences \subseteq SUBSET People
    /\ Owners \subseteq SUBSET People
    /\ MaxRecords \in Nat

VARIABLES
    records,            \* the certificate table, by id
    settings            \* timing and default recipients of AppSettings

Ids == DOMAIN records

Record == [status   : {"active", "archived"},
           file     : Files \union {NoFile},
           date     : Days,
           own      : Timings \union {Inherit},
           owner    : SUBSET People,
           extra    : SUBSET People,
           replace  : BOOLEAN,
           next     : 0 .. MaxRecords]

Settings == [timing : Timings, defaults : Audiences]

New(file, date, owner, extra) ==
    [status |-> "active", file |-> file, date |-> date, own |-> Inherit,
     owner |-> owner, extra |-> extra, replace |-> FALSE, next |-> 0]

RecordsInit ==
    /\ records = <<>>
    /\ settings \in [timing : Timings, defaults : Audiences]

Active(i) == records[i].status = "active"

ByFile(f) == {i \in Ids : records[i].file = f}

(* renew_lead_days and alarm_days: the record's own, or the default. *)
Timing(i) == IF records[i].own = Inherit THEN settings.timing ELSE records[i].own

(* calendar_recipients_for. *)
Audience(i) ==
    records[i].owner \union records[i].extra
        \union (IF records[i].replace THEN {} ELSE settings.defaults)

(* What the calendar event of a record says. *)
Event(i) == [date |-> records[i].date, timing |-> Timing(i)]

-----------------------------------------------------------------------------
Insert(record) ==
    /\ Len(records) < MaxRecords
    /\ records' = Append(records, record)
    /\ UNCHANGED settings

(* A file that is registered already links to its record: nothing changes. *)
CreateFromFacts(f, owner) == ByFile(f) = {} /\ Insert(New(f, ExpiryOf[f], owner, {}))

CreateManual(d, owner) == Insert(New(NoFile, d, owner, {}))

UpdateDetails(i, own, owner, extra, replace) ==
    /\ records' = [records EXCEPT ![i].own = own, ![i].owner = owner,
                                  ![i].extra = extra, ![i].replace = replace]
    /\ UNCHANGED settings

Archive(i) ==
    /\ Active(i)
    /\ records' = [records EXCEPT ![i].status = "archived"]
    /\ UNCHANGED settings

(* Any record, and what superseded it is kept. *)
Restore(i) ==
    /\ records' = [records EXCEPT ![i].status = "active"]
    /\ UNCHANGED settings

(* Variants with a fault: a registered file, another day are not refused. *)
AttachDuplicate(i, f, confirm) ==
    /\ ExpiryOf[f] = records[i].date \/ confirm
    /\ records' = [records EXCEPT ![i].file = f, ![i].date = ExpiryOf[f]]
    /\ UNCHANGED settings

AttachKeepsDate(i, f, confirm) ==
    /\ ByFile(f) \subseteq {i}
    /\ ExpiryOf[f] = records[i].date \/ confirm
    /\ records' = [records EXCEPT ![i].file = f]
    /\ UNCHANGED settings

AttachFacts(i, f, confirm) ==
    /\ ByFile(f) \subseteq {i}
    /\ ExpiryOf[f] = records[i].date \/ confirm
    /\ records' = [records EXCEPT ![i].file = f, ![i].date = ExpiryOf[f]]
    /\ UNCHANGED settings

(* The successor is the record of that file, whatever its status, or a new  *)
(* one that follows the global timing and the default recipients again.     *)
Successor(f) == IF ByFile(f) = {} THEN Len(records) + 1 ELSE CHOOSE i \in ByFile(f) : TRUE

Replaced(i, s) == [records[i] EXCEPT !.status = "archived", !.next = s]

Renew(i, f) ==
    /\ f # records[i].file
    /\ LET s == Successor(f) IN
       /\ s <= MaxRecords
       /\ records' =
            IF s \in Ids
            THEN [records EXCEPT ![i] = Replaced(i, s), ![s].extra = records[i].extra]
            ELSE Append([records EXCEPT ![i] = Replaced(i, s)],
                        New(f, ExpiryOf[f], records[i].owner, records[i].extra))
    /\ UNCHANGED settings

SaveSettings(timing, defaults) ==
    /\ settings' = [timing |-> timing, defaults |-> defaults]
    /\ UNCHANGED records

RecordsNext ==
    \/ \E f \in Files, o \in Owners : CreateFromFacts(f, o)
    \/ \E d \in Days, o \in Owners : CreateManual(d, o)
    \/ \E i \in Ids, own \in Timings \union {Inherit}, o \in Owners,
          a \in Audiences \union {{}}, b \in BOOLEAN :
          UpdateDetails(i, own, o, a, b)
    \/ \E i \in Ids : Archive(i) \/ Restore(i)
    \/ \E i \in Ids, f \in Files, confirm \in BOOLEAN : AttachFacts(i, f, confirm)
    \/ \E i \in Ids, f \in Files : Renew(i, f)
    \/ \E t \in Timings, a \in Audiences : SaveSettings(t, a)

recordsVars == <<records, settings>>

RecordsSpec == RecordsInit /\ [][RecordsNext]_recordsVars

-----------------------------------------------------------------------------
(* One record per certificate: uploading, attaching and renewing all link   *)
(* to the record a file has, or refuse it.                                 *)
OneRecordPerFile ==
    \A i, j \in Ids : records[i].file = records[j].file /\ i # j => records[i].file = NoFile

(* A verified record expires on the day its certificate states, however it  *)
(* got its certificate.                                                    *)
VerifiedExpiry ==
    \A i \in Ids : records[i].file # NoFile => records[i].date = ExpiryOf[records[i].file]

(* README.md, "Renewing": new invites go out for the replacement.  So what  *)
(* replaces a record is on the board.                                      *)
ReplacementIsActive ==
    [][\A i \in Ids : records'[i].next # records[i].next =>
          records'[records'[i].next].status = "active"]_recordsVars
=============================================================================
