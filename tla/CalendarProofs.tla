---------------------------- MODULE CalendarProofs ----------------------------
(***************************************************************************)
(* The certificate records, proved for any number of files, people,        *)
(* requests and records: every step of Calendar changes the records as an  *)
(* operation of Records does, and those operations keep one record per     *)
(* certificate, with the expiry day it states.                             *)
(***************************************************************************)
EXTENDS CalendarProperties, TLAPS

RecordsInv ==
    /\ records \in Seq(Record)
    /\ OneRecordPerFile
    /\ VerifiedExpiry

(* The entries of the table are records. *)
LEMMA RecordAt ==
    ASSUME RecordsInv, NEW i \in Ids
    PROVE  records[i] \in Record
BY DEF RecordsInv, Ids

(* A record that is inserted with a file nobody has, or with none, and the  *)
(* day that file states, keeps the invariant.                              *)
LEMMA InsertKeepsInv ==
    ASSUME RecordsInv, NEW record \in Record,
           \/ record.file = NoFile
           \/ ByFile(record.file) = {} /\ record.date = ExpiryOf[record.file],
           records' = Append(records, record)
    PROVE  RecordsInv'
<1>1. records' \in Seq(Record) /\ Len(records') = Len(records) + 1
  BY DEF RecordsInv
<1>2. \A i \in 1 .. Len(records) : records'[i] = records[i]
  BY DEF RecordsInv
<1>3. records'[Len(records) + 1] = record
  BY DEF RecordsInv
<1>4. Ids' = Ids \union {Len(records) + 1} /\ Ids = 1 .. Len(records)
  BY <1>1 DEF RecordsInv, Ids
<1>5. \A i \in Ids : record.file # NoFile => records[i].file # record.file
  BY DEF ByFile
<1>6. OneRecordPerFile'
  BY <1>2, <1>3, <1>4, <1>5 DEF OneRecordPerFile, RecordsInv
<1>7. VerifiedExpiry'
  BY <1>2, <1>3, <1>4 DEF VerifiedExpiry, RecordsInv
<1> QED
  BY <1>1, <1>6, <1>7 DEF RecordsInv

(* Changing a record without touching its file and day keeps the invariant. *)
LEMMA ChangeKeepsInv ==
    ASSUME RecordsInv, records' \in Seq(Record), Len(records') = Len(records),
           \A i \in Ids : /\ records'[i].file = records[i].file
                          /\ records'[i].date = records[i].date
    PROVE  RecordsInv'
<1>1. Ids' = Ids
  BY DEF RecordsInv, Ids
<1> QED
  BY <1>1 DEF RecordsInv, OneRecordPerFile, VerifiedExpiry

(* What a new record looks like. *)
LEMMA NewIsRecord ==
    ASSUME NEW file \in Files \union {NoFile}, NEW date \in Days,
           NEW owner \in SUBSET People, NEW extra \in SUBSET People
    PROVE  /\ New(file, date, owner, extra) \in Record
           /\ New(file, date, owner, extra).file = file
           /\ New(file, date, owner, extra).date = date
BY RecordsAssumption DEF New, Record

(* Replacing a record, or giving one a new file, keeps the shape. *)
LEMMA RenewKeepsInv ==
    ASSUME RecordsInv, NEW i \in Ids, NEW f \in Files, Renew(i, f)
    PROVE  RecordsInv'
<1> DEFINE s == Successor(f)
           archived == [records EXCEPT ![i] = Replaced(i, s)]
<1>1. s <= MaxRecords
  BY DEF Renew
<1>2. s \in Nat /\ (s \in Ids => ByFile(f) # {}) /\ (s \notin Ids => ByFile(f) = {})
  BY DEF Successor, ByFile, RecordsInv, Ids
<1>3. /\ Replaced(i, s) \in Record
      /\ Replaced(i, s).file = records[i].file /\ Replaced(i, s).date = records[i].date
  <2>1. records[i] \in Record
    BY RecordAt
  <2>2. s \in 0 .. MaxRecords
    BY <1>1, <1>2, RecordsAssumption
  <2> HIDE DEF s
  <2> QED
    BY <2>1, <2>2 DEF Replaced, Record
<1>4. CASE s \in Ids
  <2>1. records' = [archived EXCEPT ![s].extra = records[i].extra]
    BY <1>4 DEF Renew
  <2>2. archived \in Seq(Record) /\ Len(archived) = Len(records)
    BY <1>3 DEF RecordsInv, Ids
  <2> DEFINE new == [archived[s] EXCEPT !.extra = records[i].extra]
  <2>3. new \in Record /\ new.file = archived[s].file /\ new.date = archived[s].date
    <3>1. archived[s] \in Record /\ records[i] \in Record
      BY <2>2, <1>4, RecordAt DEF Ids
    <3> HIDE DEF s, archived
    <3> QED
      BY <3>1 DEF Record
  <2>4. records' \in Seq(Record) /\ Len(records') = Len(records)
    BY <2>1, <2>2, <2>3, <1>4 DEF Ids
  <2>5. \A j \in Ids : archived[j].file = records[j].file /\ archived[j].date = records[j].date
    BY <1>3 DEF RecordsInv, Ids
  <2>6. records' = [archived EXCEPT ![s] = new]
    BY <2>1
  <2>7. \A j \in Ids : records'[j].file = records[j].file /\ records'[j].date = records[j].date
    <3> HIDE DEF s, archived, new
    <3> QED
      BY <2>2, <2>3, <2>5, <2>6, <1>4 DEF RecordsInv, Ids
  <2> QED
    BY <2>4, <2>7, ChangeKeepsInv
<1>5. CASE s \notin Ids
  <2> DEFINE new == New(f, ExpiryOf[f], records[i].owner, records[i].extra)
  <2>1. records' = Append(archived, new)
    BY <1>5 DEF Renew
  <2>2. archived \in Seq(Record) /\ Len(archived) = Len(records)
    BY <1>3 DEF RecordsInv, Ids
  <2>3. new \in Record /\ new.file = f /\ new.date = ExpiryOf[f]
    <3>1. records[i].owner \in SUBSET People /\ records[i].extra \in SUBSET People
      BY RecordAt DEF Record
    <3>2. ExpiryOf[f] \in Days
      BY RecordsAssumption
    <3> QED
      BY <3>1, <3>2, NewIsRecord
  <2>4. records' \in Seq(Record) /\ Len(records') = Len(records) + 1
    BY <2>1, <2>2, <2>3
  <2>5. Ids' = Ids \union {Len(records) + 1} /\ Ids = 1 .. Len(records)
    BY <2>4 DEF RecordsInv, Ids
  <2>6. \A j \in Ids : records'[j].file = records[j].file /\ records'[j].date = records[j].date
    BY <1>3, <2>1, <2>2, <2>3 DEF RecordsInv, Ids
  <2>7. records'[Len(records) + 1] = new
    BY <2>1, <2>2
  <2>8. \A j \in Ids : records[j].file # f
    BY <1>2, <1>5 DEF ByFile
  <2>9. OneRecordPerFile'
    BY <2>3, <2>5, <2>6, <2>7, <2>8 DEF OneRecordPerFile, RecordsInv
  <2>10. VerifiedExpiry'
    BY <2>3, <2>5, <2>6, <2>7 DEF VerifiedExpiry, RecordsInv
  <2> QED
    BY <2>4, <2>9, <2>10 DEF RecordsInv
<1> QED
  BY <1>4, <1>5

(* An attached certificate is nobody else's, and brings its own day. *)
LEMMA AttachKeepsInv ==
    ASSUME RecordsInv, NEW i \in Ids, NEW f \in Files, NEW confirm \in BOOLEAN,
           AttachFacts(i, f, confirm)
    PROVE  RecordsInv'
<1>1. records' = [records EXCEPT ![i].file = f, ![i].date = ExpiryOf[f]]
  BY DEF AttachFacts
<1>2. ExpiryOf[f] \in Days
  BY RecordsAssumption
<1> DEFINE new == [records[i] EXCEPT !.file = f, !.date = ExpiryOf[f]]
<1>3. new \in Record /\ new.file = f /\ new.date = ExpiryOf[f]
  <2>1. records[i] \in Record
    BY RecordAt
  <2> QED
    BY <1>2, <2>1 DEF Record
<1>4. records' = [records EXCEPT ![i] = new]
  BY <1>1 DEF RecordsInv, Ids
<1>5. records' \in Seq(Record) /\ Len(records') = Len(records) /\ Ids' = Ids
  BY <1>3, <1>4 DEF RecordsInv, Ids
<1>6. records'[i].file = f /\ records'[i].date = ExpiryOf[f]
  BY <1>3, <1>4 DEF RecordsInv, Ids
<1>7. \A j \in Ids \ {i} : records'[j] = records[j] /\ records[j].file # f
  BY <1>4 DEF RecordsInv, Ids, AttachFacts, ByFile
<1>8. OneRecordPerFile'
  BY <1>5, <1>6, <1>7 DEF OneRecordPerFile, RecordsInv
<1>9. VerifiedExpiry'
  BY <1>5, <1>6, <1>7 DEF VerifiedExpiry, RecordsInv
<1> QED
  BY <1>5, <1>8, <1>9 DEF RecordsInv

(* Every operation on the records keeps the invariant. *)
LEMMA RecordsStepKeepsInv ==
    ASSUME RecordsInv, [RecordsNext]_recordsVars
    PROVE  RecordsInv'
<1>1. CASE UNCHANGED recordsVars
  BY <1>1 DEF recordsVars, RecordsInv, OneRecordPerFile, VerifiedExpiry, Ids
<1>2. CASE \E f \in Files, o \in Owners : CreateFromFacts(f, o)
  <2>1. PICK f \in Files, o \in Owners : CreateFromFacts(f, o)
    BY <1>2
  <2>2. /\ New(f, ExpiryOf[f], o, {}) \in Record
        /\ New(f, ExpiryOf[f], o, {}).file = f
        /\ New(f, ExpiryOf[f], o, {}).date = ExpiryOf[f]
    BY NewIsRecord, RecordsAssumption
  <2> QED
    BY <2>1, <2>2, InsertKeepsInv DEF CreateFromFacts, Insert
<1>3. CASE \E d \in Days, o \in Owners : CreateManual(d, o)
  <2>1. PICK d \in Days, o \in Owners : CreateManual(d, o)
    BY <1>3
  <2>2. New(NoFile, d, o, {}) \in Record /\ New(NoFile, d, o, {}).file = NoFile
    BY NewIsRecord, RecordsAssumption
  <2> QED
    BY <2>1, <2>2, InsertKeepsInv DEF CreateManual, Insert
<1>4. CASE \E i \in Ids, own \in Timings \union {Inherit}, o \in Owners,
              a \in Audiences \union {{}}, b \in BOOLEAN : UpdateDetails(i, own, o, a, b)
  <2>1. PICK i \in Ids, own \in Timings \union {Inherit}, o \in Owners,
             a \in Audiences \union {{}}, b \in BOOLEAN : UpdateDetails(i, own, o, a, b)
    BY <1>4
  <2> DEFINE new == [records[i] EXCEPT !.own = own, !.owner = o, !.extra = a, !.replace = b]
  <2>2. new \in Record /\ new.file = records[i].file /\ new.date = records[i].date
    <3>1. records[i] \in Record
      BY RecordAt
    <3> QED
      BY <3>1, RecordsAssumption DEF Record
  <2>3. records' = [records EXCEPT ![i] = new]
    BY <2>1 DEF UpdateDetails, RecordsInv, Ids
  <2> QED
    BY <2>2, <2>3, ChangeKeepsInv DEF RecordsInv, Ids
<1>5. CASE \E i \in Ids : Archive(i) \/ Restore(i)
  <2>1. PICK i \in Ids : Archive(i) \/ Restore(i)
    BY <1>5
  <2>2. PICK status \in {"active", "archived"} :
          records' = [records EXCEPT ![i] = [records[i] EXCEPT !.status = status]]
    BY <2>1 DEF Archive, Restore, RecordsInv, Ids
  <2> DEFINE new == [records[i] EXCEPT !.status = status]
  <2>3. new \in Record /\ new.file = records[i].file /\ new.date = records[i].date
    <3>1. records[i] \in Record
      BY RecordAt
    <3> QED
      BY <3>1 DEF Record
  <2> QED
    BY <2>2, <2>3, ChangeKeepsInv DEF RecordsInv, Ids
<1>6. CASE \E i \in Ids, f \in Files, confirm \in BOOLEAN : AttachFacts(i, f, confirm)
  BY <1>6, AttachKeepsInv
<1>7. CASE \E i \in Ids, f \in Files : Renew(i, f)
  BY <1>7, RenewKeepsInv
<1>8. CASE \E t \in Timings, a \in Audiences : SaveSettings(t, a)
  BY <1>8 DEF SaveSettings, RecordsInv, OneRecordPerFile, VerifiedExpiry, Ids
<1> QED
  BY <1>1, <1>2, <1>3, <1>4, <1>5, <1>6, <1>7, <1>8 DEF RecordsNext

-----------------------------------------------------------------------------
(* A step of a request changes the records as one operation does, or not.  *)
LEMMA CalendarStepIsRecordsStep ==
    ASSUME [Next]_vars
    PROVE  [RecordsNext]_recordsVars
<1>1. CASE UNCHANGED vars
  BY <1>1 DEF vars, recordsVars
<1>2. CASE Crash
  BY <1>2 DEF Crash, recordsVars
<1>3. ASSUME NEW r \in Requests, Route(r)
      PROVE  [RecordsNext]_recordsVars
  <2>1. CASE RegisterUpload(r)
    BY <2>1 DEF RegisterUpload, RecordsNext
  <2>2. CASE RegisterManual(r)
    BY <2>2 DEF RegisterManual, RecordsNext
  <2>3. CASE UpdateCertificate(r)
    BY <2>3 DEF UpdateCertificate, RecordsNext
  <2>4. CASE ArchiveCertificate(r)
    BY <2>4 DEF ArchiveCertificate, RecordsNext
  <2>5. CASE RestoreCertificate(r)
    BY <2>5 DEF RestoreCertificate, RecordsNext
  <2>6. CASE Attach(r)
    BY <2>6 DEF Attach, RecordsNext
  <2>7. CASE RenewCertificate(r)
    BY <2>7 DEF RenewCertificate, RecordsNext
  <2>8. CASE ResendInvites(r)
    BY <2>8 DEF ResendInvites, recordsVars
  <2>9. CASE SaveGlobalSettings(r)
    BY <2>9 DEF SaveGlobalSettings, RecordsNext
  <2> QED
    BY <1>3, <2>1, <2>2, <2>3, <2>4, <2>5, <2>6, <2>7, <2>8, <2>9 DEF Route
<1>4. ASSUME NEW r \in Requests, Step(r)
      PROVE  UNCHANGED recordsVars
  BY <1>4 DEF Step, OpenCall, NextReissue, Close, SkipStep, BeginSend, FlushFailure,
              Accept, AnswerOk, AnswerError, Answer, recordsVars
<1> QED
  BY <1>1, <1>2, <1>3, <1>4 DEF Next

(* At the start there is no record, or one that was entered by hand. *)
LEMMA CalendarInitInv ==
    ASSUME Init
    PROVE  RecordsInv
<1>1. CASE records = <<>>
  BY <1>1 DEF RecordsInv, OneRecordPerFile, VerifiedExpiry, Ids
<1>2. ASSUME NEW d \in Days, records = <<New(NoFile, d, {}, {})>>
      PROVE  RecordsInv
  <2>1. New(NoFile, d, {}, {}) \in Record /\ New(NoFile, d, {}, {}).file = NoFile
    BY NewIsRecord
  <2> QED
    BY <1>2, <2>1 DEF RecordsInv, OneRecordPerFile, VerifiedExpiry, Ids
<1> QED
  BY <1>1, <1>2 DEF Init

(* The invariant holds however the requests, their sends, failures and      *)
(* crashes interleave.                                                     *)
THEOREM RecordsInvariant == Spec => []RecordsInv
<1>1. RecordsInv /\ [Next]_vars => RecordsInv'
  BY CalendarStepIsRecordsStep, RecordsStepKeepsInv
<1> QED
  BY <1>1, CalendarInitInv, PTL DEF Spec

(* What the requests do to the records, whatever they send meanwhile, is    *)
(* what the module Records says people do to them.  (With an old record to  *)
(* begin with, only the start differs.)                                    *)
THEOREM CalendarImplementsRecords == ~ Legacy => (Spec => RecordsSpec)
<1>1. ASSUME ~ Legacy
      PROVE  Spec => RecordsSpec
  <2>1. Init => RecordsInit
    BY <1>1 DEF Init, RecordsInit
  <2>2. [Next]_vars => [RecordsNext]_recordsVars
    BY CalendarStepIsRecordsStep
  <2> QED
    BY <2>1, <2>2, PTL DEF Spec, RecordsSpec
<1> QED
  BY <1>1

(* Nobody renews with the file of an archived record. *)
RenewedByActive ==
    [][\A i \in Ids, f \in Files : Renew(i, f) => \A s \in ByFile(f) : Active(s)]_recordsVars

(* A renewal points to its replacement, which is on the board. *)
LEMMA RenewalPoints ==
    ASSUME RecordsInv, NEW i \in Ids, NEW f \in Files, Renew(i, f),
           \A s \in ByFile(f) : Active(s),
           NEW j \in Ids, records'[j].next # records[j].next
    PROVE  records'[records'[j].next].status = "active"
<1> PICK s : s = Successor(f)
  OBVIOUS
<1>0. records \in Seq(Record) /\ Ids = 1 .. Len(records) /\ records[i] \in Record /\ f # records[i].file
  BY RecordAt DEF RecordsInv, Ids, Renew
<1> PICK new : new = Replaced(i, s)
  OBVIOUS
<1>1. new \in [DOMAIN records[i] -> UNION {{new[x]} : x \in DOMAIN records[i]}] /\ new.next = s
  BY <1>0 DEF Replaced, Record
<1>2. CASE s \in Ids
  <2>1. s \in ByFile(f)
    BY <1>0, <1>2 DEF Successor, Ids
  <2>2. Active(s) /\ s # i
    BY <1>0, <2>1 DEF ByFile
  <2>3. records' = [records EXCEPT ![i] = new, ![s].extra = records[i].extra]
    BY <1>2 DEF Renew
  <2>4. records'[i] = new /\ \A k \in Ids \ {i, s} : records'[k] = records[k]
    BY <1>0, <2>2, <2>3 DEF Ids
  <2>5. records'[s] = [records[s] EXCEPT !.extra = records[i].extra]
    BY <1>0, <1>2, <2>2, <2>3 DEF Ids
  <2>6. records'[s].status = "active" /\ records'[s].next = records[s].next
    BY <1>2, <2>2, <2>5, RecordAt DEF Active, Record
  <2>7. j = i
    BY <2>4, <2>6
  <2> QED
    BY <1>1, <2>4, <2>6, <2>7
<1>3. CASE s \notin Ids
  <2>1. s = Len(records) + 1
    BY <1>3 DEF Successor, ByFile
  <2> PICK record : record = New(f, ExpiryOf[f], records[i].owner, records[i].extra)
    OBVIOUS
  <2>2. records' = Append([records EXCEPT ![i] = new], record)
    BY <1>3 DEF Renew
  <2>3. records'[s] = record /\ records'[i] = new /\ \A k \in Ids \ {i} : records'[k] = records[k]
    <3> PICK archived : archived = [records EXCEPT ![i] = new]
      OBVIOUS
    <3>1. PICK S : S = Record \union {new, record}
      OBVIOUS
    <3>2. archived \in Seq(S) /\ Len(archived) = Len(records) /\ record \in S
      BY <1>0, <3>1
    <3>3. archived[i] = new /\ \A k \in Ids \ {i} : archived[k] = records[k]
      BY <1>0
    <3>4. records' = Append(archived, record)
      BY <2>2
    <3>5. records'[Len(archived) + 1] = record /\ \A k \in 1 .. Len(archived) : records'[k] = archived[k]
      BY <3>2, <3>4
    <3> QED
      BY <1>0, <2>1, <3>2, <3>3, <3>5
  <2>4. record.status = "active"
    BY DEF New
  <2> QED
    BY <1>1, <2>3, <2>4
<1> QED
  BY <1>2, <1>3

(* Only renewing says what replaces a record. *)
LEMMA DetailsKeepNext ==
    ASSUME RecordsInv, NEW i \in Ids, NEW j \in Ids, NEW own, NEW owner, NEW extra, NEW replace,
           UpdateDetails(i, own, owner, extra, replace)
    PROVE  records'[j].next = records[j].next
<1> PICK row : row = [records[i] EXCEPT !.own = own, !.owner = owner, !.extra = extra, !.replace = replace]
  OBVIOUS
<1>1. records' = [records EXCEPT ![i] = row]
  BY DEF UpdateDetails
<1>2. row.next = records[i].next
  BY RecordAt DEF Record
<1>3. records \in Seq(Record) /\ Ids = 1 .. Len(records)
  BY DEF RecordsInv, Ids
<1> QED
  BY <1>1, <1>2, <1>3

LEMMA StatusKeepsNext ==
    ASSUME RecordsInv, NEW i \in Ids, NEW j \in Ids, Archive(i) \/ Restore(i)
    PROVE  records'[j].next = records[j].next
<1>1. PICK status : records' = [records EXCEPT ![i].status = status]
  BY DEF Archive, Restore
<1> PICK row : row = [records[i] EXCEPT !.status = status]
  OBVIOUS
<1>2. records' = [records EXCEPT ![i] = row]
  BY <1>1
<1>3. row.next = records[i].next
  BY RecordAt DEF Record
<1>4. records \in Seq(Record) /\ Ids = 1 .. Len(records)
  BY DEF RecordsInv, Ids
<1> QED
  BY <1>2, <1>3, <1>4

LEMMA AttachKeepsNext ==
    ASSUME RecordsInv, NEW i \in Ids, NEW j \in Ids, NEW f, NEW confirm, AttachFacts(i, f, confirm)
    PROVE  records'[j].next = records[j].next
<1> PICK row : row = [records[i] EXCEPT !.file = f, !.date = ExpiryOf[f]]
  OBVIOUS
<1>1. records' = [records EXCEPT ![i] = row]
  BY DEF AttachFacts
<1>2. row.next = records[i].next
  BY RecordAt DEF Record
<1>3. records \in Seq(Record) /\ Ids = 1 .. Len(records)
  BY DEF RecordsInv, Ids
<1> QED
  BY <1>1, <1>2, <1>3

(* README.md, "Renewing": what replaces a record is on the board, unless    *)
(* the file it is renewed with is that of an archived record (services.py,  *)
(* renew, which takes the record a file has without looking at its status). *)
THEOREM ReplacementsAreActive == Spec /\ RenewedByActive => ReplacementIsActive
<1>1. ASSUME RecordsInv, [RecordsNext]_recordsVars,
             [\A i \in Ids, f \in Files : Renew(i, f) => \A s \in ByFile(f) : Active(s)]_recordsVars
      PROVE  [\A i \in Ids : records'[i].next # records[i].next =>
                 records'[records'[i].next].status = "active"]_recordsVars
  <2> SUFFICES ASSUME ~ UNCHANGED recordsVars, NEW j \in Ids, records'[j].next # records[j].next
               PROVE  records'[records'[j].next].status = "active"
    OBVIOUS
  <2>1. records \in Seq(Record) /\ Ids = 1 .. Len(records)
    BY <1>1 DEF RecordsInv, Ids
  <2>2. ASSUME NEW record, Insert(record) PROVE FALSE
    BY <2>1, <2>2 DEF Insert
  <2>3. CASE (\E f \in Files, o \in Owners : CreateFromFacts(f, o))
             \/ (\E d \in Days, o \in Owners : CreateManual(d, o))
    BY <2>2, <2>3 DEF CreateFromFacts, CreateManual
  <2>4. CASE \E i \in Ids, own \in Timings \union {Inherit}, o \in Owners,
                a \in Audiences \union {{}}, b \in BOOLEAN : UpdateDetails(i, own, o, a, b)
    BY <1>1, <2>4, DetailsKeepNext
  <2>5. CASE \E i \in Ids : Archive(i) \/ Restore(i)
    BY <1>1, <2>5, StatusKeepsNext
  <2>6. CASE \E i \in Ids, f \in Files, confirm \in BOOLEAN : AttachFacts(i, f, confirm)
    BY <1>1, <2>6, AttachKeepsNext
  <2>7. CASE \E i \in Ids, f \in Files : Renew(i, f)
    BY <1>1, <2>7, RenewalPoints
  <2>8. CASE \E t \in Timings, a \in Audiences : SaveSettings(t, a)
    BY <2>8 DEF SaveSettings
  <2> QED
    BY <1>1, <2>3, <2>4, <2>5, <2>6, <2>7, <2>8 DEF RecordsNext
<1>2. [Next]_vars => [RecordsNext]_recordsVars
  BY CalendarStepIsRecordsStep
<1> QED
  BY <1>1, <1>2, RecordsInvariant, PTL DEF Spec, RenewedByActive, ReplacementIsActive

(* A certificate has at most one record, whichever of uploading, attaching  *)
(* and renewing brought it in.                                             *)
THEOREM OneRecordPerCertificate == Spec => []OneRecordPerFile
<1>1. RecordsInv => OneRecordPerFile
  BY DEF RecordsInv
<1> QED
  BY <1>1, RecordsInvariant, PTL

(* A verified record always expires when its certificate does. *)
THEOREM VerifiedRecordsAreRight == Spec => []VerifiedExpiry
<1>1. RecordsInv => VerifiedExpiry
  BY DEF RecordsInv
<1> QED
  BY <1>1, RecordsInvariant, PTL

-----------------------------------------------------------------------------
(* The requests.  What TypeOK needs beside itself: a request works on a     *)
(* record that exists, a change that is not committed waits for the second  *)
(* cancellation, and no row is ever deleted.                               *)
InCall(r) == pc[r] \in {"step", "sending", "accepted"}

StepLists == {<<"retire", "publish">>, <<"publish">>, <<"cancel", "cancelLegacy">>, <<"cancelLegacy">>}

WorkInv(r) ==
    /\ \A k \in 1 .. Len(work[r].calls) : work[r].calls[k].cert \in Ids
    /\ work[r].later \subseteq Ids
    /\ InCall(r) => /\ work[r].steps \in StepLists
                    /\ work[r].cert \in Ids
                    /\ work[r].event \in Events
    /\ pending[r] # NoRow => InCall(r) /\ work[r].steps = <<"cancelLegacy">>
    /\ InFlight(r) /\ loaded[r] # NoRow => invites[UidOf(r)] # NoRow

CallInv == TypeOK /\ \A r \in Requests : WorkInv(r)

(* No operation deletes a record. *)
LEMMA TableGrows ==
    ASSUME RecordsInv, settings \in Settings, Len(records) <= MaxRecords, [RecordsNext]_recordsVars
    PROVE  /\ settings' \in Settings
           /\ Len(records') \in Len(records) .. MaxRecords
           /\ Ids \subseteq Ids' /\ Ids' = 1 .. Len(records')
<1>0. records \in Seq(Record) /\ records' \in Seq(Record)
  BY RecordsStepKeepsInv DEF RecordsInv
<1>1. CASE UNCHANGED recordsVars
  BY <1>0, <1>1 DEF recordsVars, Ids
<1>2. CASE (\E f \in Files, o \in Owners : CreateFromFacts(f, o))
           \/ (\E d \in Days, o \in Owners : CreateManual(d, o))
  <2>1. PICK record : Insert(record)
    BY <1>2 DEF CreateFromFacts, CreateManual
  <2>2. Len(records') = Len(records) + 1 /\ Len(records) < MaxRecords /\ settings' = settings
    BY <1>0, <2>1 DEF Insert
  <2> QED
    BY <1>0, <2>2, RecordsAssumption DEF Ids
<1>3. ASSUME Len(records') = Len(records), settings' \in Settings
      PROVE  /\ Len(records') \in Len(records) .. MaxRecords
             /\ Ids \subseteq Ids' /\ Ids' = 1 .. Len(records')
  BY <1>0, <1>3, RecordsAssumption DEF Ids
<1>4. CASE \E i \in Ids, own \in Timings \union {Inherit}, o \in Owners,
              a \in Audiences \union {{}}, b \in BOOLEAN : UpdateDetails(i, own, o, a, b)
  BY <1>0, <1>3, <1>4 DEF UpdateDetails
<1>5. CASE \E i \in Ids : Archive(i) \/ Restore(i)
  BY <1>0, <1>3, <1>5 DEF Archive, Restore
<1>6. CASE \E i \in Ids, f \in Files, confirm \in BOOLEAN : AttachFacts(i, f, confirm)
  BY <1>0, <1>3, <1>6 DEF AttachFacts
<1>7. CASE \E t \in Timings, a \in Audiences : SaveSettings(t, a)
  BY <1>0, <1>3, <1>7 DEF SaveSettings, Settings
<1>8. CASE \E i \in Ids, f \in Files : Renew(i, f)
  <2>1. PICK i \in Ids, f \in Files : Renew(i, f)
    BY <1>8
  <2> DEFINE s == Successor(f)
  <2>2. s <= MaxRecords /\ settings' = settings
    BY <2>1 DEF Renew
  <2>3. s \in Nat /\ (s \notin Ids => s = Len(records) + 1)
    BY <1>0 DEF Successor, ByFile, Ids
  <2>4. Len(records') = IF s \in Ids THEN Len(records) ELSE Len(records) + 1
    BY <1>0, <2>1 DEF Renew
  <2> HIDE DEF s
  <2> QED
    BY <1>0, <2>2, <2>3, <2>4 DEF Ids
<1> QED
  BY <1>1, <1>2, <1>4, <1>5, <1>6, <1>7, <1>8 DEF RecordsNext

(* What the event of a record says, and who is told. *)
LEMMA EventAt ==
    ASSUME records \in Seq(Record), settings \in Settings, NEW i \in Ids
    PROVE  Event(i) \in Events /\ Audience(i) \subseteq People
<1>1. records[i] \in Record
  BY DEF Ids
<1>2. settings.timing \in Timings /\ settings.defaults \subseteq People
  BY RecordsAssumption DEF Settings
<1>3. Timing(i) \in Timings
  BY <1>1, <1>2 DEF Timing, Record
<1> QED
  BY <1>1, <1>2, <1>3 DEF Event, Events, Audience, Record

(* The rows a request works on. *)
LEMMA UidsInCall ==
    ASSUME TypeOK, NEW r \in Requests, WorkInv(r), InCall(r)
    PROVE  UidOf(r) \in Uids /\ Expiry(r) \in Uids /\ Ids \subseteq 1 .. MaxRecords
<1>1. Ids \subseteq 1 .. MaxRecords
  BY RecordsAssumption DEF TypeOK, Ids
<1> QED
  BY <1>1 DEF WorkInv, UidOf, Expiry, Uids, Kinds

(* A step of another request leaves this one as it is. *)
LEMMA OthersKeep ==
    ASSUME TypeOK, NEW r \in Requests, WorkInv(r), Ids \subseteq Ids',
           pc'[r] = pc[r], work'[r] = work[r], pending'[r] = pending[r], loaded'[r] = loaded[r],
           \A u \in Uids : invites[u] # NoRow => invites'[u] # NoRow
    PROVE  WorkInv(r)'
<1>1. InCall(r) => UidOf(r) \in Uids
  BY UidsInCall
<1> QED
  BY <1>1 DEF WorkInv, InCall, InFlight, UidOf, StepOf

(* What an operation does to the table. *)
TableStep ==
    /\ records' \in Seq(Record) /\ Len(records') <= MaxRecords /\ settings' \in Settings
    /\ Ids \subseteq Ids' /\ Ids' \subseteq 1 .. MaxRecords

(* A route leaves calls for records that exist. *)
LEMMA ServeKeepsInv ==
    ASSUME CallInv, NEW r \in Requests, NEW route, NEW calls, NEW later,
           TableStep,
           Serve(r, route, calls, later), calls \in Seq(CallRecords),
           \A k \in 1 .. Len(calls) : calls[k].cert \in Ids', later \subseteq Ids'
    PROVE  CallInv'
<1> USE DEF TableStep
<1>1. /\ pc[r] = "idle" /\ pc' = [pc EXCEPT ![r] = "open"]
      /\ served' \in 0 .. MaxServed /\ untold' \subseteq 1 .. MaxRecords
      /\ work' = [work EXCEPT ![r] = [NoWork EXCEPT !.calls = calls, !.later = later]]
      /\ UNCHANGED <<invites, held, mail, loaded, pending, writer>>
  BY CalendarAssumption DEF Serve, CallInv, TypeOK
<1> DEFINE new == [NoWork EXCEPT !.calls = calls, !.later = later]
<1>2. /\ new \in WorkRecords /\ new.calls = calls /\ new.later = later /\ new.steps = <<>>
  <2>1. NoWork \in WorkRecords /\ NoWork.steps = <<>>
    BY RecordsAssumption DEF NoWork, WorkRecords
  <2>2. later \subseteq 1 .. MaxRecords
    OBVIOUS
  <2> QED
    BY <2>1, <2>2 DEF WorkRecords
<1>3. \A s \in Requests : pc'[s] = IF s = r THEN "open" ELSE pc[s]
  BY <1>1 DEF CallInv, TypeOK
<1>4. TypeOK'
  <2>1. work' \in [Requests -> WorkRecords]
    BY <1>1, <1>2 DEF CallInv, TypeOK
  <2>2. \A s \in Requests : InFlight(s)' <=> InFlight(s)
    BY <1>1, <1>3 DEF InFlight
  <2> QED
    BY <1>1, <1>3, <2>1, <2>2 DEF CallInv, TypeOK
<1>5. \A s \in Requests \ {r} : work'[s] = work[s]
  BY <1>1 DEF CallInv, TypeOK
<1>6. \A s \in Requests \ {r} : WorkInv(s)'
  BY <1>1, <1>3, <1>5, OthersKeep DEF CallInv
<1>7. WorkInv(r)'
  <2>1. work'[r] = new /\ pending'[r] = NoRow
    BY <1>1 DEF CallInv, TypeOK, WorkInv, InCall
  <2> HIDE DEF new
  <2> QED
    BY <1>2, <1>3, <2>1 DEF WorkInv, InCall, InFlight
<1> QED
  BY <1>4, <1>6, <1>7 DEF CallInv

(* Every route keeps the invariant: what it leaves to do is about records   *)
(* that exist once it has committed.                                       *)
LEMMA RouteKeepsInv ==
    ASSUME CallInv, RecordsInv, NEW r \in Requests, Route(r)
    PROVE  CallInv'
<1>1. [RecordsNext]_recordsVars
  BY CalendarStepIsRecordsStep DEF Next
<1>2. /\ records' \in Seq(Record) /\ Len(records') <= MaxRecords /\ settings' \in Settings
      /\ Ids \subseteq Ids' /\ Ids' = 1 .. Len(records') /\ Ids' \subseteq 1 .. MaxRecords
      /\ Len(records') \in Nat /\ Len(records) \in Nat
  <2>1. settings \in Settings /\ Len(records) <= MaxRecords
    BY DEF CallInv, TypeOK
  <2>2. RecordsInv' /\ settings' \in Settings /\ Len(records') \in Len(records) .. MaxRecords
        /\ Ids \subseteq Ids' /\ Ids' = 1 .. Len(records')
    BY <1>1, <2>1, TableGrows, RecordsStepKeepsInv
  <2>3. Len(records) \in Nat /\ Len(records') \in Nat
    BY <2>2 DEF RecordsInv
  <2> QED
    BY <2>2, <2>3, RecordsAssumption DEF RecordsInv
<1>. TableStep
  BY <1>2 DEF TableStep
<1>3. ASSUME NEW what \in {"publish", "withdraw"}, NEW n \in Ids'
      PROVE  <<Call(what, n)>> \in Seq(CallRecords) /\ Call(what, n) \in CallRecords
             /\ Call(what, n).cert = n
  BY <1>2, <1>3 DEF Call, CallRecords
<1>4. ASSUME NEW route, NEW later \in SUBSET Ids', Serve(r, route, <<>>, later)
      PROVE  CallInv'
  <2>1. <<>> \in Seq(CallRecords) /\ \A k \in 1 .. Len(<<>>) : <<>>[k].cert \in Ids'
    OBVIOUS
  <2> QED
    BY <1>4, <2>1, ServeKeepsInv
<1>5. ASSUME NEW route, NEW what \in {"publish", "withdraw"}, NEW n \in Ids',
             Serve(r, route, <<Call(what, n)>>, {})
      PROVE  CallInv'
  <2> DEFINE calls == <<Call(what, n)>>
  <2>1. calls \in Seq(CallRecords) /\ \A k \in 1 .. Len(calls) : calls[k].cert \in Ids'
    BY <1>3
  <2>2. Serve(r, route, calls, {}) /\ {} \subseteq Ids'
    BY <1>5
  <2> HIDE DEF calls
  <2> QED
    BY <2>1, <2>2, ServeKeepsInv
<1>6. CASE RegisterUpload(r) \/ RegisterManual(r)
  <2>1. PICK record : Insert(record)
    BY <1>6 DEF RegisterUpload, RegisterManual, CreateFromFacts, CreateManual
  <2>2. Len(records) + 1 \in Ids'
    BY <1>2, <2>1 DEF Insert, RecordsInv
  <2> QED
    BY <1>5, <1>6, <2>2 DEF RegisterUpload, RegisterManual
<1>7. CASE UpdateCertificate(r)
  <2>1. PICK n \in Ids : \E calls \in {<<Call("publish", n)>>, <<>>} : Serve(r, "update", calls, {})
    BY <1>7 DEF UpdateCertificate
  <2> QED
    BY <1>2, <1>4, <1>5, <2>1
<1>8. CASE ArchiveCertificate(r) \/ RestoreCertificate(r) \/ Attach(r) \/ ResendInvites(r)
  <2>1. PICK n \in Ids : \E route : \E what \in {"publish", "withdraw"} :
           Serve(r, route, <<Call(what, n)>>, {})
    BY <1>8 DEF ArchiveCertificate, RestoreCertificate, Attach, ResendInvites
  <2> QED
    BY <1>2, <1>5, <2>1
<1>9. CASE RenewCertificate(r)
  <2>1. PICK n \in Ids, f \in Files :
           /\ Renew(n, f)
           /\ Serve(r, "renew", <<Call("withdraw", n), Call("publish", Successor(f))>>, {})
    BY <1>9 DEF RenewCertificate
  <2>2. Successor(f) \in Ids'
    <3>1. CASE Successor(f) \in Ids
      BY <1>2, <3>1
    <3>2. CASE Successor(f) \notin Ids
      <4>1. Successor(f) = Len(records) + 1
        BY <3>2 DEF Successor, ByFile
      <4>2. Len(records') = Len(records) + 1
        BY <2>1, <3>2 DEF Renew, RecordsInv
      <4> QED
        BY <1>2, <4>1, <4>2
    <3> QED
      BY <3>1, <3>2
  <2> DEFINE calls == <<Call("withdraw", n), Call("publish", Successor(f))>>
  <2>3. /\ Call("withdraw", n) \in CallRecords /\ Call("withdraw", n).cert \in Ids'
        /\ Call("publish", Successor(f)) \in CallRecords
        /\ Call("publish", Successor(f)).cert \in Ids'
    BY <1>2, <1>3, <2>2
  <2>4. calls \in Seq(CallRecords) /\ \A k \in 1 .. Len(calls) : calls[k].cert \in Ids'
    BY <2>3
  <2>5. Serve(r, "renew", calls, {}) /\ {} \subseteq Ids'
    BY <2>1
  <2> HIDE DEF calls
  <2> QED
    BY <2>4, <2>5, ServeKeepsInv
<1>10. CASE SaveGlobalSettings(r)
  <2>1. \E later \in SUBSET Ids : Serve(r, "settings", <<>>, later)
    BY <1>10 DEF SaveGlobalSettings
  <2> QED
    BY <1>2, <1>4, <2>1
<1> QED
  BY <1>6, <1>7, <1>8, <1>9, <1>10 DEF Route
(* A step of one request: the others are where they were. *)
LEMMA StepKeepsInv ==
    ASSUME CallInv, NEW r \in Requests, UNCHANGED <<records, settings>>,
           \A s \in Requests \ {r} : /\ pc'[s] = pc[s] /\ work'[s] = work[s]
                                     /\ pending'[s] = pending[s] /\ loaded'[s] = loaded[s],
           \A u \in Uids : invites[u] # NoRow => invites'[u] # NoRow,
           TypeOK', WorkInv(r)'
    PROVE  CallInv'
<1>1. Ids' = Ids
  BY DEF Ids
<1>2. \A s \in Requests \ {r} : WorkInv(s)'
  BY <1>1, OthersKeep DEF CallInv
<1> QED
  BY <1>2 DEF CallInv

(* Between two calls of send_invites. *)
LEMMA NoWorkIsRecord == NoWork \in WorkRecords /\ NoWork.calls = <<>> /\ NoWork.later = {}
BY RecordsAssumption DEF NoWork, WorkRecords

LEMMA OpenCallKeepsInv ==
    ASSUME CallInv, NEW r \in Requests, OpenCall(r)
    PROVE  CallInv'
<1> DEFINE call == Head(work[r].calls)
           to == Audience(call.cert)
           new == [work[r] EXCEPT !.calls = Tail(@), !.cert = call.cert, !.to = to,
                                  !.steps = IF to = {} THEN <<>> ELSE Steps(call.what),
                                  !.event = Event(call.cert)]
<1>1. /\ pc[r] = "open" /\ work[r].calls # <<>>
      /\ work' = [work EXCEPT ![r] = new]
      /\ pc' = [pc EXCEPT ![r] = IF to = {} THEN "open" ELSE "step"]
      /\ UNCHANGED <<records, settings, invites, held, mail, loaded, pending, writer, served>>
  BY DEF OpenCall
<1>2. work[r] \in WorkRecords /\ WorkInv(r)
  BY DEF CallInv, TypeOK
<1>3. work[r].calls \in Seq(CallRecords)
  BY <1>2 DEF WorkRecords
<1>4. /\ call \in CallRecords /\ Tail(work[r].calls) \in Seq(CallRecords)
      /\ call.cert \in Ids
      /\ \A k \in 1 .. Len(Tail(work[r].calls)) : Tail(work[r].calls)[k].cert \in Ids
  BY <1>1, <1>2, <1>3 DEF WorkInv
<1>5. Event(call.cert) \in Events /\ to \subseteq People
  BY <1>4, EventAt DEF CallInv, TypeOK
<1>6. call.cert \in 1 .. MaxRecords
  BY <1>4 DEF CallRecords
<1> DEFINE list == Steps(call.what)
<1>7. list \in StepLists /\ list \in Seq({"retire", "publish", "cancel", "cancelLegacy"})
  <2>1. list = <<"retire", "publish">> \/ list = <<"cancel", "cancelLegacy">>
    BY DEF Steps
  <2>2. /\ <<"retire", "publish">> \in Seq({"retire", "publish", "cancel", "cancelLegacy"})
        /\ <<"cancel", "cancelLegacy">> \in Seq({"retire", "publish", "cancel", "cancelLegacy"})
    OBVIOUS
  <2> HIDE DEF list
  <2>3. list \in StepLists
    BY <2>1 DEF StepLists
  <2> QED
    BY <2>1, <2>2, <2>3
<1> DEFINE steps == IF to = {} THEN <<>> ELSE list
           event == Event(call.cert)
           rest == Tail(work[r].calls)
           at == call.cert
<1>71. steps \in Seq({"retire", "publish", "cancel", "cancelLegacy"}) /\ (to # {} => steps = list)
  BY <1>7
<1>72. new = [work[r] EXCEPT !.calls = rest, !.cert = at, !.to = to, !.steps = steps, !.event = event]
  OBVIOUS
<1>73. at \in 0 .. MaxRecords /\ rest \in Seq(CallRecords) /\ to \in SUBSET People /\ event \in Events
  BY <1>4, <1>5, <1>6, RecordsAssumption
<1> HIDE DEF list, steps, event, rest, at, to, new
<1>8. /\ new \in WorkRecords /\ new.calls = rest /\ new.later = work[r].later
      /\ new.cert = at /\ new.event = event /\ new.steps = steps
  BY <1>2, <1>71, <1>72, <1>73 DEF WorkRecords
<1> HIDE DEF new
<1>9. /\ pc'[r] = (IF to = {} THEN "open" ELSE "step") /\ work'[r] = new
      /\ \A s \in Requests \ {r} : pc'[s] = pc[s] /\ work'[s] = work[s]
  BY <1>1 DEF CallInv, TypeOK
<1>10. TypeOK'
  <2>1. work' \in [Requests -> WorkRecords]
    BY <1>1, <1>8 DEF CallInv, TypeOK
  <2>2. \A s \in Requests : InFlight(s)' <=> InFlight(s)
    BY <1>1, <1>9 DEF InFlight
  <2>3. untold' \subseteq 1 .. MaxRecords
    BY <1>6 DEF CallInv, TypeOK, OpenCall
  <2> QED
    BY <1>1, <1>9, <2>1, <2>2, <2>3 DEF CallInv, TypeOK
<1>11. WorkInv(r)'
  <2>1. Ids' = Ids /\ pending'[r] = NoRow
    BY <1>1, <1>2 DEF Ids, WorkInv, InCall
  <2>2. /\ \A k \in 1 .. Len(rest) : rest[k].cert \in Ids
        /\ at \in Ids /\ event \in Events
    BY <1>4, <1>5 DEF rest, at, event
  <2> QED
    BY <1>2, <1>7, <1>71, <1>8, <1>9, <2>1, <2>2 DEF WorkInv, InCall, InFlight
<1> QED
  BY <1>1, <1>9, <1>10, <1>11, StepKeepsInv

LEMMA NextReissueKeepsInv ==
    ASSUME CallInv, NEW r \in Requests, NextReissue(r)
    PROVE  CallInv'
<1>1. PICK i \in work[r].later :
          work' = [work EXCEPT ![r].calls = <<Call("publish", i)>>, ![r].later = @ \ {i}]
  BY DEF NextReissue
<1>2. /\ pc[r] = "open"
      /\ UNCHANGED <<records, settings, invites, held, pc, mail, loaded, pending, writer, served, untold>>
  BY DEF NextReissue
<1>3. work[r] \in WorkRecords /\ WorkInv(r)
  BY DEF CallInv, TypeOK
<1>4. i \in Ids /\ i \in 1 .. MaxRecords
  BY <1>3 DEF WorkInv, WorkRecords
<1> DEFINE calls == <<Call("publish", i)>>
           new == [work[r] EXCEPT !.calls = calls, !.later = @ \ {i}]
<1>5. calls \in Seq(CallRecords) /\ \A k \in 1 .. Len(calls) : calls[k].cert \in Ids
  BY <1>4 DEF Call, CallRecords
<1>6. work' = [work EXCEPT ![r] = new]
  BY <1>1
<1> HIDE DEF calls
<1>7. new \in WorkRecords /\ new.calls = calls /\ new.later = work[r].later \ {i}
  BY <1>3, <1>5 DEF WorkRecords
<1> HIDE DEF new
<1>8. work'[r] = new /\ \A s \in Requests \ {r} : work'[s] = work[s]
  BY <1>6 DEF CallInv, TypeOK
<1>9. TypeOK'
  <2>1. work' \in [Requests -> WorkRecords]
    BY <1>6, <1>7 DEF CallInv, TypeOK
  <2> QED
    BY <1>2, <2>1 DEF CallInv, TypeOK, InFlight
<1>10. WorkInv(r)'
  <2>1. Ids' = Ids
    BY <1>2 DEF Ids
  <2> QED
    BY <1>2, <1>3, <1>5, <1>7, <1>8, <2>1 DEF WorkInv, InCall, InFlight
<1> QED
  BY <1>2, <1>8, <1>9, <1>10, StepKeepsInv

(* A request that ends, well or badly, leaves nothing behind. *)
LEMMA CloseKeepsInv ==
    ASSUME CallInv, NEW r \in Requests, Close(r)
    PROVE  CallInv'
<1>1. /\ pc[r] = "open" /\ pc' = [pc EXCEPT ![r] = "idle"] /\ work' = [work EXCEPT ![r] = NoWork]
      /\ UNCHANGED <<records, settings, invites, held, mail, loaded, pending, writer, served, untold>>
  BY DEF Close
<1>2. /\ pc'[r] = "idle" /\ work'[r] = NoWork
      /\ \A s \in Requests \ {r} : pc'[s] = pc[s] /\ work'[s] = work[s]
  BY <1>1 DEF CallInv, TypeOK
<1>3. TypeOK'
  <2>1. work' \in [Requests -> WorkRecords]
    BY <1>1, NoWorkIsRecord DEF CallInv, TypeOK
  <2>2. \A s \in Requests : InFlight(s)' <=> InFlight(s)
    BY <1>1, <1>2 DEF InFlight
  <2> QED
    BY <1>1, <1>2, <2>1, <2>2 DEF CallInv, TypeOK
<1>4. WorkInv(r)'
  <2>1. pending'[r] = NoRow
    BY <1>1 DEF CallInv, WorkInv, InCall
  <2> QED
    BY <1>2, <2>1, NoWorkIsRecord DEF WorkInv, InCall, InFlight
<1> QED
  BY <1>1, <1>2, <1>3, <1>4, StepKeepsInv

LEMMA FailKeepsInv ==
    ASSUME CallInv, NEW r \in Requests, Fail(r), UNCHANGED <<records, settings, held, served, untold>>
    PROVE  CallInv'
<1>1. /\ pc' = [pc EXCEPT ![r] = "idle"] /\ work' = [work EXCEPT ![r] = NoWork]
      /\ mail' = [mail EXCEPT ![r] = NoEvent] /\ loaded' = [loaded EXCEPT ![r] = NoRow]
      /\ pending' = [pending EXCEPT ![r] = NoRow]
      /\ writer' = (IF writer = r THEN NoOne ELSE writer) /\ invites' = invites
  BY DEF Fail
<1>2. /\ pc'[r] = "idle" /\ work'[r] = NoWork /\ mail'[r] = NoEvent /\ pending'[r] = NoRow
      /\ \A s \in Requests \ {r} : /\ pc'[s] = pc[s] /\ work'[s] = work[s] /\ mail'[s] = mail[s]
                                   /\ pending'[s] = pending[s] /\ loaded'[s] = loaded[s]
  BY <1>1 DEF CallInv, TypeOK
<1>3. TypeOK'
  <2>1. work' \in [Requests -> WorkRecords]
    BY <1>1, NoWorkIsRecord DEF CallInv, TypeOK
  <2>2. \A s \in Requests : InFlight(s)' <=> s # r /\ InFlight(s)
    BY <1>2 DEF InFlight
  <2>3. \A s \in Requests : InFlight(s)' <=> mail'[s] # NoEvent
    BY <1>2, <2>2 DEF CallInv, TypeOK
  <2>4. writer' # NoOne => writer' = writer /\ writer \in Requests \ {r}
    BY <1>1 DEF CallInv, TypeOK
  <2>5. ASSUME writer' # NoOne
        PROVE  InFlight(writer)' /\ pending'[writer'] # NoRow
    <3>1. writer' = writer /\ writer \in Requests \ {r} /\ writer # NoOne
      BY <2>4, <2>5
    <3>2. InFlight(writer) /\ pending[writer] # NoRow
      BY <3>1 DEF CallInv, TypeOK
    <3>3. pc'[writer] = pc[writer] /\ pending'[writer] = pending[writer]
      BY <1>2, <3>1
    <3>4. pc'[writer'] = pc[writer] /\ pending'[writer'] = pending[writer]
      BY <3>1, <3>3
    <3> QED
      BY <3>2, <3>4 DEF InFlight
  <2>6. /\ pc' \in [Requests -> {"idle", "open", "step", "sending", "accepted"}]
        /\ mail' \in [Requests -> Messages \union {NoEvent}]
        /\ loaded' \in [Requests -> Rows \union {NoRow}]
        /\ pending' \in [Requests -> Rows \union {NoRow}]
        /\ writer' \in Requests \union {NoOne}
    BY <1>1 DEF CallInv, TypeOK
  <2>7. /\ records' \in Seq(Record) /\ Len(records') <= MaxRecords /\ settings' \in Settings
        /\ invites' \in [Uids -> Rows \union {NoRow}]
        /\ served' \in 0 .. MaxServed /\ untold' \subseteq 1 .. MaxRecords
        /\ held' \in [People -> [Uids -> Messages \union {NoEvent}]]
    BY <1>1 DEF CallInv, TypeOK
  <2> QED
    BY <2>1, <2>3, <2>5, <2>6, <2>7 DEF TypeOK, InFlight
<1>4. WorkInv(r)'
  BY <1>2, NoWorkIsRecord DEF WorkInv, InCall, InFlight
<1> QED
  BY <1>1, <1>2, <1>3, <1>4, StepKeepsInv

LEMMA CrashKeepsInv ==
    ASSUME CallInv, Crash
    PROVE  CallInv'
<1>1. /\ pc' = [r \in Requests |-> "idle"] /\ work' = [r \in Requests |-> NoWork]
      /\ mail' = [r \in Requests |-> NoEvent] /\ loaded' = [r \in Requests |-> NoRow]
      /\ pending' = [r \in Requests |-> NoRow] /\ writer' = NoOne
      /\ UNCHANGED <<records, settings, invites, held, served, untold>>
  BY DEF Crash
<1>2. work' \in [Requests -> WorkRecords]
  BY <1>1, NoWorkIsRecord
<1>3. TypeOK'
  BY <1>1, <1>2 DEF CallInv, TypeOK, InFlight
<1>4. \A r \in Requests : WorkInv(r)'
  <2> TAKE r \in Requests
  <2>1. pc'[r] = "idle" /\ work'[r] = NoWork /\ pending'[r] = NoRow
    BY <1>1
  <2> QED
    BY <2>1, NoWorkIsRecord DEF WorkInv, InCall, InFlight
<1> QED
  BY <1>3, <1>4 DEF CallInv
-----------------------------------------------------------------------------
(* The steps of a call. *)
StepNames == {"retire", "publish", "cancel", "cancelLegacy"}

(* What Advance leaves: the next step of the list, or an open request. *)
LEMMA AdvanceKeepsWork ==
    ASSUME CallInv, NEW r \in Requests, InCall(r), Advance(r)
    PROVE  /\ work' \in [Requests -> WorkRecords]
           /\ work'[r].calls = work[r].calls /\ work'[r].later = work[r].later
           /\ work'[r].cert = work[r].cert /\ work'[r].event = work[r].event
           /\ work'[r].steps = Tail(work[r].steps)
           /\ pc' = [pc EXCEPT ![r] = IF Tail(work[r].steps) = <<>> THEN "open" ELSE "step"]
           /\ Tail(work[r].steps) # <<>> => Tail(work[r].steps) \in StepLists
           /\ \A s \in Requests \ {r} : work'[s] = work[s]
<1> DEFINE rest == Tail(work[r].steps)
           new == [work[r] EXCEPT !.steps = rest]
<1>1. work' = [work EXCEPT ![r] = new] /\ work[r] \in WorkRecords /\ work \in [Requests -> WorkRecords]
  BY DEF Advance, CallInv, TypeOK
<1> DEFINE steps == work[r].steps
<1>2. steps \in StepLists /\ steps \in Seq(StepNames)
  BY <1>1 DEF CallInv, WorkInv, WorkRecords, StepNames
<1>3. rest \in Seq(StepNames) /\ (rest # <<>> => rest \in StepLists)
  <2> HIDE DEF steps
  <2>1. steps # <<>>
    BY <1>2 DEF StepLists
  <2>2. Tail(steps) \in Seq(StepNames)
    BY <1>2, <2>1
  <2>3. \/ steps = <<"retire", "publish">> /\ Tail(steps) = <<"publish">>
        \/ steps = <<"cancel", "cancelLegacy">> /\ Tail(steps) = <<"cancelLegacy">>
        \/ Tail(steps) = <<>>
    <3>1. /\ Tail(<<"retire", "publish">>) = <<"publish">>
          /\ Tail(<<"cancel", "cancelLegacy">>) = <<"cancelLegacy">>
          /\ Tail(<<"publish">>) = <<>> /\ Tail(<<"cancelLegacy">>) = <<>>
      OBVIOUS
    <3>2. \/ steps = <<"retire", "publish">> \/ steps = <<"cancel", "cancelLegacy">>
          \/ steps = <<"publish">> \/ steps = <<"cancelLegacy">>
      BY <1>2 DEF StepLists
    <3> QED
      BY <3>1, <3>2
  <2>4. Tail(steps) # <<>> => Tail(steps) \in StepLists
    BY <2>3 DEF StepLists
  <2> QED
    BY <2>2, <2>4 DEF steps
<1>5. pc' = [pc EXCEPT ![r] = IF rest = <<>> THEN "open" ELSE "step"]
  BY DEF Advance
<1> HIDE DEF rest
<1>6. /\ new \in WorkRecords /\ new.calls = work[r].calls /\ new.later = work[r].later
      /\ new.cert = work[r].cert /\ new.event = work[r].event /\ new.steps = rest
  BY <1>1, <1>3 DEF WorkRecords, StepNames
<1> HIDE DEF new
<1>7. work'[r] = new /\ work' \in [Requests -> WorkRecords]
      /\ \A s \in Requests \ {r} : work'[s] = work[s]
  BY <1>1, <1>6
<1> USE DEF rest
<1> QED
  BY <1>3, <1>5, <1>6, <1>7

(* The lock is not held by a request that is not sending. *)
LEMMA WriterSends ==
    ASSUME CallInv, NEW r \in Requests, ~ InFlight(r) \/ pending[r] = NoRow
    PROVE  writer # r
BY CalendarAssumption DEF CallInv, TypeOK

LEMMA SkipStepKeepsInv ==
    ASSUME CallInv, NEW r \in Requests, SkipStep(r)
    PROVE  CallInv'
<1>1. /\ pc[r] = "step" /\ Advance(r)
      /\ invites' = IF pending[r] = NoRow THEN invites ELSE [invites EXCEPT ![Expiry(r)] = pending[r]]
      /\ pending' = [pending EXCEPT ![r] = NoRow]
      /\ UNCHANGED <<records, settings, held, mail, loaded, writer, served, untold>>
  BY DEF SkipStep
<1>2. InCall(r) /\ ~ InFlight(r) /\ WorkInv(r) /\ writer # r
  BY <1>1, WriterSends DEF InCall, InFlight, CallInv
<1> DEFINE rest == Tail(work[r].steps)
<1>3. /\ work' \in [Requests -> WorkRecords]
      /\ work'[r].calls = work[r].calls /\ work'[r].later = work[r].later
      /\ work'[r].cert = work[r].cert /\ work'[r].event = work[r].event
      /\ work'[r].steps = rest
      /\ pc' = [pc EXCEPT ![r] = IF rest = <<>> THEN "open" ELSE "step"]
      /\ rest # <<>> => rest \in StepLists
      /\ \A s \in Requests \ {r} : work'[s] = work[s]
  BY <1>1, <1>2, AdvanceKeepsWork
<1> HIDE DEF rest
<1>4. /\ \A s \in Requests \ {r} : pc'[s] = pc[s] /\ pending'[s] = pending[s]
      /\ pc'[r] = (IF rest = <<>> THEN "open" ELSE "step") /\ pending'[r] = NoRow
  BY <1>1, <1>3 DEF CallInv, TypeOK
<1>5. /\ invites' \in [Uids -> Rows \union {NoRow}]
      /\ \A u \in Uids : invites[u] # NoRow => invites'[u] # NoRow
  BY <1>1, <1>2, UidsInCall DEF CallInv, TypeOK
<1>6. TypeOK'
  <2>1. \A s \in Requests : InFlight(s)' <=> InFlight(s)
    BY <1>1, <1>4 DEF InFlight
  <2> QED
    BY <1>1, <1>2, <1>3, <1>4, <1>5, <2>1 DEF CallInv, TypeOK
<1>7. WorkInv(r)'
  <2>1. Ids' = Ids
    BY <1>1 DEF Ids
  <2> QED
    BY <1>2, <1>3, <1>4, <2>1 DEF WorkInv, InCall, InFlight
<1> QED
  BY <1>1, <1>3, <1>4, <1>5, <1>6, <1>7, StepKeepsInv

LEMMA BeginSendKeepsInv ==
    ASSUME CallInv, NEW r \in Requests, BeginSend(r)
    PROVE  CallInv'
<1> DEFINE row == invites[UidOf(r)]
           event == IF StepOf(r) = "cancelLegacy" THEN work[r].event ELSE Event(work[r].cert)
           message == [seq |-> SequenceAfter(row), cancelled |-> StepOf(r) # "publish",
                       event |-> event]
<1>1. /\ pc[r] = "step" /\ pc' = [pc EXCEPT ![r] = "sending"]
      /\ loaded' = [loaded EXCEPT ![r] = row] /\ mail' = [mail EXCEPT ![r] = message]
      /\ writer' = IF pending[r] = NoRow THEN writer ELSE r
      /\ UNCHANGED <<records, settings, invites, held, work, pending, served, untold>>
  BY DEF BeginSend
<1>2. InCall(r) /\ ~ InFlight(r) /\ WorkInv(r) /\ writer # r
  BY <1>1, WriterSends DEF InCall, InFlight, CallInv
<1>3. row \in Rows \union {NoRow} /\ SequenceAfter(row) \in Nat
  BY <1>2, UidsInCall DEF CallInv, TypeOK, Rows, SequenceAfter
<1>4. event \in Events
  BY <1>2, EventAt DEF WorkInv, CallInv, TypeOK
<1>5. message \in Messages /\ message # NoEvent
  <2> DEFINE seq == SequenceAfter(row)
             cancelled == StepOf(r) # "publish"
  <2>1. seq \in Nat /\ cancelled \in BOOLEAN
    BY <1>3
  <2> HIDE DEF seq, cancelled, event
  <2>2. [seq |-> seq, cancelled |-> cancelled, event |-> event] \in Messages
    BY <1>4, <2>1 DEF Messages
  <2>3. message \in Messages
    BY <2>2 DEF seq, cancelled
  <2> QED
    BY <2>3, NamesAssumption
<1> HIDE DEF event
<1> HIDE DEF message, row
<1>6. /\ pc'[r] = "sending" /\ loaded'[r] = row /\ mail'[r] = message
      /\ \A s \in Requests \ {r} : pc'[s] = pc[s] /\ loaded'[s] = loaded[s] /\ mail'[s] = mail[s]
  BY <1>1 DEF CallInv, TypeOK
<1>7. TypeOK'
  <2>1. \A s \in Requests : InFlight(s)' <=> s = r \/ InFlight(s)
    BY <1>6 DEF InFlight
  <2>2. \A s \in Requests : InFlight(s)' <=> mail'[s] # NoEvent
    BY <1>5, <1>6, <2>1 DEF CallInv, TypeOK
  <2>3. ASSUME writer' # NoOne
        PROVE  InFlight(writer)' /\ pending'[writer'] # NoRow
    <3>1. CASE pending[r] = NoRow
      <4>1. writer' = writer /\ InFlight(writer) /\ pending[writer] # NoRow /\ writer \in Requests \ {r}
        BY <1>1, <1>2, <2>3, <3>1 DEF CallInv, TypeOK
      <4>2. pc'[writer'] = pc[writer] /\ pending'[writer'] = pending[writer]
        BY <1>1, <1>6, <4>1
      <4> QED
        BY <4>1, <4>2 DEF InFlight
    <3>2. CASE pending[r] # NoRow
      <4>1. writer' = r /\ pending' = pending
        BY <1>1, <3>2
      <4> QED
        BY <1>6, <3>2, <4>1 DEF InFlight
    <3> QED
      BY <3>1, <3>2
  <2>4. /\ pc' \in [Requests -> {"idle", "open", "step", "sending", "accepted"}]
        /\ mail' \in [Requests -> Messages \union {NoEvent}]
        /\ loaded' \in [Requests -> Rows \union {NoRow}]
        /\ writer' \in Requests \union {NoOne}
    BY <1>1, <1>3, <1>5 DEF CallInv, TypeOK, row
  <2>5. /\ records' \in Seq(Record) /\ Len(records') <= MaxRecords /\ settings' \in Settings
        /\ invites' \in [Uids -> Rows \union {NoRow}]
        /\ served' \in 0 .. MaxServed /\ untold' \subseteq 1 .. MaxRecords
        /\ held' \in [People -> [Uids -> Messages \union {NoEvent}]]
        /\ work' \in [Requests -> WorkRecords]
        /\ pending' \in [Requests -> Rows \union {NoRow}]
    BY <1>1 DEF CallInv, TypeOK
  <2> QED
    BY <2>2, <2>3, <2>4, <2>5 DEF TypeOK, InFlight
<1>8. WorkInv(r)'
  <2>1. Ids' = Ids /\ UidOf(r)' = UidOf(r) /\ work'[r] = work[r] /\ pending'[r] = pending[r]
    BY <1>1 DEF Ids, UidOf, StepOf
  <2> QED
    BY <1>1, <1>2, <1>6, <2>1 DEF WorkInv, InCall, InFlight, row
<1> QED
  BY <1>1, <1>6, <1>7, <1>8, StepKeepsInv

LEMMA AcceptKeepsInv ==
    ASSUME CallInv, NEW r \in Requests, Accept(r)
    PROVE  CallInv'
<1>1. /\ pc[r] = "sending" /\ pc' = [pc EXCEPT ![r] = "accepted"]
      /\ held' = [p \in People |->
            IF p \in work[r].to /\ Replaces(mail[r], held[p][UidOf(r)])
            THEN [held[p] EXCEPT ![UidOf(r)] = mail[r]] ELSE held[p]]
      /\ UNCHANGED <<records, settings, invites, work, mail, loaded, pending, writer, served, untold>>
  BY DEF Accept
<1>2. InCall(r) /\ WorkInv(r) /\ pc'[r] = "accepted" /\ \A s \in Requests \ {r} : pc'[s] = pc[s]
  BY <1>1 DEF InCall, CallInv, TypeOK
<1>3. held' \in [People -> [Uids -> Messages \union {NoEvent}]]
  BY <1>1 DEF CallInv, TypeOK
<1>4. TypeOK'
  <2>1. \A s \in Requests : InFlight(s)' <=> InFlight(s)
    BY <1>1, <1>2 DEF InFlight
  <2> QED
    BY <1>1, <1>3, <2>1 DEF CallInv, TypeOK
<1>5. WorkInv(r)'
  <2>1. Ids' = Ids /\ UidOf(r)' = UidOf(r)
    BY <1>1 DEF Ids, UidOf, StepOf
  <2> QED
    BY <1>1, <1>2, <2>1 DEF WorkInv, InCall, InFlight
<1> QED
  BY <1>1, <1>2, <1>4, <1>5, StepKeepsInv

(* What is written into a row after a send is a row. *)
LEMMA MergeIsRow ==
    ASSUME NEW now \in Rows \union {NoRow}, NEW old \in Rows \union {NoRow}, NEW new \in Rows,
           old # NoRow => now # NoRow
    PROVE  Merge(now, old, new) \in Rows
<1>1. CASE old = NoRow
  BY <1>1 DEF Merge
<1>2. CASE old # NoRow
  <2>1. now \in Rows /\ old \in Rows
    BY <1>2
  <2>2. DOMAIN new = {"seq", "cancelled", "status", "date", "to"}
    BY DEF Rows
  <2> DEFINE merged == [column \in DOMAIN new |->
                           IF new[column] = old[column] THEN now[column] ELSE new[column]]
  <2>3. merged = [seq |-> merged.seq, cancelled |-> merged.cancelled, status |-> merged.status,
                  date |-> merged.date, to |-> merged.to]
    BY <2>2
  <2>4. /\ merged.seq \in Nat /\ merged.cancelled \in BOOLEAN /\ merged.status \in {"sent", "error"}
        /\ merged.date \in Days /\ merged.to \in SUBSET People
    BY <2>1, <2>2 DEF Rows
  <2>5. merged \in Rows
    <3> HIDE DEF merged
    <3> QED
      BY <2>3, <2>4 DEF Rows
  <2> QED
    BY <1>2, <2>5 DEF Merge
<1> QED
  BY <1>1, <1>2
(* The answer of a send: the request fails, or the row is written. *)
LEMMA AnswerKeepsInv ==
    ASSUME CallInv, NEW r \in Requests, NEW status \in {"sent", "error"},
           InFlight(r), Answer(r, status)
    PROVE  CallInv'
<1>0. UNCHANGED <<records, settings, held, served, untold>>
  BY DEF Answer
<1>1. CASE CommitFails(r) /\ Fail(r)
  BY <1>0, <1>1, FailKeepsInv
<1>2. CASE ~ (CommitFails(r) /\ Fail(r))
  <2> DEFINE now == invites[UidOf(r)]
             new == Row(mail[r].seq, mail[r].cancelled, status, mail[r].event.date, work[r].to)
             row == Merge(now, loaded[r], new)
  <2>1. /\ Keep(r, row) /\ Advance(r)
        /\ mail' = [mail EXCEPT ![r] = NoEvent] /\ loaded' = [loaded EXCEPT ![r] = NoRow]
    BY <1>2 DEF Answer
  <2>2. InCall(r) /\ WorkInv(r) /\ UidOf(r) \in Uids /\ Expiry(r) \in Uids
    BY UidsInCall DEF InCall, InFlight, CallInv
  <2>3. row \in Rows /\ row # NoRow
    <3>1. new \in Rows
      <4>1. mail[r] \in Messages /\ work[r].to \in SUBSET People
        BY DEF CallInv, TypeOK, WorkRecords
      <4>2. mail[r].seq \in Nat /\ mail[r].cancelled \in BOOLEAN /\ mail[r].event.date \in Days
        BY <4>1 DEF Messages, Events
      <4> QED
        BY <4>1, <4>2 DEF Row, Rows
    <3>2. now \in Rows \union {NoRow} /\ loaded[r] \in Rows \union {NoRow}
          /\ (loaded[r] # NoRow => now # NoRow)
      BY <2>2 DEF CallInv, TypeOK, WorkInv
    <3> HIDE DEF new, now
    <3>3. row \in Rows
      BY <3>1, <3>2, MergeIsRow
    <3> QED
      BY <3>3, NamesAssumption
  <2> HIDE DEF row
  <2> DEFINE rest == Tail(work[r].steps)
  <2>4. /\ work' \in [Requests -> WorkRecords]
        /\ work'[r].calls = work[r].calls /\ work'[r].later = work[r].later
        /\ work'[r].cert = work[r].cert /\ work'[r].event = work[r].event
        /\ work'[r].steps = rest
        /\ pc' = [pc EXCEPT ![r] = IF rest = <<>> THEN "open" ELSE "step"]
        /\ rest # <<>> => rest \in StepLists
        /\ \A s \in Requests \ {r} : work'[s] = work[s]
    BY <2>1, <2>2, AdvanceKeepsWork
  <2>5. StepOf(r) = "cancel" => rest = <<"cancelLegacy">>
    <3> DEFINE steps == work[r].steps
    <3>1. steps \in StepLists
      BY <2>2 DEF WorkInv
    <3> HIDE DEF steps
    <3>2. \/ steps = <<"retire", "publish">> \/ steps = <<"cancel", "cancelLegacy">>
          \/ steps = <<"publish">> \/ steps = <<"cancelLegacy">>
      BY <3>1 DEF StepLists
    <3>3. /\ Tail(<<"cancel", "cancelLegacy">>) = <<"cancelLegacy">>
          /\ Head(<<"retire", "publish">>) = "retire"
          /\ Head(<<"publish">>) = "publish" /\ Head(<<"cancelLegacy">>) = "cancelLegacy"
      OBVIOUS
    <3>4. Head(steps) = "cancel" => Tail(steps) = <<"cancelLegacy">>
      BY <3>2, <3>3
    <3> QED
      BY <3>4 DEF steps, StepOf
  <2> HIDE DEF rest
  <2>6. /\ pc'[r] = (IF rest = <<>> THEN "open" ELSE "step")
        /\ mail'[r] = NoEvent /\ loaded'[r] = NoRow
        /\ \A s \in Requests \ {r} : pc'[s] = pc[s] /\ mail'[s] = mail[s] /\ loaded'[s] = loaded[s]
    BY <2>1, <2>4 DEF CallInv, TypeOK
  (* The rows and the change that waits for its commit. *)
  <2>7. /\ invites' \in [Uids -> Rows \union {NoRow}]
        /\ \A u \in Uids : invites[u] # NoRow => invites'[u] # NoRow
        /\ pending' \in [Requests -> Rows \union {NoRow}]
        /\ \A s \in Requests \ {r} : pending'[s] = pending[s]
        /\ pending'[r] # NoRow => StepOf(r) = "cancel"
        /\ writer' \in (Requests \union {NoOne}) \ {r}
        /\ writer' # NoOne => writer' = writer
    <3>1. CASE StepOf(r) = "cancel"
      <4>1. pending' = [pending EXCEPT ![r] = row] /\ invites' = invites /\ writer' = writer
        BY <2>1, <3>1 DEF Keep
      <4>2. pending[r] = NoRow
        BY <2>2, <3>1 DEF WorkInv, StepOf
      <4>3. writer # r
        BY <4>2, WriterSends
      <4> QED
        BY <2>3, <3>1, <4>1, <4>3 DEF CallInv, TypeOK
    <3>2. CASE StepOf(r) # "cancel"
      <4>1. /\ invites' = [u \in Uids |->
                  CASE u = UidOf(r) -> row
                    [] u = Expiry(r) /\ u # UidOf(r) /\ pending[r] # NoRow -> pending[r]
                    [] OTHER -> invites[u]]
            /\ pending' = [pending EXCEPT ![r] = NoRow]
            /\ writer' = IF writer = r THEN NoOne ELSE writer
        BY <2>1, <3>2 DEF Keep
      <4>2. \A u \in Uids : invites'[u] \in {row, pending[r], invites[u]}
                            /\ (invites[u] # NoRow => invites'[u] # NoRow)
        BY <2>3, <4>1
      <4>3. invites' \in [Uids -> Rows \union {NoRow}]
        BY <2>3, <4>1, <4>2 DEF CallInv, TypeOK
      <4>4. writer' \in (Requests \union {NoOne}) \ {r} /\ (writer' # NoOne => writer' = writer)
        BY <4>1, CalendarAssumption DEF CallInv, TypeOK
      <4>5. /\ pending' \in [Requests -> Rows \union {NoRow}]
            /\ \A s \in Requests \ {r} : pending'[s] = pending[s]
            /\ pending'[r] = NoRow
        BY <4>1 DEF CallInv, TypeOK
      <4> QED
        BY <4>2, <4>3, <4>4, <4>5
    <3> QED
      BY <3>1, <3>2
  <2>8. TypeOK'
    <3>1. \A s \in Requests : InFlight(s)' <=> s # r /\ InFlight(s)
      BY <2>6 DEF InFlight
    <3>2. \A s \in Requests : InFlight(s)' <=> mail'[s] # NoEvent
      BY <2>6, <3>1 DEF CallInv, TypeOK
    <3>3. ASSUME writer' # NoOne
          PROVE  InFlight(writer)' /\ pending'[writer'] # NoRow
      <4>1. writer' = writer /\ writer \in Requests \ {r} /\ writer # NoOne
        BY <2>7, <3>3
      <4>2. InFlight(writer) /\ pending[writer] # NoRow
        BY <4>1 DEF CallInv, TypeOK
      <4>3. pc'[writer'] = pc[writer] /\ pending'[writer'] = pending[writer]
        BY <2>6, <2>7, <4>1
      <4> QED
        BY <4>2, <4>3 DEF InFlight
    <3>4. /\ pc' \in [Requests -> {"idle", "open", "step", "sending", "accepted"}]
          /\ mail' \in [Requests -> Messages \union {NoEvent}]
          /\ loaded' \in [Requests -> Rows \union {NoRow}]
      BY <2>1, <2>4 DEF CallInv, TypeOK
    <3>5. /\ records' \in Seq(Record) /\ Len(records') <= MaxRecords /\ settings' \in Settings
          /\ served' \in 0 .. MaxServed /\ untold' \subseteq 1 .. MaxRecords
          /\ held' \in [People -> [Uids -> Messages \union {NoEvent}]]
      BY <1>0 DEF CallInv, TypeOK
    <3> QED
      BY <2>4, <2>7, <3>2, <3>3, <3>4, <3>5 DEF TypeOK, InFlight
  <2>9. WorkInv(r)'
    <3>1. Ids' = Ids
      BY <1>0 DEF Ids
    <3>2. pending'[r] # NoRow => pc'[r] = "step" /\ rest = <<"cancelLegacy">>
      BY <2>5, <2>6, <2>7
    <3> QED
      BY <2>2, <2>4, <2>6, <3>1, <3>2 DEF WorkInv, InCall, InFlight
  <2> QED
    BY <1>0, <2>4, <2>6, <2>7, <2>8, <2>9, StepKeepsInv
<1> QED
  BY <1>1, <1>2

(* Every step of a request keeps the invariant. *)
LEMMA RequestStepKeepsInv ==
    ASSUME CallInv, NEW r \in Requests, Step(r)
    PROVE  CallInv'
<1>1. CASE OpenCall(r)
  BY <1>1, OpenCallKeepsInv
<1>2. CASE NextReissue(r)
  BY <1>2, NextReissueKeepsInv
<1>3. CASE Close(r)
  BY <1>3, CloseKeepsInv
<1>4. CASE SkipStep(r)
  BY <1>4, SkipStepKeepsInv
<1>5. CASE BeginSend(r)
  BY <1>5, BeginSendKeepsInv
<1>6. CASE FlushFailure(r)
  BY <1>6, FailKeepsInv DEF FlushFailure
<1>7. CASE Accept(r)
  BY <1>7, AcceptKeepsInv
<1>8. CASE AnswerOk(r) \/ AnswerError(r)
  <2>1. InFlight(r) /\ \E status \in {"sent", "error"} : Answer(r, status)
    BY <1>8 DEF AnswerOk, AnswerError, InFlight
  <2> QED
    BY <2>1, AnswerKeepsInv
<1> QED
  BY <1>1, <1>2, <1>3, <1>4, <1>5, <1>6, <1>7, <1>8 DEF Step

LEMMA CallInvInit ==
    ASSUME Init
    PROVE  CallInv
<1>1. /\ pc = [r \in Requests |-> "idle"] /\ work = [r \in Requests |-> NoWork]
      /\ mail = [r \in Requests |-> NoEvent] /\ loaded = [r \in Requests |-> NoRow]
      /\ pending = [r \in Requests |-> NoRow] /\ writer = NoOne /\ served = 0 /\ untold = {}
      /\ settings \in Settings
  BY DEF Init, Settings
<1>2. records \in Seq(Record) /\ Len(records) <= MaxRecords /\ (1 \in Ids <=> Legacy) /\ Ids \subseteq {1}
  <2>1. CASE records = <<>> /\ ~ Legacy
    BY <2>1, RecordsAssumption DEF Ids
  <2>2. CASE Legacy /\ \E d \in Days : records = <<New(NoFile, d, {}, {})>>
    <3>1. PICK record \in Record : records = <<record>>
      BY <2>2, NewIsRecord
    <3>2. MaxRecords >= 1
      BY <2>2, RecordsAssumption, CalendarAssumption
    <3> QED
      BY <2>2, <3>1, <3>2 DEF Ids
  <2> QED
    BY <2>1, <2>2 DEF Init
<1>3. 1 \in Ids => /\ records[1].date \in Days /\ Audience(1) \in SUBSET People
                   /\ LegacyEvent \in Messages
  <2> SUFFICES ASSUME 1 \in Ids
               PROVE  /\ records[1].date \in Days /\ Audience(1) \in SUBSET People
                      /\ LegacyEvent \in Messages
    OBVIOUS
  <2>1. records[1] \in Record
    BY <1>2 DEF Ids
  <2>2. Event(1) \in Events /\ Audience(1) \subseteq People
    BY <1>1, <1>2, EventAt
  <2> QED
    BY <2>1, <2>2 DEF LegacyEvent, Messages, Record
<1>4. invites \in [Uids -> Rows \union {NoRow}]
  <2>1. invites = [u \in Uids |->
          IF u[1] \in Ids THEN Row(0, FALSE, "sent", records[1].date, Audience(1)) ELSE NoRow]
    BY DEF Init
  <2>2. 1 \in Ids => Row(0, FALSE, "sent", records[1].date, Audience(1)) \in Rows
    BY <1>3 DEF Row, Rows
  <2> QED
    BY <1>2, <2>1, <2>2
<1>5. held \in [People -> [Uids -> Messages \union {NoEvent}]]
  <2>1. held = [p \in People |-> [u \in Uids |->
          IF u[1] \in Ids /\ p \in Audience(1) THEN LegacyEvent ELSE NoEvent]]
    BY DEF Init
  <2> HIDE DEF LegacyEvent
  <2> QED
    BY <1>2, <1>3, <2>1
<1>6. work \in [Requests -> WorkRecords]
  BY <1>1, NoWorkIsRecord
<1>7. TypeOK
  BY <1>1, <1>2, <1>4, <1>5, <1>6, CalendarAssumption DEF TypeOK, InFlight
<1>8. \A r \in Requests : WorkInv(r)
  <2> TAKE r \in Requests
  <2>1. pc[r] = "idle" /\ work[r] = NoWork /\ pending[r] = NoRow
    BY <1>1
  <2> QED
    BY <2>1, NoWorkIsRecord DEF WorkInv, InCall, InFlight
<1> QED
  BY <1>7, <1>8 DEF CallInv

LEMMA CallStepKeepsInv ==
    ASSUME CallInv, RecordsInv, [Next]_vars
    PROVE  CallInv'
<1>1. CASE UNCHANGED vars
  BY <1>1 DEF vars, requestVars, CallInv, TypeOK, WorkInv, InCall, InFlight, UidOf, StepOf, Ids
<1>2. CASE Next
  BY <1>2, RouteKeepsInv, RequestStepKeepsInv, CrashKeepsInv DEF Next
<1> QED
  BY <1>1, <1>2

LEMMA CallInvariant == Spec => []CallInv
<1>1. Init => CallInv
  BY CallInvInit
<1>2. CallInv /\ RecordsInv /\ [Next]_vars => CallInv'
  BY CallStepKeepsInv
<1> QED
  BY <1>1, <1>2, RecordsInvariant, PTL DEF Spec

(* The rows, the calendars and the requests keep their types; a request     *)
(* that is sending has its message, the write lock belongs to one that      *)
(* sends its second cancellation, and every row, call and message is about  *)
(* a record that exists.                                                   *)
THEOREM CalendarTypeCorrect == Spec => []TypeOK
<1>1. CallInv => TypeOK
  BY DEF CallInv
<1> QED
  BY <1>1, CallInvariant, PTL
=============================================================================
