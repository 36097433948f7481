----------------------------- MODULE UploadProofs -----------------------------
(***************************************************************************)
(* Theorems about the upload form: the certificate the browser offers and  *)
(* the one the server registers, for any certificates in any file; then    *)
(* the form itself, for any number of calls that are going on.             *)
(***************************************************************************)
EXTENDS UploadForm, TLAPS

(* A leaf issued none of the certificates it stands with, and the other     *)
(* way round: the set of issuers' names says the same as the relation.     *)
LEMMA LeafIssuesNone ==
    ASSUME NEW certs, NEW c \in certs
    PROVE  c \in Leaves(certs) <=> IssuesNone(c, certs)
<1>1. c \in Leaves(certs) <=> SubjectOf[c] \notin Issuers(certs)
  BY DEF Leaves
<1>2. SubjectOf[c] \in Issuers(certs) <=> \E d \in certs : ~ SelfIssued(d) /\ IssuerOf[d] = SubjectOf[c]
  BY DEF Issuers
<1> QED
  BY <1>1, <1>2 DEF IssuesNone, Issued

(* selectLeaves offers end-entity certificates and nothing else: no CA of   *)
(* the chain, and no lone root beside a certificate somebody issued.       *)
THEOREM OfferedAreEndEntities ==
    ASSUME NEW certs, NEW c \in SelectLeaves(certs)
    PROVE  EndEntity(c, certs)
<1>1. c \in certs
  BY DEF SelectLeaves, Genuine, Leaves
<1>2. CASE Genuine(certs) # {}
  <2>1. c \in Leaves(certs) /\ ~ SelfIssued(c)
    BY <1>2 DEF SelectLeaves, Genuine
  <2> QED
    BY <1>1, <2>1, LeafIssuesNone DEF EndEntity
<1>3. CASE Genuine(certs) = {} /\ Leaves(certs) # {}
  <2>1. c \in Leaves(certs)
    BY <1>3 DEF SelectLeaves
  <2>2. \A d \in certs : IssuesNone(d, certs) => SelfIssued(d)
    BY <1>3, LeafIssuesNone DEF Genuine
  <2> QED
    BY <1>1, <2>1, <2>2, LeafIssuesNone DEF EndEntity
<1>4. CASE Leaves(certs) = {}
  <2>1. \A d \in certs : ~ IssuesNone(d, certs)
    BY <1>4, LeafIssuesNone
  <2> QED
    BY <1>1, <2>1 DEF EndEntity
<1> QED
  BY <1>2, <1>3, <1>4

(* The server's choice is one the browser would have offered, so that a     *)
(* file posted without the script is not read differently (select_leaf     *)
(* against selectLeaves).                                                  *)
THEOREM ServerLeafIsOffered ==
    ASSUME NEW certs
    PROVE  SelectLeaf(certs) \subseteq SelectLeaves(certs)
<1>1. CASE Genuine(certs) # {}
  BY <1>1 DEF SelectLeaf, SelectLeaves
<1>2. CASE Genuine(certs) = {} /\ Leaves(certs) # {}
  BY <1>2 DEF SelectLeaf, SelectLeaves
<1>3. CASE Genuine(certs) = {} /\ Leaves(certs) = {}
  BY <1>3 DEF SelectLeaf, SelectLeaves, Soonest
<1> QED
  BY <1>1, <1>2, <1>3

(* What the server registers has issued nothing else in the file. *)
LEMMA RegisteredAreEndEntities ==
    ASSUME NEW certs, NEW c \in SelectLeaf(certs)
    PROVE  EndEntity(c, certs)
BY ServerLeafIsOffered, OfferedAreEndEntities

(* A certificate the browser takes without asking is the one the server     *)
(* takes from the same file: it never calls it ambiguous.                  *)
THEOREM SingleChoiceAgrees ==
    ASSUME NEW certs \in SUBSET Certificates, NEW c, SelectLeaves(certs) = {c}
    PROVE  SelectLeaf(certs) = {c}
<1>1. CASE Genuine(certs) # {}
  BY <1>1 DEF SelectLeaf, SelectLeaves
<1>2. CASE Genuine(certs) = {} /\ Leaves(certs) # {}
  BY <1>2 DEF SelectLeaf, SelectLeaves
<1>3. CASE Genuine(certs) = {} /\ Leaves(certs) = {}
  <2>1. certs = {c} /\ c \in Certificates
    BY <1>3 DEF SelectLeaves
  <2>2. Soonest(certs) = {c}
    BY <2>1, ParsingAssumption DEF Soonest
  <2> QED
    BY <1>3, <2>2 DEF SelectLeaf
<1> QED
  BY <1>1, <1>2, <1>3

(* The PEM block of one certificate comes out as that certificate. *)
LEMMA PemIsTheCertificate ==
    ASSUME NEW c \in Certificates
    PROVE  ParsePem(c) = {c}
<1>1. SelectLeaves({c}) \subseteq {c}
  BY DEF SelectLeaves, Genuine, Leaves
<1>2. SelectLeaves({c}) # {}
  BY DEF SelectLeaves
<1>3. SelectLeaves({c}) = {c}
  BY <1>1, <1>2
<1> QED
  BY <1>3, SingleChoiceAgrees DEF ParsePem

-----------------------------------------------------------------------------
(* Besides the property itself: what is chosen was shown last.  A late      *)
(* answer of an earlier file may change both, never one of them.           *)
FormInv ==
    /\ FactsAreChosen
    /\ chosen \in {None, shown}

(* The invariant is inductive. *)
LEMMA FormInvInductive == Spec => []FormInv
<1>1. Init => FormInv
  BY DEF Init, FormInv, FactsAreChosen, Hidden, Page
<1>2. FormInv /\ [Next]_vars => FormInv'
  <2> SUFFICES ASSUME FormInv, [Next]_vars PROVE FormInv'
    OBVIOUS
  <2> USE DEF FormInv, FactsAreChosen, Page, Note, Hidden, Reading
  <2>1. ASSUME NEW file \in Files \union {None}, ChooseFile(file) PROVE FormInv'
    BY <2>1 DEF ChooseFile
  <2>2. ASSUME NEW t \in Tasks, ReadFile(t) PROVE FormInv'
    BY <2>2 DEF ReadFile
  <2>3. ASSUME NEW t \in Tasks, Unreadable(t) PROVE FormInv'
    BY <2>3 DEF Unreadable
  <2>4. ASSUME NEW t \in Tasks, AskForPassword(t) \/ ShowError(t) PROVE FormInv'
    BY <2>4 DEF AskForPassword, ShowError
  <2>5. ASSUME NEW t \in Tasks, Extracted(t) PROVE FormInv'
    BY <2>5 DEF Extracted, ShowCandidates, ShowPreview
  <2>6. ASSUME NEW t \in Tasks, NotUnlocked(t) PROVE FormInv'
    BY <2>6 DEF NotUnlocked
  <2>7. CASE EnterPassword
    BY <2>7 DEF EnterPassword
  <2>8. CASE PickCertificate
    BY <2>8 DEF PickCertificate, ShowPreview
  <2>9. CASE PlainPost \/ Submit \/ Take \/ Registered \/ NotRegistered
    BY <2>9 DEF PlainPost, Submit, Take, Registered, NotRegistered
  <2>10. CASE UNCHANGED vars
    BY <2>10 DEF vars
  <2> QED
    BY <2>1, <2>2, <2>3, <2>4, <2>5, <2>6, <2>7, <2>8, <2>9, <2>10 DEF Next, Progress
<1> QED
  BY <1>1, <1>2, PTL DEF Spec

(* Whatever files are still being read and whatever was shown for others,   *)
(* "What will be saved" is what a submit would send (showCandidates,        *)
(* showPreview, submit).                                                   *)
THEOREM PageTellsTheTruth == Spec => []FactsAreChosen
<1>1. FormInv => FactsAreChosen
  BY DEF FormInv
<1> QED
  BY <1>1, FormInvInductive, PTL

(* What is sent is the certificate the page showed last, also when the      *)
(* server refused an earlier attempt (submit).                             *)
THEOREM OnlyTheShownIsSent == Spec => SentWasShown
<1>1. FormInv /\ [Next]_vars => [post' # post /\ post' # None => post' = shown]_vars
  <2> SUFFICES ASSUME FormInv, [Next]_vars, post' # post, post' # None
               PROVE  post' = shown
    OBVIOUS
  <2>1. CASE Submit
    BY <2>1 DEF FormInv, Submit
  <2>2. CASE NotRegistered
    BY <2>2 DEF NotRegistered
  <2>3. ASSUME NEW t \in Tasks, Progress(t) PROVE FALSE
    BY <2>3 DEF Progress, ReadFile, Unreadable, AskForPassword, ShowError, Extracted, NotUnlocked
  <2> QED
    BY <2>1, <2>2, <2>3
    DEF Next, vars, ChooseFile, EnterPassword, PickCertificate, PlainPost, Take, Registered
<1> QED
  BY <1>1, FormInvInductive, PTL DEF Spec, SentWasShown

-----------------------------------------------------------------------------
(* What the browser reads is in the file, and in one where it saw no        *)
(* private key block.                                                      *)
LEMMA BrowserReads ==
    ASSUME NEW file \in Files, NEW password \in Passwords
    PROVE  LET read == ReadCertificates(file, password) IN
           /\ read.certs \subseteq CertsIn(file)
           /\ read.certs # {} => "browser" \notin Bytes[file].key
           /\ ExtractLeaves(file, password).certs = SelectLeaves(read.certs)
<1> DEFINE read == ReadCertificates(file, password)
<1>1. Bytes[file].key # {} => Armoured(file)
  BY ExtractionAssumption
<1>2. ReadPkcs12(Bytes[file].blobs, password).certs
        \subseteq UNION {b.certs : b \in Bytes[file].blobs}
  BY DEF ReadPkcs12, Found, Refused
<1>3. read.certs \subseteq CertsIn(file)
  BY <1>2 DEF ReadCertificates, Found, Refused, CertsIn
<1>4. "browser" \in Bytes[file].key => read.certs = {}
  <2>1. CASE Bytes[file].armour = "pem"
    BY <2>1 DEF ReadCertificates, DetectKind, Parses, Refused
  <2>2. CASE Bytes[file].armour = "late"
    BY <2>2 DEF ReadCertificates, DetectKind, Refused
  <2> QED
    BY <1>1, <2>1, <2>2 DEF Armoured
<1>5. \E problem, certs : read = [problem |-> problem, certs |-> certs]
  <2>1. \E problem, certs :
           ReadPkcs12(Bytes[file].blobs, password) = [problem |-> problem, certs |-> certs]
    BY DEF ReadPkcs12, Found, Refused
  <2> QED
    BY <2>1 DEF ReadCertificates, Found, Refused
<1>6. ExtractLeaves(file, password).certs = SelectLeaves(read.certs)
  BY <1>5 DEF ExtractLeaves
<1> QED
  BY <1>3, <1>4, <1>6

IsOffered(c) ==
    \E file \in Files, p \in Passwords : c \in ExtractLeaves(file, p).certs

(* An offered certificate is the end entity of a file that may be sent. *)
LEMMA OfferedIsLeaf ==
    ASSUME NEW c, IsOffered(c)
    PROVE  /\ c \in Certificates
           /\ \E file \in Files :
                 /\ c \in CertsIn(file)
                 /\ "browser" \notin Bytes[file].key
                 /\ \E p \in Passwords : EndEntity(c, ReadCertificates(file, p).certs)
<1>1. PICK file \in Files, p \in Passwords : c \in ExtractLeaves(file, p).certs
  BY DEF IsOffered
<1>2. EndEntity(c, ReadCertificates(file, p).certs)
  BY <1>1, BrowserReads, OfferedAreEndEntities
<1>3. c \in CertsIn(file) /\ "browser" \notin Bytes[file].key
  BY <1>2, BrowserReads DEF EndEntity
<1>4. Bytes[file] \in FileBytes
  BY ExtractionAssumption
<1>5. CertsIn(file) \subseteq Certificates
  BY <1>4 DEF CertsIn, FileBytes, Blobs
<1> QED
  BY <1>2, <1>3, <1>5

(* A certificate the server finds in a file it does not reject. *)
LEMMA ServerReads ==
    ASSUME NEW file \in Files, NEW c \in ParseUpload(file)
    PROVE  /\ EndEntity(c, LoadCertificates(file))
           /\ c \in CertsIn(file)
           /\ "server" \notin Bytes[file].key
<1>1. ~ Rejects(file) /\ c \in SelectLeaf(LoadCertificates(file))
  BY DEF ParseUpload
<1>2. EndEntity(c, LoadCertificates(file))
  BY <1>1, RegisteredAreEndEntities
<1>3. c \in CertsIn(file)
  BY <1>2 DEF EndEntity, LoadCertificates, CertsIn
<1>4. "server" \notin Bytes[file].key
  BY <1>1, ExtractionAssumption DEF Rejects
<1> QED
  BY <1>2, <1>3, <1>4

-----------------------------------------------------------------------------
(* Everything the form may choose, show as a choice or send was offered by  *)
(* extractLeaves for a file and a password it was given.                   *)
OfferInv ==
    /\ selected \in Files \union {None}
    /\ task \in [Tasks -> [what : {"idle", "read", "extract", "unlock"},
                          file : Files \union {None}, password : Passwords]]
    /\ \A t \in Tasks : task[t].what # "idle" => task[t].file \in Files
    /\ preview.kind = "password" => preview.file \in Files
    /\ preview.kind = "choices" => \A c \in preview.certs : IsOffered(c)
    /\ chosen # None => IsOffered(chosen)
    /\ post # None => IsOffered(post)
    /\ RegisteredIsLeaf

(* The invariant is inductive. *)
LEMMA OfferInvInductive == Spec => []OfferInv
<1>0. NoPassword \in Passwords
  BY ExtractionAssumption
<1>1. Init => OfferInv
  BY <1>0
  DEF Init, OfferInv, Hidden, Page, Idle, Doing, RegisteredIsLeaf
<1>2. OfferInv /\ [Next]_vars => OfferInv'
  <2> SUFFICES ASSUME OfferInv, [Next]_vars PROVE OfferInv'
    OBVIOUS
  <2> USE DEF OfferInv, Page, Note, Hidden, Reading
  <2>1. ASSUME NEW file \in Files \union {None}, ChooseFile(file) PROVE OfferInv'
    BY <2>1, <1>0 DEF ChooseFile, Doing, RegisteredIsLeaf
  <2>2. ASSUME NEW t \in Tasks, ReadFile(t) PROVE OfferInv'
    BY <2>2 DEF ReadFile, RegisteredIsLeaf
  <2>3. ASSUME NEW t \in Tasks, Unreadable(t) \/ ShowError(t) \/ NotUnlocked(t) PROVE OfferInv'
    BY <2>3, <1>0
    DEF Unreadable, ShowError, NotUnlocked, Ends, Idle, Doing, RegisteredIsLeaf
  <2>4. ASSUME NEW t \in Tasks, AskForPassword(t) PROVE OfferInv'
    BY <2>4, <1>0 DEF AskForPassword, Ends, Idle, Doing, RegisteredIsLeaf
  <2>5. ASSUME NEW t \in Tasks, Extracted(t) PROVE OfferInv'
    <3>1. \A c \in Result(t).certs : IsOffered(c)
      BY <2>5 DEF Extracted, Result, IsOffered
    <3>2. task' = [task EXCEPT ![t] = Idle]
      BY <2>5 DEF Extracted, Ends
    <3> QED
      BY <2>5, <3>1, <3>2, <1>0
      DEF Extracted, ShowCandidates, ShowPreview, Idle, Doing, RegisteredIsLeaf
  <2>6. CASE EnterPassword
    BY <2>6 DEF EnterPassword, Doing, RegisteredIsLeaf
  <2>7. CASE PickCertificate
    BY <2>7 DEF PickCertificate, ShowPreview, RegisteredIsLeaf
  <2>8. CASE PlainPost
    <3>1. selected \in Files
      BY <2>8 DEF PlainPost
    <3>2. RegisteredIsLeaf'
      BY <2>8, <3>1, ServerReads DEF PlainPost, RegisteredIsLeaf
    <3> QED
      BY <2>8, <3>2 DEF PlainPost
  <2>9. CASE Take
    <3>1. ParsePem(post) = {post}
      BY <2>9, OfferedIsLeaf, PemIsTheCertificate DEF Take
    <3>2. RegisteredIsLeaf'
      BY <2>9, <3>1, OfferedIsLeaf DEF Take, RegisteredIsLeaf
    <3> QED
      BY <2>9, <3>2 DEF Take
  <2>10. CASE Submit \/ Registered \/ NotRegistered
    BY <2>10 DEF Submit, Registered, NotRegistered, RegisteredIsLeaf
  <2>11. CASE UNCHANGED vars
    BY <2>11 DEF vars, RegisteredIsLeaf
  <2> QED
    BY <2>1, <2>2, <2>3, <2>4, <2>5, <2>6, <2>7, <2>8, <2>9, <2>10, <2>11 DEF Next, Progress
<1> QED
  BY <1>1, <1>2, PTL DEF Spec

(* Whether the page or the server read the file, what goes on the board is  *)
(* an end-entity certificate of what was read.                             *)
THEOREM OnlyLeavesAreRegistered == Spec => []RegisteredIsLeaf
<1>1. OfferInv => RegisteredIsLeaf
  BY DEF OfferInv
<1> QED
  BY <1>1, OfferInvInductive, PTL

(* No certificate is taken from a file in which the one that read it saw a  *)
(* private key block: the server where the file itself was posted, and the *)
(* page where it read the file and sent one certificate of it              *)
(* (reject_private_key_material, readCertificates).                        *)
THEOREM NothingFromKeyFiles == Spec => KeyFilesAreRefused
<1>1. OfferInv /\ [Next]_vars =>
        [\A c \in taken' \ taken :
            IF left' # left
            THEN c \in CertsIn(selected) /\ "server" \notin Bytes[selected].key
            ELSE \E file \in Files :
                    c \in CertsIn(file) /\ "browser" \notin Bytes[file].key]_vars
  <2> SUFFICES ASSUME OfferInv, [Next]_vars, NEW c \in taken' \ taken
               PROVE  IF left' # left
                      THEN c \in CertsIn(selected) /\ "server" \notin Bytes[selected].key
                      ELSE \E file \in Files :
                              c \in CertsIn(file) /\ "browser" \notin Bytes[file].key
    OBVIOUS
  <2>1. CASE PlainPost
    <3>1. selected \in Files /\ c \in ParseUpload(selected)
      BY <2>1 DEF PlainPost, OfferInv
    <3>2. left' # left
      BY <2>1 DEF PlainPost, Act
    <3> QED
      BY <3>1, <3>2, ServerReads
  <2>2. CASE Take
    <3>1. IsOffered(post) /\ c \in ParsePem(post)
      BY <2>2 DEF Take, OfferInv
    <3>2. c = post
      BY <3>1, OfferedIsLeaf, PemIsTheCertificate
    <3>3. left' = left
      BY <2>2 DEF Take
    <3> QED
      BY <3>1, <3>2, <3>3, OfferedIsLeaf
  <2>3. ASSUME NEW t \in Tasks, Progress(t) PROVE FALSE
    BY <2>3 DEF Progress, ReadFile, Unreadable, AskForPassword, ShowError, Extracted, NotUnlocked
  <2> QED
    BY <2>1, <2>2, <2>3
    DEF Next, vars, ChooseFile, EnterPassword, PickCertificate, Submit, Registered, NotRegistered
<1> QED
  BY <1>1, OfferInvInductive, PTL DEF Spec, KeyFilesAreRefused
=============================================================================
