------------------------------ MODULE UploadForm ------------------------------
(***************************************************************************)
(* The upload form of the registration, renewal and attachment pages       *)
(* (web/src/upload.ts): a file is read and its certificates are extracted  *)
(* in the browser, one of them is chosen, and only that one is sent.       *)
(*                                                                         *)
(* Reading and extracting are asynchronous and nothing cancels them: when  *)
(* another file is chosen meanwhile, both go on, and each changes the page *)
(* when it is done.  The form works without its script too: while nothing  *)
(* is chosen, a submit is the browser's own, and posts the file itself.    *)
(***************************************************************************)
EXTENDS Parsing, FiniteSets

CONSTANTS
    Tasks,              \* asynchronous calls that may be going on at once
    None,               \* no file, no certificate
    MaxSteps            \* bound on what the person does

ASSUME UploadAssumption == None \notin Files \union Certificates /\ MaxSteps \in Nat

VARIABLES
    selected,           \* the file in the input
    task,               \* what each asynchronous call is doing, with which file
    chosen,             \* this.chosen
    preview,            \* what the page shows
    post,               \* the certificate being sent (busy while there is one)
    left,               \* the browser has gone to another page
    shown,              \* history: the certificate last shown as what will be saved
    taken,              \* history: what the server has taken from this page
    steps               \* what the person has done

vars == <<selected, task, chosen, preview, post, left, shown, taken, steps>>

Doing(what, file, password) == [what |-> what, file |-> file, password |-> password]
Idle == Doing("idle", None, NoPassword)

Page(kind, certs, file) == [kind |-> kind, certs |-> certs, file |-> file]
Hidden == Page("hidden", {}, None)
Reading == Page("reading", {}, None)        \* "Reading ... in this browser"
Note == Page("note", {}, None)              \* what went wrong

Init ==
    /\ selected = None
    /\ task = [t \in Tasks |-> Idle]
    /\ chosen = None
    /\ preview = Hidden
    /\ post = None
    /\ left = FALSE
    /\ shown = None
    /\ taken = {}
    /\ steps = 0

Act == ~ left /\ steps < MaxSteps /\ steps' = steps + 1

-----------------------------------------------------------------------------
(* handleFile, up to its first await. *)
ChooseFile(file) ==
    /\ Act
    /\ selected' = file
    /\ chosen' = None
    /\ IF file = None
       THEN preview' = Hidden /\ UNCHANGED task
       ELSE /\ preview' = Reading
            /\ \E t \in Tasks :
                  /\ task[t] = Idle
                  /\ task' = [task EXCEPT ![t] = Doing("read", file, NoPassword)]
    /\ UNCHANGED <<post, left, shown, taken>>

Ends(t) == ~ left /\ task' = [task EXCEPT ![t] = Idle]

ReadFile(t) ==
    /\ ~ left
    /\ task[t].what = "read"
    /\ task' = [task EXCEPT ![t].what = "extract"]
    /\ UNCHANGED <<selected, chosen, preview, post, left, shown, taken, steps>>

(* file.arrayBuffer fails: the file has gone, or changed on the disk. *)
Unreadable(t) ==
    /\ task[t].what = "read"
    /\ Ends(t)
    /\ preview' = Note
    /\ UNCHANGED <<selected, chosen, post, left, shown, taken, steps>>

Result(t) == ExtractLeaves(task[t].file, task[t].password)

AskForPassword(t) ==
    /\ task[t].what = "extract"
    /\ Result(t).problem = "password"
    /\ Ends(t)
    /\ preview' = Page("password", {}, task[t].file)
    /\ UNCHANGED <<selected, chosen, post, left, shown, taken, steps>>

(* A variant with a fault: what was thrown is not caught. *)
ShowErrorUncaught(t) ==
    /\ task[t].what = "extract"
    /\ Result(t).problem \notin {"no", "password"}
    /\ Ends(t)
    /\ UNCHANGED <<selected, chosen, preview, post, left, shown, taken, steps>>

ShowError(t) ==
    /\ task[t].what = "extract"
    /\ Result(t).problem \notin {"no", "password"}
    /\ Ends(t)
    /\ preview' = Note
    /\ UNCHANGED <<selected, chosen, post, left, shown, taken, steps>>

(* showPreview *)
ShowPreview(c) == preview' = Page("facts", {c}, None) /\ shown' = c

(* Variants with a fault: the only certificate is shown and not chosen; one *)
(* of several is chosen before anybody did.                                *)
ShowCandidatesUnchosen(certs) ==
    \/ /\ certs = {}
       /\ preview' = Note
       /\ UNCHANGED <<chosen, shown>>
    \/ /\ Cardinality(certs) = 1
       /\ \E c \in certs : ShowPreview(c)
       /\ UNCHANGED chosen
    \/ /\ Cardinality(certs) > 1
       /\ preview' = Page("choices", certs, None)
       /\ UNCHANGED <<chosen, shown>>

ShowCandidatesPreset(certs) ==
    \/ /\ certs = {}
       /\ preview' = Note
       /\ UNCHANGED <<chosen, shown>>
    \/ /\ Cardinality(certs) = 1
       /\ \E c \in certs : chosen' = c /\ ShowPreview(c)
    \/ /\ Cardinality(certs) > 1
       /\ preview' = Page("choices", certs, None)
       /\ chosen' \in certs
       /\ UNCHANGED shown

ShowCandidates(certs) ==
    \/ /\ certs = {}
       /\ preview' = Note
       /\ UNCHANGED <<chosen, shown>>
    \/ /\ Cardinality(certs) = 1
       /\ \E c \in certs : chosen' = c /\ ShowPreview(c)
    \/ /\ Cardinality(certs) > 1
       /\ preview' = Page("choices", certs, None)
       /\ UNCHANGED <<chosen, shown>>

Extracted(t) ==
    /\ task[t].what \in {"extract", "unlock"}
    /\ Result(t).problem = "no"
    /\ Ends(t)
    /\ ShowCandidates(Result(t).certs)
    /\ UNCHANGED <<selected, post, left, taken, steps>>

(* Enter works while an earlier attempt is going on; the button does not.  *)
EnterPassword ==
    /\ Act
    /\ preview.kind = "password"
    /\ \E t \in Tasks, password \in Passwords :
          /\ task[t] = Idle
          /\ task' = [task EXCEPT ![t] = Doing("unlock", preview.file, password)]
    /\ UNCHANGED <<selected, chosen, preview, post, left, shown, taken>>

(* The problem is written into the form that asked, shown or not. *)
NotUnlocked(t) ==
    /\ task[t].what = "unlock"
    /\ Result(t).problem # "no"
    /\ Ends(t)
    /\ UNCHANGED <<selected, chosen, preview, post, left, shown, taken, steps>>

PickCertificate ==
    /\ Act
    /\ preview.kind = "choices"
    /\ \E c \in preview.certs : chosen' = c /\ ShowPreview(c)
    /\ UNCHANGED <<selected, task, post, left, taken>>

-----------------------------------------------------------------------------
(* Without a chosen certificate the browser posts the form and its file.   *)
(* The server may also refuse it for another reason than its bytes.        *)
PlainPost ==
    /\ Act
    /\ chosen = None
    /\ selected # None
    /\ left' = TRUE
    /\ taken' = taken \/ \E c \in ParseUpload(selected) : taken' = taken \union {c}
    /\ UNCHANGED <<selected, task, chosen, preview, post, shown>>

Submit ==
    /\ Act
    /\ chosen # None
    /\ post' = IF post = None THEN chosen ELSE post
    /\ UNCHANGED <<selected, task, chosen, preview, left, shown, taken>>

(* The server takes what is sent, whether the page hears of it or not. *)
Take ==
    /\ post # None
    /\ taken' = taken \union ParsePem(post)
    /\ UNCHANGED <<selected, task, chosen, preview, post, left, shown, steps>>

Registered ==
    /\ ~ left
    /\ post \in taken
    /\ left' = TRUE
    /\ UNCHANGED <<selected, task, chosen, preview, post, shown, taken, steps>>

(* The server refuses it, or its answer is lost: the person may try again. *)
NotRegistered ==
    /\ ~ left
    /\ post # None
    /\ post' = None
    /\ preview' = Note
    /\ UNCHANGED <<selected, task, chosen, left, shown, taken, steps>>

Progress(t) ==
    \/ ReadFile(t) \/ Unreadable(t) \/ AskForPassword(t)
    \/ ShowError(t) \/ Extracted(t) \/ NotUnlocked(t)

Next ==
    \/ \E file \in Files \union {None} : ChooseFile(file)
    \/ \E t \in Tasks : Progress(t)
    \/ EnterPassword \/ PickCertificate
    \/ PlainPost \/ Submit \/ Take \/ Registered \/ NotRegistered

(* Reading a file of the computer and computing in the page come to an end; *)
(* an answer of the server may never come.                                 *)
Fairness == \A t \in Tasks : WF_vars(Progress(t))

Spec == Init /\ [][Next]_vars /\ Fairness

-----------------------------------------------------------------------------
(* The certificate shown under "What will be saved" is the one a submit     *)
(* would send, in whatever order files are read and passwords answered.     *)
FactsAreChosen == preview.kind = "facts" => preview.certs = {chosen}

(* README.md, "Registering a certificate": the page shows what it found     *)
(* before anything is sent.  Whatever late answers have done to the page,   *)
(* what is sent is the certificate it showed last.                         *)
SentWasShown == [][post' # post /\ post' # None => post' = shown]_vars

(* A certificate goes on the board as the thing to renew.  Whether its file *)
(* was read in the page or by the server, with whatever password, it is an  *)
(* end-entity certificate of what was read (selectLeaves, select_leaf).     *)
RegisteredIsLeaf ==
    \A c \in taken : \E file \in Files :
        \/ EndEntity(c, LoadCertificates(file))
        \/ \E p \in Passwords : EndEntity(c, ReadCertificates(file, p).certs)

(* Nothing is taken from a file in which whoever read it saw a private key: *)
(* the server one that was posted, the page one it read itself.  Each has  *)
(* a check of its own (reject_private_key_material, readCertificates), and *)
(* they do not know the same labels.                                       *)
CertsIn(file) == Bytes[file].certs \union UNION {b.certs : b \in Bytes[file].blobs}

KeyFilesAreRefused ==
    [][\A c \in taken' \ taken :
          IF left' # left
          THEN c \in CertsIn(selected) /\ "server" \notin Bytes[selected].key
          ELSE \E file \in Files :
                  c \in CertsIn(file) /\ "browser" \notin Bytes[file].key]_vars

(* The line "Reading ... in this browser" does not stay: whatever is wrong  *)
(* with the file, the page gets to say what it found.                      *)
ReadingEnds == preview = Reading ~> preview # Reading \/ left
=============================================================================
