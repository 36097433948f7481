------------------------------ MODULE Extraction ------------------------------
(***************************************************************************)
(* What the browser finds in a file (web/src/extract.ts): the format is    *)
(* guessed from the first bytes, a PKCS#12 container is opened with the    *)
(* password as far as it goes, and the end-entity certificates are picked. *)
(*                                                                         *)
(* A certificate is one that stands somewhere in a file: the same one      *)
(* twice, or two with the same names, are two members of Certificates.     *)
(* A file is what its bytes hold:                                          *)
(*   armour  none (DER), pem, late (PEM whose first block starts after 128 *)
(*           bytes of text) or base64 (no BEGIN line)                      *)
(*   holds   the structure inside: der (certificates), pkcs7, pkcs12 or    *)
(*           other                                                         *)
(*   key     who sees a private key block in it, by its label: the page    *)
(*           looks for upper case and an end in PRIVATE KEY, the server    *)
(*           for PRIVATE KEY anywhere in the label, in any case            *)
(*   sound   the structure can be parsed                                   *)
(*   certs   the certificates outside a PKCS#12 container                  *)
(*   blobs   the SafeContents of a PKCS#12 container: the certificates of  *)
(*           each, whether its encryption scheme is a foreign one, and the *)
(*           passwords that open it -- all for plain data, and none where  *)
(*           a scheme that is known has parts the library cannot read      *)
(***************************************************************************)
EXTENDS Naturals

CONSTANTS
    Certificates,
    SubjectOf, IssuerOf,    \* the names in a certificate
    Passwords,              \* what may be typed as a password
    NoPassword,             \* the empty one, tried first
    Files,                  \* files a person may choose
    Bytes                   \* what is in them

Blobs == [foreign : BOOLEAN, opensWith : SUBSET Passwords, certs : SUBSET Certificates]

FileBytes ==
    [armour : {"none", "pem", "late", "base64"},
     holds : {"der", "pkcs7", "pkcs12", "other"},
     key : SUBSET {"browser", "server"}, sound : BOOLEAN,
     certs : SUBSET Certificates, blobs : SUBSET Blobs]

Armoured(file) == Bytes[file].armour \in {"pem", "late"}

ASSUME ExtractionAssumption ==
    /\ NoPassword \in Passwords
    /\ Bytes \in [Files -> FileBytes]
    /\ \A file \in Files :
          /\ Bytes[file].key # {} => Armoured(file)
          /\ Bytes[file].holds = "pkcs12" => ~ Armoured(file)
          /\ Bytes[file].holds = "der" /\ ~ Armoured(file)
                => \E c \in Certificates : Bytes[file].certs = {c}

-----------------------------------------------------------------------------
(* detectKind *)
DetectKind(file) ==
    LET b == Bytes[file] IN
    CASE b.armour = "pem"                        -> IF b.holds = "pkcs7" THEN "pkcs7" ELSE "pem"
      [] b.armour = "none" /\ b.holds # "other"  -> b.holds
      [] OTHER                                   -> "unknown"

(* selectLeaves *)
SelfIssued(c) == SubjectOf[c] = IssuerOf[c]

Issuers(certs) == {IssuerOf[c] : c \in {d \in certs : ~ SelfIssued(d)}}

(* A variant with a fault: a certificate that issued others is kept.        *)
LeavesAll(certs) == certs

Leaves(certs) == {c \in certs : SubjectOf[c] \notin Issuers(certs)}

Genuine(certs) == {c \in Leaves(certs) : ~ SelfIssued(c)}

SelectLeaves(certs) ==
    IF Genuine(certs) # {} THEN Genuine(certs)
    ELSE IF Leaves(certs) # {} THEN Leaves(certs) ELSE certs

-----------------------------------------------------------------------------
(* What summarise hands on stands for the certificate itself. *)
Found(certs) == [problem |-> "no", certs |-> certs]
Refused(problem) == [problem |-> problem, certs |-> {}]

(* openSafeContent, decryptSafeContents *)
Opens(blob, password) == ~ blob.foreign /\ password \in blob.opensWith

(* readPkcs12: whatever else fails in a blob counts as a wrong password. *)
ReadPkcs12(blobs, password) ==
    LET certs == UNION {b.certs : b \in {d \in blobs : Opens(d, password)}} IN
    IF certs # {} THEN Found(certs)
    ELSE IF \E b \in blobs : b.foreign THEN Refused("unsupported")
    ELSE IF \E b \in blobs : ~ Opens(b, password) THEN Refused("password")
    ELSE Refused("none")

(* parsePemCertificates, parsePkcs7 and Certificate.fromBER.  The PEM form  *)
(* of a PKCS#7 file is recognised, and given to a parser that takes DER.   *)
Parses(file) ==
    Bytes[file].sound /\ ~ (DetectKind(file) = "pkcs7" /\ Bytes[file].armour = "pem")

(* readCertificates *)
ReadCertificates(file, password) ==
    LET kind == DetectKind(file) IN
    IF kind = "unknown" THEN Refused("unsupported")
    ELSE IF kind = "pem" /\ "browser" \in Bytes[file].key THEN Refused("key")
    ELSE IF ~ Parses(file) THEN Refused("unreadable")
    ELSE IF kind = "pkcs12" THEN ReadPkcs12(Bytes[file].blobs, password)
    ELSE IF kind = "pem" /\ Bytes[file].certs = {} THEN Refused("none")
    ELSE Found(Bytes[file].certs)

(* extractLeaves: a summary stands for its certificate. *)
ExtractLeaves(file, password) ==
    [ReadCertificates(file, password) EXCEPT !.certs = SelectLeaves(@)]

-----------------------------------------------------------------------------
(* What an end-entity certificate of a file is, said without the algorithm: *)
(* it issued no other one there -- unless each of them did, in a loop -- and *)
(* it is self-issued only where no other one will do.                      *)
Issued(c, d) == ~ SelfIssued(d) /\ IssuerOf[d] = SubjectOf[c]

IssuesNone(c, certs) == \A d \in certs : ~ Issued(c, d)

EndEntity(c, certs) ==
    /\ c \in certs
    /\ IssuesNone(c, certs) \/ \A d \in certs : ~ IssuesNone(d, certs)
    /\ SelfIssued(c) => \A d \in certs : IssuesNone(d, certs) => SelfIssued(d)
=============================================================================
