-------------------------------- MODULE Parsing --------------------------------
(***************************************************************************)
(* What the server makes of the bytes of an upload (app/parsing.py): files *)
(* that may hold a private key are refused before anything is parsed, and  *)
(* the end-entity certificate is picked, if there is exactly one.          *)
(***************************************************************************)
EXTENDS Extraction

CONSTANTS ExpiryOf          \* the day a certificate expires

ASSUME ParsingAssumption == ExpiryOf \in [Certificates -> Nat]

(* reject_private_key_material: PEM blocks are judged by their labels,      *)
(* everything else by its structure, base64 or not.                        *)
(* A variant with a fault: PEM is let through.                              *)
RejectsDer(file) == ~ Armoured(file) /\ Bytes[file].holds \notin {"der", "pkcs7"}

Rejects(file) ==
    \/ Armoured(file) /\ ("server" \in Bytes[file].key \/ Bytes[file].holds = "other")
    \/ ~ Armoured(file) /\ Bytes[file].holds \notin {"der", "pkcs7"}

(* load_certificates *)
LoadCertificates(file) ==
    IF Bytes[file].sound THEN Bytes[file].certs ELSE {}

(* select_leaf: the leaf, or no one where there are several.  Where each of *)
(* them issued another, the first of those that expire soonest.            *)
Soonest(certs) == {c \in certs : \A d \in certs : ExpiryOf[c] <= ExpiryOf[d]}

SelectLeaf(certs) ==
    LET leaves == IF Genuine(certs) # {} THEN Genuine(certs) ELSE Leaves(certs) IN
    IF leaves = {} THEN Soonest(certs)
    ELSE IF \E c \in leaves : leaves = {c} THEN leaves ELSE {}

(* parse_upload: the certificates it may return; none when it refuses. *)
ParseUpload(file) ==
    IF Rejects(file) THEN {} ELSE SelectLeaf(LoadCertificates(file))

(* The PEM block the browser sends, and all it holds, is one certificate. *)
ParsePem(c) == SelectLeaf({c})
=============================================================================
