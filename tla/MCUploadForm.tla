----------------------------- MODULE MCUploadForm -----------------------------
(***************************************************************************)
(* Small instances of UploadForm for TLC.  The files: a certificate; a     *)
(* chain with its root; two renewals of one certificate; two that issued   *)
(* each other; a certificate beside a private key; one beside a PGP PRIVATE *)
(* KEY BLOCK, which only the server knows; the output of openssl pkcs12,   *)
(* with text before the first block; base64 without armour; a PKCS#7 file  *)
(* in PEM form; PKCS#12 files: a locked one with a plain blob beside it,   *)
(* one whose blob no password opens, and one with a blob of a foreign      *)
(* scheme beside a locked one; a PKCS#7 file without certificates, and one *)
(* that cannot be parsed.                                                  *)
(***************************************************************************)
EXTENDS UploadForm

CONSTANTS
    single, chain, renewals, loop, keyed, pgp, printed, bare, armoured, locked, odd, foreign,
    hollow, broken, empty, p1, t1, t2

Subject ==
    [c \in Certificates |-> CASE c = "new" -> "old" [] OTHER -> c]

Issuer ==
    [c \in Certificates |->
        CASE c = "leaf" -> "ca"  [] c \in {"ca", "root"} -> "root"
          [] c = "x" -> "y"      [] c = "y" -> "x"
          [] c = "own" -> "own"  [] OTHER -> "elsewhere"]

Expiry == [c \in Certificates |-> IF c = "x" THEN 2 ELSE 3]

File(armour, holds, certs) ==
    [armour |-> armour, holds |-> holds, key |-> {}, sound |-> TRUE,
     certs |-> certs, blobs |-> {}]

Pfx(blobs) == [File("none", "pkcs12", {}) EXCEPT !.blobs = blobs]

Blob(isForeign, opensWith, certs) ==
    [foreign |-> isForeign, opensWith |-> opensWith, certs |-> certs]

Contents ==
    [f \in Files |->
        CASE f = single    -> File("none", "der", {"own"})
          [] f = chain     -> File("none", "pkcs7", {"leaf", "ca", "root"})
          [] f = renewals  -> File("pem", "der", {"old", "new"})
          [] f = loop      -> File("none", "pkcs7", {"x", "y"})
          [] f = keyed     -> [File("pem", "der", {"kept"}) EXCEPT !.key = {"browser", "server"}]
          [] f = pgp       -> [File("pem", "der", {"beside"}) EXCEPT !.key = {"server"}]
          [] f = printed   -> File("late", "der", {"leaf", "ca"})
          [] f = bare      -> File("base64", "der", {"own"})
          [] f = armoured  -> File("pem", "pkcs7", {"leaf", "root"})
          [] f = locked    -> Pfx({Blob(FALSE, Passwords, {}),
                                   Blob(FALSE, {p1}, {"leaf", "ca", "root"})})
          [] f = odd       -> Pfx({Blob(FALSE, {}, {"old"})})
          [] f = hollow    -> File("none", "pkcs7", {})
          [] f = broken    -> [File("none", "pkcs7", {"old"}) EXCEPT !.sound = FALSE]
          [] f = foreign   -> Pfx({Blob(TRUE, {}, {"old"}), Blob(FALSE, {p1}, {"new"})})]
=============================================================================
