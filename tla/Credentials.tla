---------------------------- MODULE Credentials ----------------------------
(***************************************************************************)
(* credMgr with its certMgr and privateKeyMgr (library/credentials/src):   *)
(* loadCerts reads five directories of certificates, loadSecrets the keys  *)
(* that the lines of a file name.  Every file is opened, measured, read    *)
(* and closed to tell its encoding, and then opened again by the library   *)
(* that decodes it: it may have gone in between.                           *)
(***************************************************************************)
EXTENDS Integers, Sequences, SequencesExt

CONSTANTS
  Disks,        \* what the disk may hold: [dirs, secrets, keys]
  NoFile, NoSecret,
  MaxCalls,     \* bound: calls of loadCerts and loadSecrets
  MaxFailures   \* bound: system calls that fail

VARIABLES
  disk,
  pc,
  todo,         \* the directories loadCerts has still to load
  unread,       \* what readdir has still to return
  what,         \* why a file is read: "cert", "secrets" or "key"
  cur,          \* the directory entry that is loaded
  cert,         \* the certificate being made
  mCertList,
  rest,         \* the lines fetchLine has not returned yet
  filename, secret, \* what the last lines of secrets left behind
  mPriKeyList,
  open,         \* descriptors that are open
  lost,         \* those of them that nobody will close
  live,         \* certificates that were made and not deleted
  calls, failures

credVars == <<disk, pc, todo, unread, what, cur, cert, mCertList, rest, filename,
              secret, mPriKeyList, open, lost, live, calls, failures>>

reading == <<what, open, lost, calls, failures>>
certificates == <<todo, unread, cur, cert, mCertList, live>>
keys == <<rest, filename, secret, mPriKeyList>>

CertDirs == <<"ca", "aa", "ocsp", "ac", "crl">>

ASSUME DisksAssumption ==
  \A d \in Disks :
    /\ d.secrets \in Seq(ToSet(d.secrets))
    /\ \A dir \in ToSet(CertDirs) : \A e \in d.dirs[dir] : e.exts \in Seq(ToSet(e.exts))

\* An entry of a directory; exts are the kinds of its extensions in order.
Entry(name, kind, content, exts) ==
  [name |-> name, kind |-> kind, content |-> content, exts |-> exts]
\* A line of the secrets file; file and secret as extractFilenameSecret sees
\* them: "none" there is nothing, "open" a quote is not closed.
SecretsLine(kind, type, file, sec) ==
  [kind |-> kind, type |-> type, file |-> file, secret |-> sec]
Key(content, password) == [content |-> content, password |-> password]

NoCert == [x509 |-> "none", flags |-> {}]

NothingLoaded ==
  /\ pc = "idle"
  /\ todo = <<>>
  /\ unread = {}
  /\ what = "secrets" /\ cur = NoFile /\ cert = NoCert
  /\ mCertList = <<>> /\ mPriKeyList = <<>>
  /\ rest = <<>> /\ filename = NoFile /\ secret = NoSecret
  /\ open = 0 /\ lost = 0 /\ live = 0
  /\ calls = 0 /\ failures = 0

InitCredentials == disk \in Disks /\ NothingLoaded

Fails == failures < MaxFailures /\ failures' = failures + 1
Works == UNCHANGED failures
-----------------------------------------------------------------------------
(* A file: getCertEncoding, getKeyEncoding and getChunkFromFile.           *)

Content == IF what = "cert" THEN cur.content ELSE disk.keys[filename].content

\* Where the caller goes on without the file.
Back == IF what = "cert" THEN "entries" ELSE "lines"

OpenFile ==
  /\ pc = "open"
  /\ \/ Works /\ open' = open + 1 /\ pc' = "size"
     \/ Fails /\ pc' = Back /\ UNCHANGED open
  /\ UNCHANGED <<disk, what, lost, calls, certificates, keys>>

\* Without its size, or the memory for it, the file is left open.
SizeFile ==
  /\ pc = "size"
  /\ \/ Works /\ pc' = "read" /\ UNCHANGED lost
     \/ Fails /\ pc' = Back /\ lost' = lost + 1
  /\ UNCHANGED <<disk, what, open, calls, certificates, keys>>

\* "text" is neither a line that begins a PEM file nor one object of DER.
ReadFile ==
  /\ pc = "read"
  /\ open' = open - 1
  /\ \/ Fails /\ pc' = Back /\ UNCHANGED rest
     \/ /\ Works
        /\ what = "secrets"
        /\ pc' = "lines" /\ rest' = disk.secrets
     \/ /\ Works
        /\ what # "secrets"
        /\ pc' = IF Content = "text" THEN Back ELSE what
        /\ UNCHANGED rest
  /\ UNCHANGED <<disk, what, lost, calls, certificates, filename, secret, mPriKeyList>>

File(why) == what = why /\ (OpenFile \/ SizeFile \/ ReadFile)
getCertEncoding == File("cert")
getKeyEncoding == File("key")
getChunkFromFile == File("secrets")
-----------------------------------------------------------------------------
(* loadCerts and loadCertDir. *)

LoadCerts ==
  /\ pc = "idle" /\ calls < MaxCalls
  /\ calls' = calls + 1
  /\ pc' = "dirs" /\ todo' = CertDirs
  /\ UNCHANGED <<disk, what, open, lost, failures, unread, cur, cert, mCertList, live, keys>>

OpenDir ==
  /\ pc = "dirs"
  /\ todo # <<>>
  /\ \/ /\ Works
        /\ open' = open + 1
        /\ unread' = disk.dirs[Head(todo)]
        /\ pc' = "entries"
        /\ UNCHANGED todo
     \/ /\ Fails
        /\ todo' = Tail(todo)
        /\ pc' = "dirs"
        /\ UNCHANGED <<open, unread>>
  /\ UNCHANGED <<disk, what, lost, calls, cur, cert, mCertList, live, keys>>

\* Closes the directory, at its end or at a name that is too long.
CloseDir ==
  /\ pc = "entries"
  /\ unread = {} \/ \E e \in unread : e.kind = "longName"
  /\ open' = open - 1
  /\ unread' = {}
  /\ todo' = Tail(todo)
  /\ pc' = "dirs"
  /\ UNCHANGED <<disk, what, lost, calls, failures, cur, cert, mCertList, live, keys>>

\* What is not a regular file, or has gone, is passed over.
SkipEntry(e) ==
  /\ pc = "entries" /\ e \in unread
  /\ \/ e.kind = "special" /\ Works
     \/ e.kind = "regular" /\ Fails
  /\ unread' = unread \ {e}
  /\ UNCHANGED <<disk, pc, todo, what, open, lost, calls, cur, cert, mCertList, live, keys>>

\* loadX509CrlCert and loadX509AttCert: what is listed was never read.
Unread(dir, e) == [dir |-> dir, entry |-> e, x509 |-> "none", flags |-> {}]

LoadCertByType(e) ==
  /\ pc = "entries" /\ e \in unread /\ e.kind = "regular"
  /\ unread' = unread \ {e}
  /\ cur' = e
  /\ IF Head(todo) \in {"ac", "crl"}
     THEN /\ mCertList' = Append(mCertList, Unread(Head(todo), e))
          /\ live' = live + 1
          /\ UNCHANGED <<pc, what>>
     ELSE pc' = "open" /\ what' = "cert" /\ UNCHANGED <<mCertList, live>>
  /\ UNCHANGED <<disk, todo, open, lost, calls, failures, cert, keys>>

DirsDone ==
  /\ pc = "dirs" /\ todo = <<>>
  /\ pc' = "idle"
  /\ UNCHANGED <<disk, reading, certificates, keys>>
-----------------------------------------------------------------------------
(* A certificate. *)

\* Some kinds of extensions are passed over without setting "ok", which then
\* has any value; the others that stop the loop are unknown and critical, or
\* cannot be parsed.
Passed == {"altName", "crlPoints"}
Stopping == {"critical", "broken"}

Grants(kind) == CASE kind = "ca" -> {"CA"} [] kind = "crlSign" -> {"CRL_SIGN"}
                  [] kind = "ocsp" -> {"OCSP_SIGNER"} [] OTHER -> {}

\* Seeded bug: an extension that stops the loop is passed over.
ParsedFlags_GoesOn(exts) == {UNION {Grants(exts[i]) : i \in DOMAIN exts}}

\* The flags parseCertExtensions may leave: it stops at the first of Stopping
\* and perhaps at one of Passed.
ParsedFlags(exts) ==
  LET Before(n) == UNION {Grants(exts[i]) : i \in 1..n}
      stops == {i \in DOMAIN exts : /\ exts[i] \in Passed \union Stopping
                                    /\ \A j \in 1..i - 1 : exts[j] \notin Stopping}
      whole == \A i \in DOMAIN exts : exts[i] \notin Stopping
  IN  {Before(i) : i \in stops} \union (IF whole THEN {Before(Len(exts))} ELSE {})

\* loadX509CertFromPEM and loadX509CertFromDER, with parseCertExtensions.  A
\* PEM file without a certificate leaves the empty one; one that does not
\* decode leaves none, whose extensions cannot be asked for.
LoadX509Cert ==
  /\ pc = "cert"
  /\ \/ /\ Fails
        /\ cert' = NoCert /\ pc' = "made"
     \/ /\ Works
        /\ cur.content \in {"pem", "der"}
        /\ \E f \in ParsedFlags(cur.exts) : cert' = [x509 |-> "cert", flags |-> f]
        /\ pc' = "made"
     \/ /\ Works
        /\ cur.content = "pemOther"
        /\ cert' = [x509 |-> "empty", flags |-> {}] /\ pc' = "made"
     \/ /\ Works
        /\ cur.content \in {"pemBroken", "derOther"}
        /\ cert' = NoCert /\ pc' = "crashed"
  /\ live' = live + 1
  /\ UNCHANGED <<disk, what, open, lost, calls, todo, unread, cur, mCertList, keys>>

\* Seeded bug: the certificate that is no CA's is not deleted.
ListCert_Forgets ==
  LET dir == Head(todo)
      flags == cert.flags \union (IF dir = "aa" THEN {"AA"} ELSE {})
  IN  /\ pc = "made"
      /\ IF dir = "ca" /\ "CA" \notin cert.flags
         THEN pc' = "entries" /\ UNCHANGED <<live, mCertList>>
         ELSE /\ mCertList' = Append(mCertList, [dir |-> dir, entry |-> cur,
                                                 x509 |-> cert.x509, flags |-> flags])
              /\ pc' = IF cert.x509 = "none" THEN "crashed" ELSE "entries"
              /\ UNCHANGED live
      /\ UNCHANGED <<disk, reading, todo, unread, cur, cert, keys>>

\* The ends of loadX509CaCert, loadX509AaCert and loadX509Cert.  The log names
\* the subject, which a certificate that could not be read does not have.
ListCert ==
  LET dir == Head(todo)
      flags == cert.flags \union (IF dir = "aa" THEN {"AA"} ELSE {})
  IN  /\ pc = "made"
      /\ IF dir = "ca" /\ "CA" \notin cert.flags
         THEN live' = live - 1 /\ pc' = "entries" /\ UNCHANGED mCertList
         ELSE /\ mCertList' = Append(mCertList, [dir |-> dir, entry |-> cur,
                                                 x509 |-> cert.x509, flags |-> flags])
              /\ pc' = IF cert.x509 = "none" THEN "crashed" ELSE "entries"
              /\ UNCHANGED live
      /\ UNCHANGED <<disk, reading, todo, unread, cur, cert, keys>>
-----------------------------------------------------------------------------
(* loadSecrets. *)

LoadSecrets ==
  /\ pc = "idle" /\ calls < MaxCalls
  /\ calls' = calls + 1
  /\ pc' = "open" /\ what' = "secrets"
  /\ rest' = <<>> /\ filename' = NoFile /\ secret' = NoSecret
  /\ UNCHANGED <<disk, open, lost, failures, certificates, mPriKeyList>>

\* Seeded bug: the secret of an earlier line is kept.
Extracted_KeepsSecret(line) ==
  [filename |-> CASE line.file = "none" -> filename [] line.file = "open" -> NoFile
                  [] OTHER -> line.file,
   secret |-> IF line.file \in {"none", "open"} \/ line.secret \in {"none", "open"}
              THEN secret ELSE line.secret]

\* extractFilenameSecret, whose result is not looked at: the secret is reset
\* in any case, the file name of an earlier line stays when there is none.
Extracted(line) ==
  [filename |-> CASE line.file = "none" -> filename [] line.file = "open" -> NoFile
                  [] OTHER -> line.file,
   secret |-> IF line.file \in {"none", "open"} \/ line.secret \in {"none", "open"}
              THEN NoSecret ELSE line.secret]

KeyTypes == {"RSA", "ECDSA", "BLISS"}
LoadedTypes == {"RSA", "ECDSA"}

\* A line that is not understood ends the reading.
ReadSecretsLine ==
  LET line == Head(rest)
      new == Extracted(line)
      isKey == line.kind = "key" /\ line.type \in KeyTypes
      named == isKey /\ new.filename # NoFile
  IN  /\ pc = "lines" /\ rest # <<>>
      /\ rest' = IF line.kind = "blank" \/ named THEN Tail(rest) ELSE <<>>
      /\ filename' = IF isKey THEN new.filename ELSE filename
      /\ secret' = IF isKey THEN new.secret ELSE secret
      /\ IF named /\ line.type \in LoadedTypes THEN pc' = "open" /\ what' = "key"
                                         ELSE UNCHANGED <<pc, what>>
      /\ UNCHANGED <<disk, open, lost, calls, failures, certificates, mPriKeyList>>

SecretsDone ==
  /\ pc = "lines" /\ rest = <<>>
  /\ pc' = "idle"
  /\ UNCHANGED <<disk, reading, certificates, keys>>

\* loadPriKeyFromPEM, the same in either class: the password is the secret.
PemOpens(key) == key.content = "pem" /\ key.password \in {NoSecret, secret}
\* loadPriKeyFromDER, which knows of no password.
DerOpens(key) == key.content = "der" /\ key.password = NoSecret

LoadPriKey ==
  LET opens == PemOpens(disk.keys[filename]) \/ DerOpens(disk.keys[filename])
      line == Len(disk.secrets) - Len(rest)
  IN  /\ pc = "key"
      /\ pc' = "lines"
      /\ \/ /\ Works
            /\ opens
            /\ mPriKeyList' = Append(mPriKeyList, [file |-> filename, line |-> line])
         \/ /\ (~opens /\ Works) \/ Fails
            /\ UNCHANGED mPriKeyList
      /\ UNCHANGED <<disk, what, open, lost, calls, certificates, rest, filename, secret>>
-----------------------------------------------------------------------------
CredentialsNext ==
  \/ getCertEncoding \/ getKeyEncoding \/ getChunkFromFile
  \/ LoadCerts \/ OpenDir \/ CloseDir \/ DirsDone
  \/ \E e \in unread : SkipEntry(e) \/ LoadCertByType(e)
  \/ LoadX509Cert \/ ListCert
  \/ LoadSecrets \/ ReadSecretsLine \/ SecretsDone \/ LoadPriKey

CredentialsSpec == InitCredentials /\ [][CredentialsNext]_credVars
-----------------------------------------------------------------------------
\* Descriptors and certificates are given back on every way out: what is open
\* is the directory and the file being read, but for the files of which the
\* size or the memory could not be had; a certificate that lives is listed or
\* being made.
ResourcesAccounted ==
  /\ open = lost
           + (IF todo # <<>> /\ pc \notin {"dirs", "idle"} THEN 1 ELSE 0)
           + (IF pc \in {"size", "read"} THEN 1 ELSE 0)
  /\ pc # "crashed" => live = Len(mCertList) + (IF pc = "made" THEN 1 ELSE 0)

\* A certificate counts as a CA's when its extensions up to the first that
\* stops the loop say so, and surely when none was passed over before that.
SurelyCa(e) == \A f \in ParsedFlags(e.exts) : "CA" \in f
Listed(dir) == {c.entry : c \in {d \in ToSet(mCertList) : d.dir = dir}}

\* What comes from the CA directory is the certificate of a CA, and nothing of
\* the directory is missing once it was loaded and nothing failed.
CaDirectoryLoaded ==
  LET ca == disk.dirs["ca"]
  IN  /\ \A c \in ToSet(mCertList) : c.dir = "ca" =>
           /\ c.x509 = "cert" /\ c.entry \in ca
           /\ \E i \in DOMAIN c.entry.exts :
                /\ c.entry.exts[i] = "ca"
                /\ \A j \in 1..i - 1 : c.entry.exts[j] \notin Stopping
      /\ (/\ calls > 0 /\ failures = 0 /\ pc = "dirs" /\ todo # CertDirs
          /\ \A e \in ca : e.kind # "longName")
         => {e \in ca : e.kind = "regular" /\ e.content \in {"pem", "der"} /\ SurelyCa(e)}
              \subseteq Listed("ca")

\* An encrypted key is opened only by the secret of the line that names it; a
\* line that names no file can only load an open key of an earlier line again.
SecretOfItsLine ==
  \A k \in ToSet(mPriKeyList) :
    LET line == disk.secrets[k.line]
        password == disk.keys[k.file].password
    IN  \/ line.file = k.file /\ password \in {NoSecret, line.secret}
        \/ /\ line.file = "none" /\ password = NoSecret
           /\ \E j \in 1..k.line - 1 : disk.secrets[j].file = k.file
=============================================================================
