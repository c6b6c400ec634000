------------------------- MODULE Credentials_proofs -------------------------
(***************************************************************************)
(* What holds of the credentials library for every input.  credMgr,        *)
(* certMgr and privateKeyMgr, whatever the disk and however many calls are *)
(* made and fail: everything is given back, the CA directory yields its    *)
(* CAs, and a key is opened by the secret of its line.  convertPEM2BIN,    *)
(* for every file: it accepts the PEM files and decodes a tidy text as a   *)
(* whole.  asn1Parser, for every table and blob: it stays inside of the    *)
(* blob and moves on; over a certificate it comes to an end.               *)
(***************************************************************************)
EXTENDS Credentials, PemFile, Asn1Parser, Asn1Types,
        SequenceTheorems, WellFoundedInduction, NaturalsInduction, TLAPS

IsSeq(s) == \E S : s \in Seq(S)

\* A list grows by one.
LEMMA Appended ==
  ASSUME NEW s, NEW e, IsSeq(s)
  PROVE  /\ IsSeq(Append(s, e))
         /\ Len(s) \in Nat
         /\ Len(Append(s, e)) = Len(s) + 1
         /\ ToSet(Append(s, e)) = ToSet(s) \union {e}
<1>1. PICK S : s \in Seq(S)  BY DEF IsSeq
<1>2. s \in Seq(S \union {e}) /\ e \in S \union {e}  BY <1>1
<1>3. Append(s, e) \in Seq(S \union {e}) /\ Len(Append(s, e)) = Len(s) + 1 /\ Len(s) \in Nat
  BY <1>2
<1>4. ToSet(Append(s, e)) = ToSet(s) \union {e}
  <2>1. \A i \in 1..Len(s) : Append(s, e)[i] = s[i]  BY <1>2
  <2>2. Append(s, e)[Len(s) + 1] = e  BY <1>2
  <2>3. DOMAIN s = 1..Len(s) /\ DOMAIN Append(s, e) = 1..Len(s) + 1  BY <1>2, <1>3
  <2> QED  BY <2>1, <2>2, <2>3, <1>3 DEF ToSet
<1> QED  BY <1>3, <1>4 DEF IsSeq
-----------------------------------------------------------------------------
(* Resources. *)

\* Which work goes with which place: a directory is open or it is not.
Places ==
  /\ what \in {"cert", "secrets", "key"}
  /\ pc \in {"entries", "cert", "made"} => todo # <<>>
  /\ pc \in {"idle", "lines", "key"} => todo = <<>>
  /\ pc \in {"open", "size", "read"} => (todo # <<>> <=> what = "cert")

Counters == open \in Int /\ lost \in Int /\ live \in Int /\ IsSeq(mCertList)

RInv == Places /\ Counters /\ ResourcesAccounted

LEMMA ResourcesInit == InitCredentials => RInv
<1> SUFFICES ASSUME InitCredentials PROVE RInv  OBVIOUS
<1>1. mCertList = <<>> /\ Len(mCertList) = 0  BY DEF InitCredentials, NothingLoaded
<1>2. IsSeq(mCertList)
  <2>1. mCertList \in Seq({})  BY <1>1
  <2> QED  BY <2>1 DEF IsSeq
<1> QED
  BY <1>1, <1>2 DEF InitCredentials, NothingLoaded, RInv, Places, Counters, ResourcesAccounted

LEMMA ResourcesStep == RInv /\ [CredentialsNext]_credVars => RInv'
<1> SUFFICES ASSUME RInv, [CredentialsNext]_credVars PROVE RInv'  OBVIOUS
<1> USE DEF RInv, Places, Counters, ResourcesAccounted, reading, certificates, keys, Fails, Works
<1>0. \A c : /\ IsSeq(Append(mCertList, c)) /\ Len(mCertList) \in Nat
           /\ Len(Append(mCertList, c)) = Len(mCertList) + 1
  BY Appended
<1>1. ASSUME NEW why \in {"cert", "secrets", "key"}, File(why) PROVE RInv'
  <2>1. CASE OpenFile  BY <1>1, <2>1 DEF OpenFile, Back
  <2>2. CASE SizeFile  BY <1>1, <2>2 DEF SizeFile, Back
  <2>3. CASE ReadFile  BY <1>1, <2>3 DEF ReadFile, Back
  <2> QED  BY <1>1, <2>1, <2>2, <2>3 DEF File
<1>2. CASE LoadCerts  BY <1>2 DEF LoadCerts
<1>3. CASE OpenDir  BY <1>3 DEF OpenDir
<1>4. CASE CloseDir  BY <1>4 DEF CloseDir
<1>5. CASE DirsDone  BY <1>5 DEF DirsDone
<1>6. ASSUME NEW e \in unread, SkipEntry(e) PROVE RInv'  BY <1>6 DEF SkipEntry
<1>7. ASSUME NEW e \in unread, LoadCertByType(e) PROVE RInv'
  <2>1. CASE Head(todo) \in {"ac", "crl"}
    <3> DEFINE new == Unread(Head(todo), e)
    <3>1. mCertList' = Append(mCertList, new) /\ live' = live + 1 /\ UNCHANGED <<pc, what, todo, open, lost>>
      BY <1>7, <2>1 DEF LoadCertByType
    <3>2. IsSeq(mCertList') /\ Len(mCertList') = Len(mCertList) + 1 /\ Len(mCertList) \in Nat
      BY <1>0, <3>1
    <3>3. pc = "entries"  BY <1>7 DEF LoadCertByType
    <3> HIDE DEF new
    <3> QED  BY <3>1, <3>2, <3>3
  <2>2. CASE Head(todo) \notin {"ac", "crl"}  BY <1>7, <2>2 DEF LoadCertByType
  <2> QED  BY <2>1, <2>2
<1>8. CASE LoadX509Cert  BY <1>8 DEF LoadX509Cert
<1>9. CASE ListCert
  <2> DEFINE new == [dir |-> Head(todo), entry |-> cur, x509 |-> cert.x509,
                     flags |-> cert.flags \union (IF Head(todo) = "aa" THEN {"AA"} ELSE {})]
             drops == Head(todo) = "ca" /\ "CA" \notin cert.flags
  <2>1. pc = "made" /\ UNCHANGED <<what, todo, open, lost>>  BY <1>9 DEF ListCert
  <2>2. CASE drops
    <3>1. live' = live - 1 /\ pc' = "entries" /\ UNCHANGED mCertList  BY <1>9, <2>2 DEF ListCert
    <3> QED  BY <2>1, <3>1
  <2>3. CASE ~drops
    <3>1. mCertList' = Append(mCertList, new) /\ pc' \in {"crashed", "entries"} /\ UNCHANGED live
      BY <1>9, <2>3 DEF ListCert
    <3>2. IsSeq(mCertList') /\ Len(mCertList') = Len(mCertList) + 1 /\ Len(mCertList) \in Nat
      BY <1>0, <3>1
    <3> HIDE DEF new, drops
    <3> QED  BY <2>1, <3>1, <3>2
  <2> QED  BY <2>2, <2>3
<1>10. CASE LoadSecrets  BY <1>10 DEF LoadSecrets
<1>11. CASE ReadSecretsLine  BY <1>11 DEF ReadSecretsLine
<1>12. CASE SecretsDone  BY <1>12 DEF SecretsDone
<1>13. CASE LoadPriKey  BY <1>13 DEF LoadPriKey
<1>14. CASE UNCHANGED credVars  BY <1>14 DEF credVars
<1> QED
  BY <1>1, <1>2, <1>3, <1>4, <1>5, <1>6, <1>7, <1>8, <1>9, <1>10, <1>11, <1>12, <1>13, <1>14
  DEF CredentialsNext, getCertEncoding, getKeyEncoding, getChunkFromFile

\* Descriptors, directories and certificates are given back on every way out
\* of the loading functions, but for the files whose size or memory could not
\* be had.
THEOREM EverythingGivenBack == CredentialsSpec => []ResourcesAccounted
<1>1. RInv => ResourcesAccounted  BY DEF RInv
<1> QED  BY ResourcesInit, ResourcesStep, <1>1, PTL DEF CredentialsSpec
-----------------------------------------------------------------------------
(* Keys and secrets. *)

Taken == Len(disk.secrets) - Len(rest)
Named(f, n) == \E j \in 1..n : disk.secrets[j].file = f
AtKey == what = "key" /\ pc \in {"open", "size", "read", "key"}

\* What is still to be read is the end of the file.
RestIsSuffix ==
  /\ disk \in Disks
  /\ rest \in Seq(ToSet(disk.secrets))
  /\ Len(rest) <= Len(disk.secrets)
  /\ \A i \in 1..Len(rest) : rest[i] = disk.secrets[Taken + i]

\* A file name comes from one of the lines read so far.
FileWasNamed ==
  /\ what \in {"cert", "secrets", "key"}
  /\ pc = "key" => what = "key"
  /\ pc = "lines" => filename = NoFile \/ Named(filename, Taken)
  /\ pc \in {"open", "size", "read"} /\ what = "secrets" => rest = <<>> /\ filename = NoFile

\* The key that is read belongs to the last line read, and so does the secret.
KeyOfLastLine ==
  AtKey => LET line == disk.secrets[Taken]
           IN  /\ Taken >= 1
               /\ Named(filename, Taken)
               /\ secret \in {NoSecret, line.secret}
               /\ \/ line.file = filename
                  \/ line.file = "none" /\ secret = NoSecret /\ Named(filename, Taken - 1)

SInv == RestIsSuffix /\ FileWasNamed /\ KeyOfLastLine /\ IsSeq(mPriKeyList) /\ SecretOfItsLine

LEMMA SecretsInit == InitCredentials => SInv
<1> SUFFICES ASSUME InitCredentials PROVE SInv  OBVIOUS
<1>1. mPriKeyList = <<>> /\ rest = <<>> /\ Len(rest) = 0 /\ disk \in Disks
  BY DEF InitCredentials, NothingLoaded
<1>2. IsSeq(mPriKeyList)
  <2>1. mPriKeyList \in Seq({})  BY <1>1
  <2> QED  BY <2>1 DEF IsSeq
<1>3. ToSet(mPriKeyList) = {}  BY <1>1 DEF ToSet
<1>4. disk.secrets \in Seq(ToSet(disk.secrets))  BY <1>1, DisksAssumption
<1>5. RestIsSuffix  BY <1>1, <1>4 DEF RestIsSuffix
<1>6. FileWasNamed /\ KeyOfLastLine
  BY <1>1 DEF InitCredentials, NothingLoaded, FileWasNamed, KeyOfLastLine, AtKey
<1> QED  BY <1>2, <1>3, <1>5, <1>6 DEF SInv, SecretOfItsLine

\* A step that leaves the lines and the keys alone, and begins no key and no
\* reading of lines.
LEMMA SecretsApart ==
  ASSUME SInv, UNCHANGED <<disk, keys>>,
         what' \in {"cert", "secrets", "key"}, pc' # "key", pc' # "lines",
         pc' \in {"open", "size", "read"} => what' = "cert"
  PROVE  SInv'
BY DEF SInv, RestIsSuffix, FileWasNamed, KeyOfLastLine, AtKey, Taken, Named, SecretOfItsLine, keys

\* One line is read.
LEMMA SecretsLineStep ==
  ASSUME SInv, ReadSecretsLine
  PROVE  SInv'
<1> DEFINE line == Head(rest)
           new == Extracted(line)
           isKey == line.kind = "key" /\ line.type \in KeyTypes
           named == isKey /\ new.filename # NoFile
           keeps == line.kind = "blank" \/ named
<1>1. /\ pc = "lines" /\ rest # <<>>
      /\ rest' = IF keeps THEN Tail(rest) ELSE <<>>
      /\ filename' = IF isKey THEN new.filename ELSE filename
      /\ secret' = IF isKey THEN new.secret ELSE secret
      /\ \/ named /\ pc' = "open" /\ what' = "key"
         \/ UNCHANGED <<pc, what>>
      /\ disk' = disk /\ mPriKeyList' = mPriKeyList
  BY DEF ReadSecretsLine
<1>2. /\ rest \in Seq(ToSet(disk.secrets)) /\ disk.secrets \in Seq(ToSet(disk.secrets))
      /\ Len(rest) <= Len(disk.secrets)
      /\ \A i \in 1..Len(rest) : rest[i] = disk.secrets[Taken + i]
  BY DisksAssumption DEF SInv, RestIsSuffix
<1>3. Taken \in Nat /\ Len(rest) \in Nat \ {0} /\ Len(disk.secrets) \in Nat
  BY <1>1, <1>2 DEF Taken
<1>4. line = disk.secrets[Taken + 1]
  BY <1>2, <1>3
<1>5. /\ rest' \in Seq(ToSet(disk.secrets))
      /\ keeps => Taken' = Taken + 1
      /\ Taken' \in Taken + 1..Len(disk.secrets)
      /\ Len(rest') \in Nat
  <2>1. CASE keeps
    <3>1. rest' = Tail(rest)  BY <1>1, <2>1
    <3>2. rest' \in Seq(ToSet(disk.secrets)) /\ Len(rest') = Len(rest) - 1
      BY <3>1, <1>1, <1>2
    <3> QED  BY <3>2, <1>1, <1>3 DEF Taken
  <2>2. CASE ~keeps
    <3>1. rest' = <<>>  BY <1>1, <2>2
    <3>2. rest' \in Seq(ToSet(disk.secrets)) /\ Len(rest') = 0  BY <3>1
    <3> HIDE DEF keeps
    <3> QED  BY <3>2, <2>2, <1>1, <1>3 DEF Taken
  <2> QED  BY <2>1, <2>2
<1>6. \A i \in 1..Len(rest') : rest'[i] = disk.secrets[Taken' + i]
  <2>1. CASE keeps
    <3>1. rest' = Tail(rest)  BY <1>1, <2>1
    <3>2. Len(rest') = Len(rest) - 1 /\ \A i \in 1..Len(rest') : rest'[i] = rest[i + 1]
      BY <3>1, <1>1, <1>2
    <3>3. Taken' = Taken + 1  BY <1>5, <2>1
    <3> HIDE DEF keeps
    <3>4. ASSUME NEW i \in 1..Len(rest') PROVE rest'[i] = disk.secrets[Taken' + i]
      <4>1. i + 1 \in 1..Len(rest)  BY <3>2, <1>3, <1>5
      <4>2. rest[i + 1] = disk.secrets[Taken + (i + 1)]  BY <4>1, <1>2
      <4>3. Taken' + i = Taken + (i + 1)  BY <3>3, <1>3, <1>5
      <4> QED  BY <3>2, <4>2, <4>3
    <3> QED  BY <3>4
  <2>2. CASE ~keeps
    <3>1. Len(rest') = 0  BY <1>1, <2>2
    <3> QED  BY <3>1
  <2> QED  BY <2>1, <2>2
<1>7. RestIsSuffix'
  <2>1. disk' \in Disks  BY <1>1 DEF SInv, RestIsSuffix
  <2>2. Len(rest') <= Len(disk.secrets)  BY <1>5, <1>3, <1>1 DEF Taken
  <2> QED  BY <1>1, <1>5, <1>6, <2>1, <2>2 DEF RestIsSuffix
<1>8. filename = NoFile \/ Named(filename, Taken)
  BY <1>1 DEF SInv, FileWasNamed
<1>9. isKey => \/ /\ line.file = "none" /\ new.filename = filename
                  /\ new.secret = NoSecret
               \/ new.filename = NoFile
               \/ new.filename = line.file /\ new.secret \in {NoSecret, line.secret}
  BY DEF Extracted
<1>10. \A f, n : Named(f, n)' <=> Named(f, n)  BY <1>1 DEF Named
<1>11. \A f : Named(f, Taken) => \A n \in Taken..Len(disk.secrets) : Named(f, n)
  BY <1>3 DEF Named
<1> HIDE DEF new, line, keeps
<1>12. isKey => filename' = NoFile \/ Named(filename', Taken + 1)
  <2>1. \A n \in Nat \ {0} : Named(disk.secrets[n].file, n)  BY DEF Named
  <2>2. Taken + 1 \in Nat \ {0} /\ Taken + 1 \in Taken..Len(disk.secrets)
    BY <1>3, <1>5
  <2> QED  BY <1>1, <1>4, <1>8, <1>9, <1>11, <2>1, <2>2
<1>13. filename' = NoFile \/ Named(filename', Taken')
  <2>1. Taken' \in Taken..Len(disk.secrets)  BY <1>3, <1>5
  <2>2. \A f : Named(f, Taken + 1) => Named(f, Taken')
    BY <1>3, <1>5 DEF Named
  <2> QED  BY <1>1, <1>8, <1>11, <1>12, <2>1, <2>2
<1>14. FileWasNamed'
  <2>1. pc' \in {"open", "lines"} /\ (pc' = "open" => what' = "key")
    BY <1>1
  <2>2. what' \in {"cert", "secrets", "key"}  BY <1>1 DEF SInv, FileWasNamed
  <2>3. pc' = "lines" => filename' = NoFile \/ Named(filename, Taken)'  BY <1>13, <1>1 DEF Named
  <2> QED  BY <2>1, <2>2, <2>3 DEF FileWasNamed
<1>15. KeyOfLastLine'
  <2>1. ASSUME AtKey' PROVE named
    BY <1>1, <2>1 DEF AtKey
  <2>2. ASSUME named
        PROVE /\ Taken' = Taken + 1 /\ Taken' >= 1
              /\ Named(filename', Taken')
              /\ secret' \in {NoSecret, line.secret}
              /\ \/ line.file = filename'
                 \/ line.file = "none" /\ secret' = NoSecret /\ Named(filename', Taken)
    <3>1. Taken' = Taken + 1 /\ filename' = new.filename /\ secret' = new.secret
          /\ new.filename # NoFile
      BY <1>1, <1>5, <2>2 DEF keeps
    <3> QED  BY <3>1, <1>3, <1>8, <1>9, <1>13, <2>2
  <2>3. ASSUME named
        PROVE disk'.secrets[Taken'] = line /\ Taken' - 1 = Taken
    BY <2>2, <2>3, <1>3, <1>4, <1>1
  <2>4. \A f, n : (\E j \in 1..n : disk'.secrets[j].file = f) <=> Named(f, n)
    BY <1>1 DEF Named
  <2> QED  BY <2>1, <2>2, <2>3, <2>4, <1>1 DEF KeyOfLastLine, Named
<1>16. SecretOfItsLine' /\ IsSeq(mPriKeyList')
  BY <1>1 DEF SInv, SecretOfItsLine
<1> QED  BY <1>7, <1>14, <1>15, <1>16 DEF SInv

\* A key is listed that the secret of its line opens.
LEMMA SecretsKeyStep ==
  ASSUME SInv, LoadPriKey
  PROVE  SInv'
<1> DEFINE line == disk.secrets[Taken]
           k == [file |-> filename, line |-> Taken]
<1>1. /\ pc = "key" /\ pc' = "lines" /\ what = "key" /\ AtKey
      /\ UNCHANGED <<disk, what, rest, filename, secret>>
  BY DEF LoadPriKey, SInv, FileWasNamed, AtKey
<1>2. RestIsSuffix' /\ FileWasNamed' /\ KeyOfLastLine' /\ Taken' = Taken
  BY <1>1 DEF SInv, RestIsSuffix, FileWasNamed, KeyOfLastLine, AtKey, Taken, Named
<1>3. CASE UNCHANGED mPriKeyList
  BY <1>1, <1>2, <1>3 DEF SInv, SecretOfItsLine
<1>4. CASE mPriKeyList' # mPriKeyList
  <2>1. /\ mPriKeyList' = Append(mPriKeyList, k)
        /\ disk.keys[filename].password \in {NoSecret, secret}
    BY <1>4 DEF LoadPriKey, PemOpens, DerOpens, Taken
  <2>2. IsSeq(mPriKeyList)  BY DEF SInv
  <2>3. /\ IsSeq(Append(mPriKeyList, k))
        /\ ToSet(Append(mPriKeyList, k)) = ToSet(mPriKeyList) \union {k}
    BY <2>2, Appended
  <2>4. k.file = filename /\ k.line = Taken  OBVIOUS
  <2>5. \/ line.file = k.file /\ disk.keys[k.file].password \in {NoSecret, line.secret}
        \/ /\ line.file = "none" /\ disk.keys[k.file].password = NoSecret
           /\ \E j \in 1..k.line - 1 : disk.secrets[j].file = k.file
    BY <1>1, <2>1, <2>4 DEF SInv, KeyOfLastLine, Named
  <2> HIDE DEF k
  <2>6. SecretOfItsLine'
    BY <2>1, <2>3, <2>4, <2>5, <1>1 DEF SInv, SecretOfItsLine
  <2> QED  BY <2>1, <2>3, <2>6, <1>2 DEF SInv
<1> QED  BY <1>3, <1>4

LEMMA SecretsFileStep ==
  ASSUME SInv, NEW why \in {"cert", "secrets", "key"}, File(why)
  PROVE  SInv'
<1> USE DEF Fails, Works, reading, certificates, keys, Back
<1>1. UNCHANGED <<disk, what, filename, secret, mPriKeyList>> /\ what = why /\ pc \in {"open", "size", "read"}
  BY DEF File, OpenFile, SizeFile, ReadFile
<1>2. CASE why = "cert"
  <2>1. UNCHANGED rest /\ pc' \in {"size", "entries", "read", "cert"}
    BY <1>1, <1>2 DEF File, OpenFile, SizeFile, ReadFile
  <2> QED  BY <1>1, <1>2, <2>1, SecretsApart
<1>3. CASE why = "key"
  <2>1. UNCHANGED rest /\ pc' \in {"size", "read", "key", "lines"} /\ AtKey
    BY <1>1, <1>3 DEF File, OpenFile, SizeFile, ReadFile, AtKey
  <2> QED
    BY <1>1, <1>3, <2>1
    DEF SInv, RestIsSuffix, FileWasNamed, KeyOfLastLine, AtKey, Taken, Named, SecretOfItsLine
<1>4. CASE why = "secrets"
  <2>1. rest = <<>> /\ filename = NoFile  BY <1>1, <1>4 DEF SInv, FileWasNamed
  <2>2. CASE UNCHANGED rest
    <3>1. pc' \in {"size", "read", "lines"}
      BY <1>1, <1>4, <2>2 DEF File, OpenFile, SizeFile, ReadFile
    <3> QED
      BY <1>1, <1>4, <2>1, <2>2, <3>1
      DEF SInv, RestIsSuffix, FileWasNamed, KeyOfLastLine, AtKey, Taken, Named, SecretOfItsLine
  <2>3. CASE rest' # rest
    <3>1. rest' = disk.secrets /\ pc' = "lines"
      BY <1>1, <1>4, <2>3 DEF File, OpenFile, SizeFile, ReadFile
    <3>2. disk.secrets \in Seq(ToSet(disk.secrets)) /\ disk \in Disks
      BY DisksAssumption DEF SInv, RestIsSuffix
    <3>3. Taken' = 0 /\ Len(rest') = Len(disk.secrets) /\ Len(rest') \in Nat
      BY <3>1, <3>2, <1>1 DEF Taken
    <3>4. \A i \in 1..Len(rest') : rest'[i] = disk'.secrets[Taken' + i]
      BY <3>1, <3>3, <1>1
    <3>5. RestIsSuffix'  BY <3>1, <3>2, <3>3, <3>4, <1>1 DEF RestIsSuffix
    <3> QED
      BY <1>1, <1>4, <2>1, <3>1, <3>5
      DEF SInv, FileWasNamed, KeyOfLastLine, AtKey, SecretOfItsLine
  <2> QED  BY <2>2, <2>3
<1> QED  BY <1>2, <1>3, <1>4

LEMMA SecretsStep == SInv /\ [CredentialsNext]_credVars => SInv'
<1> SUFFICES ASSUME SInv, [CredentialsNext]_credVars PROVE SInv'  OBVIOUS
<1> USE DEF reading, certificates
<1>0. what \in {"cert", "secrets", "key"}  BY DEF SInv, FileWasNamed
<1>1. ASSUME NEW why \in {"cert", "secrets", "key"}, File(why) PROVE SInv'
  BY <1>1, SecretsFileStep
<1>2. CASE LoadCerts  BY <1>2, <1>0, SecretsApart DEF LoadCerts
<1>3. CASE OpenDir  BY <1>3, <1>0, SecretsApart DEF OpenDir
<1>4. CASE CloseDir  BY <1>4, <1>0, SecretsApart DEF CloseDir
<1>5. CASE DirsDone  BY <1>5, <1>0, SecretsApart DEF DirsDone
<1>6. ASSUME NEW e \in unread, SkipEntry(e) PROVE SInv'
  <2>1. pc = "entries" /\ UNCHANGED <<pc, what, disk, keys>>  BY <1>6 DEF SkipEntry
  <2> QED  BY <2>1, <1>0, SecretsApart
<1>7. ASSUME NEW e \in unread, LoadCertByType(e) PROVE SInv'
  <2>1. UNCHANGED <<disk, keys>>
        /\ ((pc' = "entries" /\ UNCHANGED what) \/ (pc' = "open" /\ what' = "cert"))
    BY <1>7 DEF LoadCertByType
  <2> QED  BY <2>1, <1>0, SecretsApart
<1>8. CASE LoadX509Cert
  <2>1. pc' \in {"made", "crashed"} /\ UNCHANGED <<disk, what, keys>>  BY <1>8 DEF LoadX509Cert
  <2> QED  BY <2>1, <1>0, SecretsApart
<1>9. CASE ListCert
  <2>1. pc' \in {"entries", "crashed"} /\ UNCHANGED <<disk, what, keys>>  BY <1>9 DEF ListCert
  <2> QED  BY <2>1, <1>0, SecretsApart
<1>10. CASE LoadSecrets
  <2>1. /\ rest' = <<>> /\ filename' = NoFile /\ pc' = "open" /\ what' = "secrets"
        /\ UNCHANGED <<disk, mPriKeyList>>
    BY <1>10 DEF LoadSecrets
  <2>2. disk.secrets \in Seq(ToSet(disk.secrets)) /\ disk \in Disks
    BY DisksAssumption DEF SInv, RestIsSuffix
  <2>3. RestIsSuffix'  BY <2>1, <2>2 DEF RestIsSuffix
  <2> QED  BY <2>1, <2>3 DEF SInv, FileWasNamed, KeyOfLastLine, AtKey, SecretOfItsLine
<1>11. CASE ReadSecretsLine  BY <1>11, SecretsLineStep
<1>12. CASE SecretsDone
  <2>1. pc' = "idle" /\ UNCHANGED <<disk, what, keys>>  BY <1>12 DEF SecretsDone
  <2> QED  BY <2>1, <1>0, SecretsApart
<1>13. CASE LoadPriKey  BY <1>13, SecretsKeyStep
<1>14. CASE UNCHANGED credVars
  BY <1>14 DEF credVars, SInv, RestIsSuffix, FileWasNamed, KeyOfLastLine, AtKey, Taken, Named,
               SecretOfItsLine
<1> QED
  BY <1>1, <1>2, <1>3, <1>4, <1>5, <1>6, <1>7, <1>8, <1>9, <1>10, <1>11, <1>12, <1>13, <1>14
  DEF CredentialsNext, getCertEncoding, getKeyEncoding, getChunkFromFile

\* An encrypted key is opened only by the secret of the line that names it,
\* whatever the lines of the secrets file and whatever fails.
THEOREM SecretsStayOnTheirLine == CredentialsSpec => []SecretOfItsLine
<1>1. SInv => SecretOfItsLine  BY DEF SInv
<1> QED  BY SecretsInit, SecretsStep, <1>1, PTL DEF CredentialsSpec
-----------------------------------------------------------------------------
(* The CA directory. *)

CA == disk.dirs["ca"]
LoadingCert == pc \in {"cert", "made"} \/ (pc \in {"open", "size", "read"} /\ what = "cert")
LoadingDir == pc = "entries" \/ LoadingCert

\* The extensions make a CA before any of them stops the loop.
MakesCa(exts) ==
  \E i \in DOMAIN exts : exts[i] = "ca" /\ \A j \in 1..i - 1 : exts[j] \notin Stopping
GoodCa(e) == e.kind = "regular" /\ e.content \in {"pem", "der"} /\ SurelyCa(e)
IsListed(e) == \E c \in ToSet(mCertList) : c.dir = "ca" /\ c.entry = e

\* "ca" is the first of the directories.
CaFirst ==
  /\ disk \in Disks /\ failures \in Nat
  /\ todo \in Seq(ToSet(CertDirs))
  /\ todo = CertDirs \/ \A i \in 1..Len(todo) : todo[i] # "ca"

\* What is loaded is of the directory that is open.
FromDirectory ==
  LoadingDir => /\ unread \subseteq disk.dirs[Head(todo)]
                /\ LoadingCert => cur \in disk.dirs[Head(todo)] /\ cur.kind = "regular"

\* The flags of a certificate are those its extensions may leave.
FlagsOfCur ==
  pc = "made" =>
    /\ cert.flags = {} \/ (cert.x509 = "cert" /\ cert.flags \in ParsedFlags(cur.exts))
    /\ failures = 0 /\ cur.content \in {"pem", "der"} => cert.flags \in ParsedFlags(cur.exts)

CasAreCas ==
  \A c \in ToSet(mCertList) :
    c.dir = "ca" => c.x509 = "cert" /\ c.entry \in CA /\ MakesCa(c.entry.exts)

\* No CA is missing: it is listed, or its turn comes.
NoCaMissing ==
  failures = 0 /\ (\A e \in CA : e.kind # "longName") =>
    \A e \in CA : GoodCa(e) =>
      /\ LoadingDir /\ todo = CertDirs => e \in unread \/ (LoadingCert /\ e = cur) \/ IsListed(e)
      /\ (LoadingDir \/ pc = "dirs") /\ todo # CertDirs => IsListed(e)

CInv == CaFirst /\ FromDirectory /\ FlagsOfCur /\ CasAreCas /\ NoCaMissing

\* A certificate with the flag of a CA has an extension that grants it.
LEMMA CaFlagIsGranted ==
  ASSUME NEW exts, IsSeq(exts), NEW f \in ParsedFlags(exts), "CA" \in f
  PROVE  MakesCa(exts)
<1> DEFINE Before(n) == UNION {Grants(exts[i]) : i \in 1..n}
           stops == {i \in DOMAIN exts : /\ exts[i] \in Passed \union Stopping
                                         /\ \A j \in 1..i - 1 : exts[j] \notin Stopping}
           whole == \A i \in DOMAIN exts : exts[i] \notin Stopping
<1>1. DOMAIN exts = 1..Len(exts) /\ Len(exts) \in Nat  BY DEF IsSeq
<1>2. f \in {Before(i) : i \in stops} \/ (whole /\ f = Before(Len(exts)))
  BY DEF ParsedFlags
<1>3. \E n \in 0..Len(exts) : f = Before(n) /\ \A j \in 1..n - 1 : exts[j] \notin Stopping
  <2>1. CASE f \in {Before(i) : i \in stops}
    <3>1. PICK i \in stops : f = Before(i)  BY <2>1
    <3>2. i \in 0..Len(exts) /\ \A j \in 1..i - 1 : exts[j] \notin Stopping  BY <1>1, <3>1
    <3> QED  BY <3>1, <3>2
  <2>2. CASE whole /\ f = Before(Len(exts))
    <3>1. \A j \in 1..Len(exts) - 1 : exts[j] \notin Stopping  BY <1>1, <2>2
    <3>2. Len(exts) \in 0..Len(exts)  BY <1>1
    <3> HIDE DEF Before
    <3> QED  BY <2>2, <3>1, <3>2
  <2> QED  BY <1>2, <2>1, <2>2
<1>4. PICK n \in 0..Len(exts) : f = Before(n) /\ \A j \in 1..n - 1 : exts[j] \notin Stopping
  BY <1>3
<1>5. PICK i \in 1..n : "CA" \in Grants(exts[i])  BY <1>4
<1>6. exts[i] = "ca"  BY <1>5 DEF Grants
<1>7. i \in DOMAIN exts /\ \A j \in 1..i - 1 : exts[j] \notin Stopping
  BY <1>1, <1>4, <1>5
<1> QED  BY <1>6, <1>7 DEF MakesCa

LEMMA CertsInit == InitCredentials => CInv
<1> SUFFICES ASSUME InitCredentials PROVE CInv  OBVIOUS
<1>1. /\ mCertList = <<>> /\ todo = <<>> /\ pc = "idle" /\ failures = 0 /\ disk \in Disks
  BY DEF InitCredentials, NothingLoaded
<1>2. ToSet(mCertList) = {}  BY <1>1 DEF ToSet
<1>3. CaFirst  BY <1>1 DEF CaFirst
<1> QED
  BY <1>1, <1>2, <1>3
  DEF CInv, FromDirectory, FlagsOfCur, CasAreCas, NoCaMissing, LoadingDir, LoadingCert

\* A step that leaves the list alone and loads nothing afterwards.
LEMMA CertsApart ==
  ASSUME CInv, UNCHANGED <<disk, mCertList>>, CaFirst',
         pc' # "dirs", ~LoadingDir'
  PROVE  CInv'
<1>1. FlagsOfCur'  BY DEF FlagsOfCur, LoadingDir, LoadingCert
<1>2. FromDirectory' /\ CasAreCas' /\ NoCaMissing'
  BY DEF CInv, FromDirectory, CasAreCas, NoCaMissing, LoadingDir, LoadingCert, CA
<1> QED  BY <1>1, <1>2 DEF CInv

\* What CaFirst says of the head and of the tail.
LEMMA DirsInOrder ==
  ASSUME CaFirst, todo # <<>>
  PROVE  /\ Head(todo) = "ca" <=> todo = CertDirs
         /\ Tail(todo) \in Seq(ToSet(CertDirs))
         /\ Tail(todo) # CertDirs /\ \A i \in 1..Len(Tail(todo)) : Tail(todo)[i] # "ca"
<1>1. Len(CertDirs) = 5 /\ CertDirs[1] = "ca" /\ \A i \in 2..5 : CertDirs[i] # "ca"
  <2>1. Len(CertDirs) = 5 /\ CertDirs[1] = "ca"  BY DEF CertDirs
  <2>2. /\ CertDirs[2] # "ca" /\ CertDirs[3] # "ca" /\ CertDirs[4] # "ca" /\ CertDirs[5] # "ca"
    BY DEF CertDirs
  <2>3. \A i \in 2..5 : i = 2 \/ i = 3 \/ i = 4 \/ i = 5  OBVIOUS
  <2> QED  BY <2>1, <2>2, <2>3
<1>2. todo \in Seq(ToSet(CertDirs)) /\ Len(todo) \in Nat \ {0} /\ Head(todo) = todo[1]
  BY DEF CaFirst
<1>3. Tail(todo) \in Seq(ToSet(CertDirs)) /\ Len(Tail(todo)) = Len(todo) - 1
      /\ \A i \in 1..Len(Tail(todo)) : Tail(todo)[i] = todo[i + 1]
  BY <1>2
<1>4. \A i \in 1..Len(Tail(todo)) : i + 1 \in 2..Len(todo)  BY <1>2, <1>3
<1>5. \A i \in 1..Len(Tail(todo)) : Tail(todo)[i] # "ca"
  <2>1. \A i \in 2..Len(todo) : todo[i] # "ca"
    <3>1. CASE todo = CertDirs  BY <3>1, <1>1
    <3>2. CASE \A i \in 1..Len(todo) : todo[i] # "ca"  BY <3>2, <1>2
    <3> QED  BY <3>1, <3>2 DEF CaFirst
  <2> QED  BY <2>1, <1>3, <1>4
<1>6. Head(todo) = "ca" <=> todo = CertDirs
  BY <1>1, <1>2 DEF CaFirst
<1>7. Tail(todo) # CertDirs
  <2>1. 1 \in 1..Len(CertDirs)  BY <1>1
  <2> QED  BY <2>1, <1>1, <1>5
<1> QED  BY <1>3, <1>5, <1>6, <1>7

LEMMA CertsOpenDir ==
  ASSUME RInv, CInv, OpenDir
  PROVE  CInv'
<1>1. /\ pc = "dirs" /\ todo # <<>> /\ UNCHANGED <<disk, mCertList>>
      /\ \/ failures' = failures /\ unread' = disk.dirs[Head(todo)] /\ pc' = "entries" /\ todo' = todo
         \/ failures' = failures + 1 /\ todo' = Tail(todo) /\ pc' = "dirs"
  BY DEF OpenDir, Works, Fails
<1>2. /\ Head(todo) = "ca" <=> todo = CertDirs
      /\ Tail(todo) \in Seq(ToSet(CertDirs))
      /\ \A i \in 1..Len(Tail(todo)) : Tail(todo)[i] # "ca"
  BY <1>1, DirsInOrder DEF CInv
<1>3. CASE failures' = failures /\ unread' = disk.dirs[Head(todo)] /\ pc' = "entries" /\ todo' = todo
  BY <1>1, <1>2, <1>3
  DEF CInv, CaFirst, FromDirectory, FlagsOfCur, CasAreCas, NoCaMissing, IsListed, LoadingDir,
      LoadingCert, CA
<1>4. CASE failures' = failures + 1 /\ todo' = Tail(todo) /\ pc' = "dirs"
  <2>1. failures' # 0 /\ failures' \in Nat  BY <1>4 DEF CInv, CaFirst
  <2>2. CaFirst'  BY <1>1, <1>2, <1>4, <2>1 DEF CInv, CaFirst
  <2> QED
    BY <1>1, <1>4, <2>1, <2>2
    DEF CInv, FromDirectory, FlagsOfCur, CasAreCas, NoCaMissing, LoadingDir, LoadingCert, CA
<1> QED  BY <1>1, <1>3, <1>4

LEMMA CertsCloseDir ==
  ASSUME RInv, CInv, CloseDir
  PROVE  CInv'
<1>1. /\ pc = "entries" /\ pc' = "dirs" /\ todo' = Tail(todo) /\ unread' = {}
      /\ unread = {} \/ \E e \in unread : e.kind = "longName"
      /\ UNCHANGED <<disk, mCertList, failures, what>>
  BY DEF CloseDir
<1>2. todo # <<>> /\ LoadingDir /\ ~LoadingCert
  BY <1>1 DEF RInv, Places, LoadingDir, LoadingCert
<1>3. /\ Head(todo) = "ca" <=> todo = CertDirs
      /\ Tail(todo) \in Seq(ToSet(CertDirs)) /\ Tail(todo) # CertDirs
      /\ \A i \in 1..Len(Tail(todo)) : Tail(todo)[i] # "ca"
  BY <1>2, DirsInOrder DEF CInv
<1>4. CaFirst'  BY <1>1, <1>3 DEF CInv, CaFirst
<1>5. ~LoadingDir' /\ ~LoadingCert'  BY <1>1 DEF LoadingDir, LoadingCert
<1>6. CASE todo = CertDirs
  <2>1. unread \subseteq CA  BY <1>2, <1>3, <1>6 DEF CInv, FromDirectory, CA
  <2>2. (\A e \in CA : e.kind # "longName") => unread = {}  BY <1>1, <2>1
  <2>3. NoCaMissing'
    BY <1>1, <1>2, <1>5, <1>6, <2>2 DEF CInv, NoCaMissing, IsListed, CA
  <2> QED  BY <1>1, <1>4, <1>5, <2>3 DEF CInv, FromDirectory, FlagsOfCur, CasAreCas, CA
<1>7. CASE todo # CertDirs
  <2>1. NoCaMissing'  BY <1>1, <1>2, <1>3, <1>5, <1>7 DEF CInv, NoCaMissing, IsListed, CA
  <2> QED  BY <1>1, <1>4, <1>5, <2>1 DEF CInv, FromDirectory, FlagsOfCur, CasAreCas, CA
<1> QED  BY <1>6, <1>7

\* An entry that is not a CA's is passed over, and nothing else changes.
LEMMA CertsPassedOver ==
  ASSUME RInv, CInv, LoadingDir, pc' = "entries",
         UNCHANGED <<disk, todo, mCertList>>, failures' \in Nat,
         failures' = 0 => failures = 0,
         unread' \subseteq unread,
         failures' = 0 => \A e \in CA : GoodCa(e) =>
           (e \in unread => e \in unread') /\ (LoadingCert => e # cur)
  PROVE  CInv'
<1>1. CaFirst'  BY DEF CInv, CaFirst
<1>2. LoadingDir' /\ ~LoadingCert'  BY DEF LoadingDir, LoadingCert
<1>3. FromDirectory' /\ FlagsOfCur' /\ CasAreCas'
  BY <1>2 DEF CInv, FromDirectory, FlagsOfCur, CasAreCas, CA
<1>4. NoCaMissing'  BY <1>2 DEF CInv, NoCaMissing, IsListed, CA
<1> QED  BY <1>1, <1>3, <1>4 DEF CInv

\* The list grows by a certificate of another directory, or by the CA at hand.
LEMMA CertsListed ==
  ASSUME RInv, CInv, LoadingDir, NEW new,
         mCertList' = Append(mCertList, new), pc' \in {"entries", "crashed"},
         UNCHANGED <<disk, todo, failures>>, unread' \subseteq unread,
         new.dir = Head(todo),
         \/ Head(todo) # "ca"
         \/ /\ unread' = unread /\ LoadingCert /\ new.entry = cur
            /\ new.x509 = "cert" /\ MakesCa(cur.exts)
  PROVE  CInv'
<1>1. CaFirst'  BY DEF CInv, CaFirst
<1>2. (LoadingDir' => pc' = "entries") /\ ~LoadingCert'  BY DEF LoadingDir, LoadingCert
<1>3. FromDirectory' /\ FlagsOfCur'
  BY <1>2 DEF CInv, FromDirectory, FlagsOfCur
<1>4. ToSet(mCertList') = ToSet(mCertList) \union {new}
  BY Appended DEF RInv, Counters
<1>5. todo # <<>>  BY DEF RInv, Places, LoadingDir, LoadingCert
<1>6. Head(todo) = "ca" <=> todo = CertDirs  BY <1>5, DirsInOrder DEF CInv
<1>7. Head(todo) = "ca" => cur \in CA /\ LoadingCert  BY DEF CInv, FromDirectory, CA
<1>8. CasAreCas'  BY <1>4, <1>7 DEF CInv, CasAreCas, CA
<1>9. NoCaMissing'
  <2>1. Head(todo) = "ca" => \A e : e = cur => \E c \in ToSet(mCertList') : c.dir = "ca" /\ c.entry = e
    BY <1>4
  <2>2. \A e : IsListed(e) => \E c \in ToSet(mCertList') : c.dir = "ca" /\ c.entry = e
    BY <1>4 DEF IsListed
  <2> QED  BY <1>2, <1>6, <2>1, <2>2 DEF CInv, NoCaMissing, IsListed, CA
<1> QED  BY <1>1, <1>3, <1>8, <1>9 DEF CInv

LEMMA CertsFileStep ==
  ASSUME RInv, CInv, NEW why \in {"cert", "secrets", "key"}, File(why)
  PROVE  CInv'
<1>1. /\ UNCHANGED <<disk, what, todo, unread, cur, cert, mCertList>> /\ what = why
      /\ pc \in {"open", "size", "read"}
      /\ failures' \in Nat /\ (failures' = 0 => failures = 0)
  BY DEF File, OpenFile, SizeFile, ReadFile, certificates, Fails, Works, CInv, CaFirst
<1>2. CaFirst'  BY <1>1 DEF CInv, CaFirst
<1>3. CASE why # "cert"
  <2>1. pc' \in {"size", "read", "lines", "key"}
    BY <1>1, <1>3 DEF File, OpenFile, SizeFile, ReadFile, Back
  <2> QED  BY <1>1, <1>2, <1>3, <2>1, CertsApart DEF LoadingDir, LoadingCert
<1>4. CASE why = "cert" /\ pc' \in {"size", "read", "cert"}
  <2>1. LoadingCert /\ LoadingDir /\ LoadingCert' /\ LoadingDir' /\ pc' # "made" /\ pc' # "dirs"
    BY <1>1, <1>4 DEF LoadingDir, LoadingCert
  <2> QED
    BY <1>1, <1>2, <2>1
    DEF CInv, FromDirectory, FlagsOfCur, CasAreCas, NoCaMissing, IsListed, CA
<1>5. CASE why = "cert" /\ pc' \notin {"size", "read", "cert"}
  <2>1. pc' = "entries" /\ (failures' # 0 \/ cur.content = "text")
    BY <1>1, <1>5
    DEF File, OpenFile, SizeFile, ReadFile, Back, Content, Fails, Works, CInv, CaFirst
  <2>2. LoadingDir  BY <1>1, <1>5 DEF LoadingDir, LoadingCert
  <2>3. failures' = 0 => \A e \in CA : GoodCa(e) => e # cur  BY <2>1 DEF GoodCa
  <2> QED  BY <1>1, <2>1, <2>2, <2>3, CertsPassedOver
<1> QED  BY <1>3, <1>4, <1>5

LEMMA CertsDecoded ==
  ASSUME RInv, CInv, LoadX509Cert
  PROVE  CInv'
<1>1. /\ pc = "cert" /\ UNCHANGED <<disk, what, todo, unread, cur, mCertList>>
      /\ failures' \in Nat /\ (failures' = 0 => failures = 0)
      /\ \/ /\ pc' = "made" /\ cert'.flags = {}
            /\ failures' # 0 \/ cur.content \notin {"pem", "der"}
         \/ /\ pc' = "made" /\ cert'.x509 = "cert" /\ cert'.flags \in ParsedFlags(cur.exts)
         \/ pc' = "crashed"
  BY DEF LoadX509Cert, NoCert, Fails, Works, CInv, CaFirst
<1>2. CaFirst'  BY <1>1 DEF CInv, CaFirst
<1>3. CASE pc' = "made"
  <2>1. LoadingCert /\ LoadingDir /\ LoadingCert' /\ LoadingDir'
    BY <1>1, <1>3 DEF LoadingDir, LoadingCert
  <2>2. FlagsOfCur'  BY <1>1, <1>3 DEF FlagsOfCur
  <2>3. FromDirectory' /\ CasAreCas' /\ NoCaMissing'
    BY <1>1, <1>3, <2>1 DEF CInv, FromDirectory, CasAreCas, NoCaMissing, IsListed, CA
  <2> QED  BY <1>2, <2>2, <2>3 DEF CInv
<1>4. CASE pc' = "crashed"
  BY <1>1, <1>2, <1>4, CertsApart DEF LoadingDir, LoadingCert
<1> QED  BY <1>1, <1>3, <1>4

LEMMA CertsMade ==
  ASSUME RInv, CInv, ListCert
  PROVE  CInv'
<1> DEFINE new == [dir |-> Head(todo), entry |-> cur, x509 |-> cert.x509,
                   flags |-> cert.flags \union (IF Head(todo) = "aa" THEN {"AA"} ELSE {})]
           drops == Head(todo) = "ca" /\ "CA" \notin cert.flags
<1>1. pc = "made" /\ UNCHANGED <<disk, what, todo, unread, cur, cert, failures>>
  BY DEF ListCert, reading
<1>2. LoadingDir /\ LoadingCert /\ todo # <<>> /\ failures \in Nat /\ disk \in Disks
  BY <1>1 DEF LoadingDir, LoadingCert, RInv, Places, CInv, CaFirst
<1>3. CASE drops
  <2>1. pc' = "entries" /\ UNCHANGED mCertList  BY <1>3 DEF ListCert
  <2>2. ASSUME failures = 0, GoodCa(cur) PROVE FALSE
    <3>1. cert.flags \in ParsedFlags(cur.exts)
      BY <1>1, <2>2 DEF CInv, FlagsOfCur, GoodCa
    <3> QED  BY <1>3, <2>2, <3>1 DEF GoodCa, SurelyCa
  <2> QED  BY <1>1, <1>2, <2>1, <2>2, CertsPassedOver
<1>4. CASE ~drops
  <2>1. mCertList' = Append(mCertList, new) /\ pc' \in {"entries", "crashed"}
    BY <1>4 DEF ListCert
  <2>2. Head(todo) = "ca" => cert.x509 = "cert" /\ MakesCa(cur.exts)
    <3>1. SUFFICES ASSUME Head(todo) = "ca"
                   PROVE  cert.x509 = "cert" /\ MakesCa(cur.exts)
      OBVIOUS
    <3>2. "CA" \in cert.flags  BY <1>4, <3>1
    <3>3. cert.x509 = "cert" /\ cert.flags \in ParsedFlags(cur.exts)
      BY <1>1, <3>2 DEF CInv, FlagsOfCur
    <3>4. cur \in disk.dirs["ca"]  BY <1>2, <3>1 DEF CInv, FromDirectory
    <3>5. "ca" \in ToSet(CertDirs)
      <4>1. 1 \in DOMAIN CertDirs /\ CertDirs[1] = "ca"  BY DEF CertDirs
      <4> QED  BY <4>1 DEF ToSet
    <3>6. IsSeq(cur.exts)
      <4>1. cur.exts \in Seq(ToSet(cur.exts))  BY <1>2, <3>4, <3>5, DisksAssumption
      <4> QED  BY <4>1 DEF IsSeq
    <3> QED  BY <3>2, <3>3, <3>6, CaFlagIsGranted
  <2>3. new.dir = Head(todo) /\ new.entry = cur /\ new.x509 = cert.x509  OBVIOUS
  <2> HIDE DEF new
  <2> QED  BY <1>1, <1>2, <2>1, <2>2, <2>3, CertsListed
<1> QED  BY <1>3, <1>4

LEMMA CertsByType ==
  ASSUME RInv, CInv, NEW e \in unread, LoadCertByType(e)
  PROVE  CInv'
<1>1. /\ pc = "entries" /\ e.kind = "regular" /\ unread' = unread \ {e} /\ cur' = e
      /\ UNCHANGED <<disk, todo, failures>>
  BY DEF LoadCertByType
<1>2. LoadingDir /\ ~LoadingCert  BY <1>1 DEF LoadingDir, LoadingCert
<1>3. CASE Head(todo) \in {"ac", "crl"}
  <2> DEFINE new == Unread(Head(todo), e)
  <2>1. mCertList' = Append(mCertList, new) /\ pc' = "entries"
    BY <1>1, <1>3 DEF LoadCertByType
  <2>2. new.dir = Head(todo) /\ Head(todo) # "ca"  BY <1>3 DEF Unread
  <2> HIDE DEF new
  <2> QED  BY <1>1, <1>2, <2>1, <2>2, CertsListed
<1>4. CASE Head(todo) \notin {"ac", "crl"}
  <2>1. pc' = "open" /\ what' = "cert" /\ UNCHANGED mCertList  BY <1>4 DEF LoadCertByType
  <2>2. LoadingDir' /\ LoadingCert'  BY <2>1 DEF LoadingDir, LoadingCert
  <2>3. CaFirst' /\ FlagsOfCur' /\ CasAreCas'
    BY <1>1, <2>1 DEF CInv, CaFirst, FlagsOfCur, CasAreCas, CA
  <2>4. FromDirectory'  BY <1>1, <1>2, <2>1 DEF CInv, FromDirectory
  <2>5. NoCaMissing'  BY <1>1, <1>2, <2>1, <2>2 DEF CInv, NoCaMissing, IsListed, CA
  <2> QED  BY <2>3, <2>4, <2>5 DEF CInv
<1> QED  BY <1>3, <1>4

LEMMA CertsStep == RInv /\ CInv /\ [CredentialsNext]_credVars => CInv'
<1> SUFFICES ASSUME RInv, CInv, [CredentialsNext]_credVars PROVE CInv'  OBVIOUS
<1> USE DEF reading, certificates
<1>1. ASSUME NEW why \in {"cert", "secrets", "key"}, File(why) PROVE CInv'
  BY <1>1, CertsFileStep
<1>2. CASE LoadCerts
  <2>1. /\ pc' = "dirs" /\ todo' = CertDirs /\ UNCHANGED <<disk, failures, mCertList>>
    BY <1>2 DEF LoadCerts
  <2>2. CertDirs \in Seq(ToSet(CertDirs))
    <3>1. CertDirs = [i \in 1..5 |-> CertDirs[i]] /\ DOMAIN CertDirs = 1..5
      BY DEF CertDirs
    <3>2. \A i \in 1..5 : CertDirs[i] \in ToSet(CertDirs)  BY <3>1 DEF ToSet
    <3> QED  BY ONLY <3>1, <3>2
  <2>3. CaFirst'  BY <2>1, <2>2 DEF CInv, CaFirst
  <2> QED
    BY <2>1, <2>3
    DEF CInv, FromDirectory, FlagsOfCur, CasAreCas, NoCaMissing, LoadingDir, LoadingCert, CA
<1>3. CASE OpenDir  BY <1>3, CertsOpenDir
<1>4. CASE CloseDir  BY <1>4, CertsCloseDir
<1>5. CASE DirsDone
  <2>1. pc' = "idle" /\ UNCHANGED <<disk, failures, todo, mCertList>>  BY <1>5 DEF DirsDone
  <2>2. CaFirst'  BY <2>1 DEF CInv, CaFirst
  <2> QED  BY <2>1, <2>2, CertsApart DEF LoadingDir, LoadingCert
<1>6. ASSUME NEW e \in unread, SkipEntry(e) PROVE CInv'
  <2>1. /\ pc = "entries" /\ pc' = "entries" /\ UNCHANGED <<disk, todo, mCertList>>
        /\ unread' = unread \ {e}
        /\ failures' \in Nat /\ (failures' = 0 => failures = 0 /\ e.kind = "special")
    BY <1>6 DEF SkipEntry, Fails, Works, CInv, CaFirst
  <2>2. LoadingDir /\ ~LoadingCert  BY <2>1 DEF LoadingDir, LoadingCert
  <2>3. failures' = 0 => ~GoodCa(e)  BY <2>1 DEF GoodCa
  <2> QED  BY <2>1, <2>2, <2>3, CertsPassedOver
<1>7. ASSUME NEW e \in unread, LoadCertByType(e) PROVE CInv'  BY <1>7, CertsByType
<1>8. CASE LoadX509Cert  BY <1>8, CertsDecoded
<1>9. CASE ListCert  BY <1>9, CertsMade
<1>10. ASSUME LoadSecrets \/ ReadSecretsLine \/ SecretsDone \/ LoadPriKey PROVE CInv'
  <2>1. /\ UNCHANGED <<disk, todo, mCertList>> /\ failures' \in Nat
        /\ \/ pc' \in {"lines", "idle"}
           \/ pc' = "open" /\ what' \in {"secrets", "key"}
    BY <1>10 DEF LoadSecrets, ReadSecretsLine, SecretsDone, LoadPriKey, Fails, Works, CInv, CaFirst
  <2>2. CaFirst'  BY <2>1 DEF CInv, CaFirst
  <2> QED  BY <2>1, <2>2, CertsApart DEF LoadingDir, LoadingCert
<1>11. CASE UNCHANGED credVars
  BY <1>11 DEF credVars, CInv, CaFirst, FromDirectory, FlagsOfCur, CasAreCas, NoCaMissing,
               IsListed, LoadingDir, LoadingCert, CA
<1> QED
  BY <1>1, <1>2, <1>3, <1>4, <1>5, <1>6, <1>7, <1>8, <1>9, <1>10, <1>11
  DEF CredentialsNext, getCertEncoding, getKeyEncoding, getChunkFromFile

\* What is listed from the CA directory is the certificate of a CA, and no CA
\* of the directory is missing once it was loaded and nothing failed.
THEOREM CaDirectoryIsLoaded == CredentialsSpec => []CaDirectoryLoaded
<1>1. CInv => CaDirectoryLoaded
  BY DEF CInv, CasAreCas, NoCaMissing, CaDirectoryLoaded, MakesCa, GoodCa, IsListed, Listed,
         LoadingDir, CA
<1> QED
  BY ResourcesInit, ResourcesStep, CertsInit, CertsStep, <1>1, PTL DEF CredentialsSpec
-----------------------------------------------------------------------------
(* Folds over sequences. *)

\* Numbers have a least one.
LEMMA LeastExists ==
  ASSUME NEW T, T \subseteq Nat, T # {}
  PROVE  \E m \in T : \A n \in T : m <= n
<1> DEFINE R == {ss \in Nat \X Nat : ss[1] < ss[2]}
<1>1. IsWellFoundedOn(R, Nat)
  BY NatLessThanWellFounded, Zenon DEF OpToRel
<1>2. \A x, y \in Nat : x < y => <<x, y>> \in R
  BY SMT
<1> HIDE DEF R
<1>3. PICK m \in T : \A n \in T : ~ (<<n, m>> \in R)
  BY <1>1, WFMin
<1>4. ASSUME NEW n \in T PROVE m <= n
  <2>1. ~ (n < m)
    BY <1>2, <1>3
  <2>2. QED
    BY <2>1, SMT
<1>5. QED
  BY <1>4

\* A greatest member is the one that Max chooses.
LEMMA MaxIs ==
  ASSUME NEW s, NEW k, k \in s, s \subseteq Nat, \A x \in s : x <= k
  PROVE  Max(s) = k
<1>1. \A x \in s : k >= x
  BY SMT
<1>2. \A m \in s : (\A x \in s : m >= x) => m = k
  BY SMT
<1>3. QED
  BY <1>1, <1>2, Zenon DEF Max

\* A bounded set that is not empty has a greatest member.
LEMMA MaxIsGreatest ==
  ASSUME NEW N \in Nat, NEW s, s \subseteq 0..N, s # {}
  PROVE  Max(s) \in s /\ \A x \in s : x <= Max(s)
<1> DEFINE T == {n \in Nat : \A x \in s : x <= n}
<1>1. N \in T
  OBVIOUS
<1>2. PICK m \in T : \A n \in T : m <= n
  BY <1>1, LeastExists, T \subseteq Nat
<1>3. m \in s
  <2>1. SUFFICES ASSUME m \notin s PROVE FALSE
    OBVIOUS
  <2>2. \A x \in s : x \in Nat /\ x <= m - 1 /\ m - 1 \in Nat
    BY <1>2, <2>1
  <2>3. m - 1 \in T
    BY <2>2
  <2>4. QED
    BY <1>2, <2>3
<1>4. s \subseteq Nat /\ \A x \in s : x <= m
  BY <1>2
<1>5. QED
  BY <1>3, <1>4, MaxIs

\* A fold over a sequence takes the last place out of a set of places.
IsFold(h, N, V, base, step) ==
  /\ h \in [SUBSET (1..N) -> V]
  /\ h[{}] = base
  /\ \A s \in SUBSET (1..N) : s # {} => h[s] = step[<<h[s \ {Max(s)}], Max(s)>>]

\* Such a function exists: its domain grows by one place at a time.
LEMMA SetRecursion ==
  ASSUME NEW N \in Nat, NEW V, NEW base \in V, NEW step \in [V \X (1..N) -> V]
  PROVE  \E h : IsFold(h, N, V, base, step)
<1> DEFINE FoldsTo(h, n) ==
             /\ h[{}] = base
             /\ \A s \in SUBSET (1..n) : s # {} => h[s] = step[<<h[s \ {Max(s)}], Max(s)>>]
           T == {n \in 0..N : ~ \E h \in [SUBSET (1..n) -> V] : FoldsTo(h, n)}
<1>1. SUFFICES ASSUME T # {} PROVE FALSE
  BY N \in 0..N, Zenon DEF IsFold
<1>2. PICK m \in T : \A n \in T : m <= n
  BY <1>1, LeastExists, T \subseteq Nat
<1>3. CASE m = 0
  <2> DEFINE h == [s \in SUBSET (1..0) |-> base]
  <2>1. 1..0 = {}
    BY SMT
  <2>2. h \in [SUBSET (1..m) -> V] /\ FoldsTo(h, m)
    BY <1>3, <2>1, Zenon
  <2>3. QED
    BY <2>2
<1>4. CASE m # 0
  <2>0. m \in 0..N
    BY <1>2, Zenon
  <2>1. m \in 1..N /\ m - 1 \in 0..N /\ m - 1 \notin T
    <3>1. m \in 1..N /\ m - 1 \in 0..N /\ ~ (m <= m - 1)
      BY <2>0, <1>4, SMT
    <3>2. QED
      BY <3>1, <1>2, Zenon
  <2>2. PICK g \in [SUBSET (1..(m - 1)) -> V] : FoldsTo(g, m - 1)
    BY <2>1
  <2>3. \A s \in SUBSET (1..m) : s \ {m} \in SUBSET (1..(m - 1))
    BY <2>1, SMT
  <2>4. \A s \in SUBSET (1..m) : m \notin s => s \ {m} = s
    OBVIOUS
  <2> DEFINE h == [s \in SUBSET (1..m) |->
                     IF m \in s THEN step[<<g[s \ {m}], m>>] ELSE g[s \ {m}]]
  <2>5. h \in [SUBSET (1..m) -> V]
    <3>1. ASSUME NEW s \in SUBSET (1..m)
          PROVE  g[s \ {m}] \in V /\ step[<<g[s \ {m}], m>>] \in V
      BY <2>1, <2>3, Zenon
    <3>2. QED
      BY <3>1, Zenon
  <2>6. \A s \in SUBSET (1..m) : /\ m \in s => h[s] = step[<<g[s \ {m}], m>>]
                                 /\ m \notin s => h[s] = g[s]
    BY <2>4, Zenon
  <2> HIDE DEF h
  <2>7. h[{}] = base
    <3>1. {} \in SUBSET (1..m) /\ m \notin {}
      OBVIOUS
    <3>2. QED
      BY <3>1, <2>6, <2>2, Zenon
  <2>8. ASSUME NEW s \in SUBSET (1..m), s # {}
        PROVE  h[s] = step[<<h[s \ {Max(s)}], Max(s)>>]
    <3>1. CASE m \in s
      <4>1. Max(s) = m
        <5>1. s \subseteq Nat /\ \A x \in s : x <= m
          BY <2>1, SMT
        <5>2. QED
          BY <3>1, <5>1, MaxIs
      <4>2. h[s \ {m}] = g[s \ {m}]
        <5>1. s \ {m} \in SUBSET (1..m) /\ m \notin s \ {m}
          OBVIOUS
        <5>2. QED
          BY <5>1, <2>6, Zenon
      <4>3. QED
        BY <3>1, <4>1, <4>2, <2>6, Zenon
    <3>2. CASE m \notin s
      <4>1. s \in SUBSET (1..(m - 1))
        BY <3>2, <2>3, <2>4, Zenon
      <4>2. g[s] = step[<<g[s \ {Max(s)}], Max(s)>>]
        BY <4>1, <2>2, <2>8, Zenon
      <4>3. h[s \ {Max(s)}] = g[s \ {Max(s)}] /\ h[s] = g[s]
        <5>1. s \ {Max(s)} \in SUBSET (1..m) /\ m \notin s \ {Max(s)}
          BY <3>2, Zenon
        <5>2. QED
          BY <5>1, <3>2, <2>6, Zenon
      <4>4. QED
        BY <4>2, <4>3, Zenon
    <3>3. QED
      BY <3>1, <3>2
  <2>9. QED
    BY <2>5, <2>7, <2>8, Zenon
<1>5. QED
  BY <1>3, <1>4
-----------------------------------------------------------------------------
(* convertPEM2BIN: what a text of quads is decoded to. *)

\* What one more place adds to the length.
Added(d, n, j) ==
  LET begun == n + (IF j % 4 = 1 THEN 3 ELSE 0)
  IN  IF d[j] = "=" /\ begun > 0 THEN begun - 1 ELSE begun

Counts(f, d) ==
  /\ f \in [0..Len(d) -> Nat]
  /\ f[0] = 0
  /\ \A j \in 1..Len(d) : f[j] = Added(d, f[j - 1], j)

\* DecodedLen is counted place by place.
LEMMA DecodedLenIs ==
  ASSUME NEW S, NEW d \in Seq(S)
  PROVE  \E f : Counts(f, d) /\ DecodedLen(d) = f[Len(d)]
<1> DEFINE L == Len(d)
           step == [x \in Nat \X (1..L) |-> Added(d, x[1], x[2])]
           places == [i \in DOMAIN d |-> i]
           Eq(iter) == iter = [s \in SUBSET DOMAIN places |->
                         IF s = {} THEN 0
                         ELSE LET x == Max(s)
                              IN  LET begun == iter[s \ {x}] + (IF places[x] % 4 = 1 THEN 3 ELSE 0)
                                  IN  IF d[places[x]] = "=" /\ begun > 0 THEN begun - 1 ELSE begun]
           fold == CHOOSE iter : Eq(iter)
<1>1. DecodedLen(d) = fold[DOMAIN places]
  BY Zenon DEF DecodedLen, FoldLeftDomain, FoldLeft, MapThenFoldSet
<1>2. DOMAIN d = 1..L /\ L \in Nat
  OBVIOUS
<1>3. DOMAIN places = 1..L /\ \A i \in 1..L : places[i] = i
  BY <1>2
<1> HIDE DEF places, L
<1>4. \A x \in Nat \X (1..L) : x[1] \in Nat /\ x[2] \in 1..L
  OBVIOUS
<1>5. \A n \in Nat, j \in 1..L : Added(d, n, j) \in Nat
  <2> TAKE n \in Nat, j \in 1..L
  <2> DEFINE begun == n + (IF j % 4 = 1 THEN 3 ELSE 0)
  <2>1. begun \in Nat
    BY <1>2
  <2>2. begun > 0 => begun - 1 \in Nat
    BY <2>1, SMT
  <2> HIDE DEF begun
  <2>3. (IF d[j] = "=" /\ begun > 0 THEN begun - 1 ELSE begun) \in Nat
    BY <2>1, <2>2
  <2>4. QED
    BY <2>3 DEF Added, begun
<1>6. step \in [Nat \X (1..L) -> Nat]
  BY <1>4, <1>5
<1>7. \A n \in Nat, j \in 1..L : step[<<n, j>>] = Added(d, n, j)
  OBVIOUS
<1> HIDE DEF step
<1>8p. PICK h : IsFold(h, L, Nat, 0, step)
  BY <1>2, <1>6, SetRecursion, 0 \in Nat
<1>8. /\ h \in [SUBSET (1..L) -> Nat]
      /\ h[{}] = 0
      /\ \A s \in SUBSET (1..L) : s # {} => h[s] = step[<<h[s \ {Max(s)}], Max(s)>>]
  BY <1>8p, Zenon DEF IsFold
<1>9. \A s \in SUBSET (1..L) : s # {} => /\ Max(s) \in s
                                       /\ s \ {Max(s)} \in SUBSET (1..L)
  <2> TAKE s \in SUBSET (1..L)
  <2> HAVE s # {}
  <2>1. Max(s) \in s
    <3>1. s \subseteq 0..L
      BY <1>2
    <3>2. QED
      BY <3>1, <1>2, MaxIsGreatest
  <2>2. QED
    BY <2>1
<1>10. Eq(h)
  <2> DEFINE Val(s) == IF s = {} THEN 0
                         ELSE LET x == Max(s)
                              IN  LET begun == h[s \ {x}] + (IF places[x] % 4 = 1 THEN 3 ELSE 0)
                                  IN  IF d[places[x]] = "=" /\ begun > 0 THEN begun - 1 ELSE begun
  <2>1. ASSUME NEW s \in SUBSET (1..L) PROVE h[s] = Val(s)
    <3>1. CASE s = {}
      BY <3>1, <1>8
    <3>2. CASE s # {}
      <4>1. Max(s) \in 1..L /\ h[s \ {Max(s)}] \in Nat /\ places[Max(s)] = Max(s)
        <5>1. Max(s) \in s /\ s \ {Max(s)} \in SUBSET (1..L)
          BY <3>2, <1>9, Zenon
        <5>2. h[s \ {Max(s)}] \in Nat
          BY <5>1, <1>8, Zenon
        <5>3. Max(s) \in 1..L
          BY <5>1
        <5>4. QED
          BY <5>2, <5>3, <1>3
      <4>2. h[s] = Added(d, h[s \ {Max(s)}], Max(s))
        BY <4>1, <3>2, <1>7, <1>8, Zenon
      <4>3. QED
        BY <4>1, <4>2, <3>2, Zenon DEF Added
    <3>3. QED
      BY <3>1, <3>2
  <2>2. h = [s \in SUBSET (1..L) |-> h[s]]
    BY <1>8, Zenon
  <2>3. [s \in SUBSET (1..L) |-> h[s]] = [s \in SUBSET (1..L) |-> Val(s)]
    BY <2>1, Zenon
  <2>4. QED
    BY <2>2, <2>3, <1>3, Zenon
<1>11. Eq(fold)
  BY <1>10, Zenon
<1> HIDE DEF fold
<1>12. \A s \in SUBSET (1..L) :
         /\ s = {} => fold[s] = 0
         /\ s # {} => fold[s] = Added(d, fold[s \ {Max(s)}], Max(s))
  <2> DEFINE Val(s) == IF s = {} THEN 0
                         ELSE LET x == Max(s)
                              IN  LET begun == fold[s \ {x}] + (IF places[x] % 4 = 1 THEN 3 ELSE 0)
                                  IN  IF d[places[x]] = "=" /\ begun > 0 THEN begun - 1 ELSE begun
  <2>1. \A s \in SUBSET (1..L) : fold[s] = Val(s)
    BY <1>3, <1>11, Zenon
  <2>2. \A s \in SUBSET (1..L) : s # {} => places[Max(s)] = Max(s)
    BY <1>3, <1>9
  <2>3. QED
    BY <2>1, <2>2, Zenon DEF Added
<1> DEFINE f == [j \in 0..L |-> fold[1..j]]
<1>13. f[0] = 0
  <2>1. 1..0 = {} /\ 0 \in 0..L /\ {} \in SUBSET (1..L)
    BY <1>2
  <2>2. QED
    BY <2>1, <1>12
<1>14. \A j \in 1..L : f[j] = Added(d, f[j - 1], j)
  <2> TAKE j \in 1..L
  <2>1. /\ 1..j \in SUBSET (1..L) /\ 1..j # {} /\ (1..j) \ {j} = 1..(j - 1)
        /\ 1..j \subseteq Nat /\ j \in 1..j /\ \A x \in 1..j : x <= j
        /\ j \in 0..L /\ j - 1 \in 0..L
    <3>1. j \in Nat /\ j >= 1 /\ j <= L
      BY <1>2
    <3>2. (1..j) \ {j} = 1..(j - 1)
      BY <3>1
    <3>3. 1..j \subseteq 1..L
      BY <3>1, <1>2
    <3>4. 1..j \subseteq Nat /\ j \in 1..j /\ \A x \in 1..j : x <= j
      BY <3>1
    <3>5. j \in 0..L /\ j - 1 \in 0..L
      BY <3>1, <1>2
    <3>6. QED
      BY <3>2, <3>3, <3>4, <3>5, Zenon
  <2>2. Max(1..j) = j
    BY <2>1, MaxIs
  <2>3. fold[1..j] = Added(d, fold[1..(j - 1)], j)
    BY <2>1, <2>2, <1>12, Zenon
  <2>4. QED
    BY <2>1, <2>3
<1>15. L \in 0..L /\ f[L] = fold[1..L]
  BY <1>2
<1>16. f \in [0..L -> Nat]
  <2> DEFINE T == {j \in 0..L : f[j] \notin Nat}
  <2>1. SUFFICES ASSUME T # {} PROVE FALSE
    BY DEF T
  <2>2. PICK m \in T : \A j \in T : m <= j
    BY <2>1, LeastExists, T \subseteq Nat
  <2>3. m # 0
    BY <1>13, <2>2
  <2>4. m - 1 \in 0..L /\ m - 1 \notin T /\ m \in 1..L
    BY <1>2, <2>2, <2>3, SMT
  <2>5. f[m - 1] \in Nat
    BY <2>4
  <2>6. f[m] \in Nat
    BY <2>4, <2>5, <1>5, <1>14, Zenon
  <2>7. QED
    BY <2>2, <2>6
<1> HIDE DEF f
<1>17. Counts(f, d)
  BY <1>13, <1>14, <1>16 DEF Counts, L
<1>18. QED
  BY <1>1, <1>3, <1>15, <1>17 DEF L

\* Three bytes a quad begun, if nothing is padding.
LEMMA LenIs ==
  ASSUME NEW S, NEW d \in Seq(S), NEW f, Counts(f, d), NEW n \in 0..Len(d)
  PROVE  /\ f[n] \in Nat
         /\ f[n] <= 3 * ((n + 3) \div 4)
         /\ (\A i \in 1..n : d[i] # "=") => f[n] = 3 * ((n + 3) \div 4)
<1> DEFINE Full(m) == 3 * ((m + 3) \div 4)
           Good(m) == /\ f[m] <= Full(m)
                      /\ (\A i \in 1..m : d[i] # "=") => f[m] = Full(m)
           T == {m \in 0..n : ~ Good(m)}
<1>1. Len(d) \in Nat /\ n \in Nat /\ n <= Len(d)
  OBVIOUS
<1>2. \A m \in 0..n : f[m] \in Nat
  BY <1>1 DEF Counts
<1>3. T = {}
  <2>1. SUFFICES ASSUME T # {} PROVE FALSE
    OBVIOUS
  <2>2. PICK m \in T : \A k \in T : m <= k
    BY <2>1, LeastExists, T \subseteq Nat
  <2>3. CASE m = 0
    <3>1. Full(0) = 0 /\ f[0] = 0
      BY SMT DEF Counts
    <3>2. QED
      BY <2>2, <2>3, <3>1
  <2>4. CASE m # 0
    <3>1. m \in 1..n /\ m - 1 \in 0..n /\ ~ (m <= m - 1) /\ m \in 1..Len(d) /\ m \in Nat
      BY <2>2, <2>4, <1>1
    <3>2. Good(m - 1)
      BY <3>1, <2>2, Zenon
    <3>3. f[m] = Added(d, f[m - 1], m)
      BY <3>1 DEF Counts
    <3>4. Full(m) = Full(m - 1) + (IF m % 4 = 1 THEN 3 ELSE 0)
      BY <3>1, SMT
    <3>5. f[m - 1] \in Nat /\ Full(m - 1) \in Nat /\ f[m - 1] <= Full(m - 1)
      BY <3>1, <3>2, <1>2
    <3> DEFINE begun == f[m - 1] + (IF m % 4 = 1 THEN 3 ELSE 0)
    <3>6. begun \in Nat /\ begun <= Full(m) /\ (f[m - 1] = Full(m - 1) => begun = Full(m))
      BY <3>1, <3>4, <3>5
    <3>7. f[m] = IF d[m] = "=" /\ begun > 0 THEN begun - 1 ELSE begun
      BY <3>3, Zenon DEF Added
    <3>8. ASSUME \A i \in 1..m : d[i] # "=" PROVE d[m] # "=" /\ f[m - 1] = Full(m - 1)
      <4>1. m \in 1..m /\ \A i \in 1..(m - 1) : i \in 1..m
        BY <3>1
      <4>2. QED
        BY <4>1, <3>2, <3>8, Zenon
    <3>9a. Full(m) \in Int
      BY <3>1
    <3> HIDE DEF begun, Full
    <3>9. f[m] <= Full(m)
      BY <3>6, <3>7, <3>5, <3>9a
    <3>10. QED
      BY <3>6, <3>7, <3>8, <3>9, <2>2
  <2>5. QED
    BY <2>3, <2>4
<1>4. n \in 0..n
  BY <1>1
<1>5. QED
  BY <1>2, <1>3, <1>4

\* A text of whole quads.
Quads(d) == Len(d) % 4 = 0
Unpadded(d) == \A i \in 1..Len(d) : d[i] # "="
\* In every quad something is no padding.
Digited(d) == \A q \in 1..Len(d) \div 4 : \E j \in 4 * q - 3..4 * q : d[j] # "="

\* There is always something that padding can take away.
LEMMA NeverShort ==
  ASSUME NEW S, NEW d \in Seq(S), NEW f, Counts(f, d), Quads(d), Digited(d),
         NEW j \in 1..Len(d), d[j] = "="
  PROVE  f[j - 1] + (IF j % 4 = 1 THEN 3 ELSE 0) > 0
<1> DEFINE q == (j + 3) \div 4
           k == 4 * q - 4
<1>1. Len(d) \in Nat /\ j \in Nat /\ j >= 1 /\ j <= Len(d)
  OBVIOUS
<1>2. /\ q \in Nat /\ q >= 1 /\ q <= Len(d) \div 4 /\ k \in Nat /\ k + 4 <= Len(d)
      /\ j \in {k + 1, k + 2, k + 3, k + 4}
      /\ (k + 1) % 4 = 1 /\ (k + 2) % 4 = 2 /\ (k + 3) % 4 = 3 /\ (k + 4) % 4 = 0
      /\ 4 * q - 3 = k + 1 /\ 4 * q = k + 4
  BY <1>1, SMT DEF Quads
<1>3. PICK i \in (k + 1)..(k + 4) : d[i] # "="
  BY <1>2 DEF Digited
<1> HIDE DEF q, k
<1>4. f[k] \in Nat /\ f[k + 1] \in Nat /\ f[k + 2] \in Nat /\ f[k + 3] \in Nat
  <2>1. k \in 0..Len(d) /\ k + 1 \in 0..Len(d) /\ k + 2 \in 0..Len(d) /\ k + 3 \in 0..Len(d)
    BY <1>1, <1>2
  <2>2. QED
    BY <2>1 DEF Counts
<1>5. /\ f[k + 1] = Added(d, f[k], k + 1)
      /\ f[k + 2] = Added(d, f[k + 1], k + 2)
      /\ f[k + 3] = Added(d, f[k + 2], k + 3)
  <2>1. k + 1 \in 1..Len(d) /\ k + 2 \in 1..Len(d) /\ k + 3 \in 1..Len(d)
    BY <1>1, <1>2
  <2>2. (k + 1) - 1 = k /\ (k + 2) - 1 = k + 1 /\ (k + 3) - 1 = k + 2
    BY <1>2
  <2>3. QED
    BY <2>1, <2>2 DEF Counts
<1>6. f[k + 1] = (IF d[k + 1] = "=" THEN f[k] + 2 ELSE f[k] + 3) /\ f[k + 1] > 1
  <2> DEFINE begun == f[k] + (IF (k + 1) % 4 = 1 THEN 3 ELSE 0)
  <2>1. begun = f[k] + 3
    BY <1>2, <1>4
  <2>2. f[k + 1] = IF d[k + 1] = "=" /\ begun > 0 THEN begun - 1 ELSE begun
    BY <1>5, Zenon DEF Added
  <2> HIDE DEF begun
  <2>3. QED
    BY <2>1, <2>2, <1>4
<1>7. f[k + 2] = (IF d[k + 2] = "=" THEN f[k + 1] - 1 ELSE f[k + 1]) /\ f[k + 2] > 0
  <2> DEFINE begun == f[k + 1] + (IF (k + 2) % 4 = 1 THEN 3 ELSE 0)
  <2>1. begun = f[k + 1]
    BY <1>2, <1>4
  <2>2. f[k + 2] = IF d[k + 2] = "=" /\ begun > 0 THEN begun - 1 ELSE begun
    BY <1>5, Zenon DEF Added
  <2> HIDE DEF begun
  <2>3. QED
    BY <2>1, <2>2, <1>4, <1>6
<1>8. f[k + 3] = IF d[k + 3] = "=" THEN f[k + 2] - 1 ELSE f[k + 2]
  <2> DEFINE begun == f[k + 2] + (IF (k + 3) % 4 = 1 THEN 3 ELSE 0)
  <2>1. begun = f[k + 2]
    BY <1>2, <1>4
  <2>2. f[k + 3] = IF d[k + 3] = "=" /\ begun > 0 THEN begun - 1 ELSE begun
    BY <1>5, Zenon DEF Added
  <2> HIDE DEF begun
  <2>3. QED
    BY <2>1, <2>2, <1>4, <1>7
<1>9. CASE j = k + 1
  BY <1>9, <1>2, <1>4
<1>10. CASE j = k + 2
  <2>1. j - 1 = k + 1
    BY <1>10, <1>2
  <2>2. QED
    BY <2>1, <1>10, <1>2, <1>4, <1>6
<1>11. CASE j = k + 3
  <2>1. j - 1 = k + 2
    BY <1>11, <1>2
  <2>2. QED
    BY <2>1, <1>11, <1>2, <1>4, <1>6, <1>7
<1>12. CASE j = k + 4
  <2>1. j - 1 = k + 3
    BY <1>12, <1>2
  <2>2. i = k + 1 \/ i = k + 2 \/ i = k + 3
    BY <1>2, <1>3, <1>12
  <2>3. f[k + 3] > 0
    <3>1. CASE d[k + 3] # "="
      BY <3>1, <1>4, <1>7, <1>8
    <3>2. CASE d[k + 3] = "="
      <4>1. d[k + 1] # "=" \/ d[k + 2] # "="
        BY <3>2, <2>2, <1>3
      <4>2. f[k + 2] > 1
        BY <4>1, <1>4, <1>6, <1>7
      <4>3. QED
        BY <4>2, <3>2, <1>4, <1>8
    <3>3. QED
      BY <3>1, <3>2
  <2>4. QED
    BY <2>1, <2>3, <1>12, <1>2, <1>4
<1>13. QED
  BY <1>2, <1>9, <1>10, <1>11, <1>12

\* Behind whole quads without padding the lengths add up.
LEMMA DecodedLenAdds ==
  ASSUME NEW S, NEW a \in Seq(S), NEW b \in Seq(S),
         Quads(a), Quads(b), Unpadded(a), Digited(b)
  PROVE  /\ DecodedLen(a) = 3 * (Len(a) \div 4)
         /\ DecodedLen(b) \in 0..3 * (Len(b) \div 4)
         /\ DecodedLen(a \o b) = 3 * (Len(a) \div 4) + DecodedLen(b)
<1>1. Len(a) \in Nat /\ Len(b) \in Nat
  OBVIOUS
<1>2. PICK f : Counts(f, a) /\ DecodedLen(a) = f[Len(a)]
  BY DecodedLenIs
<1>3. PICK g : Counts(g, b) /\ DecodedLen(b) = g[Len(b)]
  BY DecodedLenIs
<1>4. /\ a \o b \in Seq(S)
      /\ Len(a \o b) = Len(a) + Len(b)
      /\ \A i \in 1 .. Len(a) + Len(b) : (a \o b)[i] =
                     IF i <= Len(a) THEN a[i] ELSE b[i - Len(a)]
  BY ConcatProperties
<1>5. PICK h : Counts(h, a \o b) /\ DecodedLen(a \o b) = h[Len(a \o b)]
  BY <1>4, DecodedLenIs
<1> DEFINE la == Len(a)
           lb == Len(b)
           p == 3 * (la \div 4)
<1>6. /\ la \in Nat /\ lb \in Nat /\ p \in Nat /\ 3 * ((la + 3) \div 4) = p
      /\ 3 * ((lb + 3) \div 4) = 3 * (lb \div 4)
  BY <1>1, SMT DEF Quads
<1>7. f[la] = p
  <2>1. la \in 0..Len(a)
    BY <1>1
  <2>2. QED
    BY <2>1, <1>2, <1>6, LenIs DEF Unpadded
<1>8. g[lb] \in Nat /\ g[lb] <= 3 * (lb \div 4)
  <2>1. lb \in 0..Len(b)
    BY <1>1
  <2>2. QED
    BY <2>1, <1>3, <1>6, LenIs
<1>9. h[la] = p
  <2>1. la \in 0..Len(a \o b)
    BY <1>1, <1>4
  <2>2. \A i \in 1..la : (a \o b)[i] # "="
    <3> TAKE i \in 1..la
    <3>1. i \in 1..Len(a) + Len(b) /\ i <= Len(a)
      BY <1>1
    <3>2. QED
      BY <3>1, <1>4 DEF Unpadded
  <2>3. QED
    <3>1. h[la] = 3 * ((la + 3) \div 4)
      <4>1. a \o b \in Seq(S) /\ Counts(h, a \o b)
        BY <1>4, <1>5
      <4> HIDE DEF la
      <4>2. QED
        BY ONLY <4>1, <2>1, <2>2, LenIs
    <3>2. QED
      BY <3>1, <1>6
<1>10. \A j \in 0..lb : h[la + j] = p + g[j]
  <2> DEFINE T == {j \in 0..lb : h[la + j] # p + g[j]}
  <2>1. SUFFICES ASSUME T # {} PROVE FALSE
    OBVIOUS
  <2>2. PICK m \in T : \A j \in T : m <= j
    BY <2>1, LeastExists, T \subseteq Nat
  <2>3. g[0] = 0 /\ la + 0 = la /\ p + 0 = p
    BY <1>3, <1>6 DEF Counts
  <2>4. m # 0
    BY <2>2, <2>3, <1>9
  <2>5. /\ m \in 1..lb /\ m - 1 \in 0..lb /\ ~ (m <= m - 1) /\ la + m \in 1..Len(a \o b)
        /\ (la + m) - 1 = la + (m - 1) /\ (la + m) - la = m /\ ~ (la + m <= la)
    BY <1>4, <1>6, <2>2, <2>4
  <2>6. h[la + (m - 1)] = p + g[m - 1]
    BY <2>2, <2>5, Zenon
  <2>7. (a \o b)[la + m] = b[m]
    BY <1>4, <2>5
  <2>8. h[la + m] = Added(a \o b, h[(la + m) - 1], la + m)
    BY <1>5, <2>5 DEF Counts
  <2>9. g[m] = Added(b, g[m - 1], m) /\ g[m - 1] \in Nat
    BY <1>3, <2>5 DEF Counts
  <2>10. (la + m) % 4 = m % 4
    <3>1. la % 4 = 0 /\ m \in Nat
      BY <2>5 DEF Quads
    <3> HIDE DEF la
    <3>2. QED
      BY <3>1, <1>6, SMT
  <2>11. b[m] = "=" => g[m - 1] + (IF m % 4 = 1 THEN 3 ELSE 0) > 0
    BY <1>3, <2>5, NeverShort
  <2> DEFINE begun == g[m - 1] + (IF m % 4 = 1 THEN 3 ELSE 0)
             more == h[(la + m) - 1] + (IF (la + m) % 4 = 1 THEN 3 ELSE 0)
  <2>12. begun \in Nat /\ more = p + begun
    <3> DEFINE c == IF m % 4 = 1 THEN 3 ELSE 0
    <3>1. c \in Nat
      OBVIOUS
    <3>2. more = (p + g[m - 1]) + c /\ begun = g[m - 1] + c
      BY <2>5, <2>6, <2>10, Zenon
    <3> HIDE DEF p, c, begun, more
    <3>3. g[m - 1] \in Nat /\ p \in Nat
      BY <2>9, <1>6
    <3>4. QED
      <4> DEFINE gm == g[m - 1]
      <4> HIDE DEF gm
      <4>1. gm \in Nat /\ p \in Nat /\ c \in Nat /\ more = (p + gm) + c /\ begun = gm + c
        BY <3>1, <3>2, <3>3 DEF gm
      <4>2. QED
        BY ONLY <4>1
  <2>13. g[m] = IF b[m] = "=" /\ begun > 0 THEN begun - 1 ELSE begun
    BY <2>9, Zenon DEF Added
  <2>14. h[la + m] = IF b[m] = "=" /\ more > 0 THEN more - 1 ELSE more
    BY <2>7, <2>8, Zenon DEF Added
  <2>15. b[m] = "=" => begun > 0
    BY <2>11, Zenon
  <2> HIDE DEF begun, more, p
  <2>16. h[la + m] = p + g[m]
    BY <2>12, <2>13, <2>14, <2>15, <1>6
  <2>17. QED
    BY <2>2, <2>16
<1>11. h[la + lb] = p + g[lb]
  <2>1. lb \in 0..lb
    BY <1>6
  <2>2. QED
    BY <2>1, <1>10, Zenon
<1>12. QED
  BY <1>2, <1>3, <1>4, <1>5, <1>6, <1>7, <1>8, <1>11

\* The bytes of a text of whole quads.
LEMMA DecodedIs ==
  ASSUME NEW S, NEW d \in Seq(S), Quads(d), DecodedLen(d) \in 0..3 * (Len(d) \div 4)
  PROVE  /\ Decoded(d) \in Seq(Seq(S) \X (0..2))
         /\ Len(Decoded(d)) = DecodedLen(d)
         /\ \A i \in 1..DecodedLen(d) :
              Decoded(d)[i] = <<SubSeq(d, 4 * ((i - 1) \div 3) + 1, 4 * ((i - 1) \div 3) + 4), (i - 1) % 3>>
<1> DEFINE n == DecodedLen(d)
           Byte(i) == <<SubSeq(d, 4 * ((i - 1) \div 3) + 1, 4 * ((i - 1) \div 3) + 4), (i - 1) % 3>>
<1>1. Digits(d) = d
  <2>1. 4 * (Len(d) \div 4) = Len(d)
    BY Len(d) \in Nat, SMT DEF Quads
  <2>2. QED
    BY <2>1, SubSeqFull DEF Digits
<1>2. Decoded(d) = [i \in 1..n |-> Byte(i)]
  BY <1>1, Zenon DEF Decoded
<1>3. ASSUME NEW i \in 1..n
      PROVE  Byte(i) \in Seq(S) \X (0..2)
  <2> DEFINE q == 4 * ((i - 1) \div 3)
  <2>1. q \in Nat /\ q + 4 <= Len(d) /\ (i - 1) % 3 \in 0..2
    BY <1>3, Len(d) \in Nat, SMT
  <2> HIDE DEF q
  <2>2. \A k \in q + 1..q + 4 : d[k] \in S
    BY <2>1
  <2>3. SubSeq(d, q + 1, q + 4) \in Seq(S)
    BY <2>1, <2>2, SubSeqProperties
  <2>4. QED
    BY <2>1, <2>3 DEF q
<1>3a. n \in Nat
  BY Len(d) \in Nat
<1> HIDE DEF Byte, n
<1>4. Decoded(d) \in Seq(Seq(S) \X (0..2))
  BY <1>2, <1>3, <1>3a, IsASeq
<1>5. Len(Decoded(d)) = n
  BY <1>2, <1>3a
<1>6. \A i \in 1..n : Decoded(d)[i] = Byte(i)
  BY <1>2
<1>7. QED
  BY <1>4, <1>5, <1>6 DEF n, Byte

\* A text decoded in two parts is decoded, if the first is whole.
LEMMA DecodedAdds ==
  ASSUME NEW S, NEW a \in Seq(S), NEW b \in Seq(S),
         Quads(a), Quads(b), Unpadded(a), Digited(b)
  PROVE  Decoded(a \o b) = Decoded(a) \o Decoded(b)
<1> DEFINE c == a \o b
           la == Len(a)
           lb == Len(b)
           m == DecodedLen(a)
           n == DecodedLen(b)
           V == Seq(S) \X (0..2)
<1>1. /\ la \in Nat /\ lb \in Nat /\ la % 4 = 0 /\ lb % 4 = 0
      /\ m = 3 * (la \div 4) /\ n \in 0..3 * (lb \div 4) /\ DecodedLen(c) = m + n
  <2>1. la \in Nat /\ lb \in Nat /\ la % 4 = 0 /\ lb % 4 = 0
    BY DEF Quads
  <2>2. m = 3 * (la \div 4) /\ n \in 0..3 * (lb \div 4) /\ DecodedLen(c) = 3 * (la \div 4) + n
    BY DecodedLenAdds
  <2>3. QED
    BY <2>1, <2>2
<1>2. c \in Seq(S) /\ Len(c) = la + lb
  BY ConcatProperties
<1>3. /\ m \in 0..3 * (la \div 4) /\ m \in Nat /\ n \in Nat
      /\ m + n \in 0..3 * ((la + lb) \div 4) /\ (la + lb) % 4 = 0
  <2> HIDE DEF la, lb, m, n
  <2>1. la \div 4 \in Nat /\ lb \div 4 \in Nat /\ (la + lb) \div 4 = la \div 4 + lb \div 4 /\ (la + lb) % 4 = 0
    BY <1>1, SMT
  <2>2. QED
    BY <1>1, <2>1
<1>4. /\ Decoded(a) \in Seq(V) /\ Len(Decoded(a)) = m
      /\ \A i \in 1..m : Decoded(a)[i] =
           <<SubSeq(a, 4 * ((i - 1) \div 3) + 1, 4 * ((i - 1) \div 3) + 4), (i - 1) % 3>>
  BY <1>3, DecodedIs
<1>5. /\ Decoded(b) \in Seq(V) /\ Len(Decoded(b)) = n
      /\ \A i \in 1..n : Decoded(b)[i] =
           <<SubSeq(b, 4 * ((i - 1) \div 3) + 1, 4 * ((i - 1) \div 3) + 4), (i - 1) % 3>>
  BY <1>1, DecodedIs
<1>6. /\ Decoded(c) \in Seq(V) /\ Len(Decoded(c)) = m + n
      /\ \A i \in 1..m + n : Decoded(c)[i] =
           <<SubSeq(c, 4 * ((i - 1) \div 3) + 1, 4 * ((i - 1) \div 3) + 4), (i - 1) % 3>>
  <2>1. Quads(c) /\ DecodedLen(c) \in 0..3 * (Len(c) \div 4)
    BY <1>1, <1>2, <1>3 DEF Quads
  <2>2. /\ Decoded(c) \in Seq(V) /\ Len(Decoded(c)) = DecodedLen(c)
        /\ \A i \in 1..DecodedLen(c) : Decoded(c)[i] =
             <<SubSeq(c, 4 * ((i - 1) \div 3) + 1, 4 * ((i - 1) \div 3) + 4), (i - 1) % 3>>
    BY <1>2, <2>1, DecodedIs
  <2>3. DecodedLen(c) = m + n
    BY <1>1
  <2>4. QED
    BY <2>2, <2>3, Zenon
<1>7. /\ Decoded(a) \o Decoded(b) \in Seq(V)
      /\ Len(Decoded(a) \o Decoded(b)) = m + n
      /\ \A i \in 1..m + n : (Decoded(a) \o Decoded(b))[i] =
           IF i <= m THEN Decoded(a)[i] ELSE Decoded(b)[i - m]
  <2>1. /\ Decoded(a) \o Decoded(b) \in Seq(V)
        /\ Len(Decoded(a) \o Decoded(b)) = Len(Decoded(a)) + Len(Decoded(b))
        /\ \A i \in 1..Len(Decoded(a)) + Len(Decoded(b)) : (Decoded(a) \o Decoded(b))[i] =
             IF i <= Len(Decoded(a)) THEN Decoded(a)[i] ELSE Decoded(b)[i - Len(Decoded(a))]
    <3> HIDE DEF V
    <3>1. QED
      BY <1>4, <1>5, ConcatProperties
  <2>2. Len(Decoded(a)) = m /\ Len(Decoded(b)) = n
    BY <1>4, <1>5
  <2>3. QED
    BY <2>1, <2>2, Zenon
<1>8. ASSUME NEW i \in 1..m + n
      PROVE  Decoded(c)[i] = (Decoded(a) \o Decoded(b))[i]
  <2> DEFINE k == 4 * ((i - 1) \div 3)
  <2>1. CASE i <= m
    <3>1. i \in 1..m /\ k + 1 \in 1..la /\ k + 4 \in 1..la
      <4> HIDE DEF la, lb, m, n
      <4>1. QED
        BY <2>1, <1>1, <1>3
    <3>2. SubSeq(c, k + 1, k + 4) = SubSeq(a, k + 1, k + 4)
      <4> HIDE DEF k
      <4>1. QED
        BY <3>1, SubSeqOfConcat1
    <3>3. Decoded(a)[i] = <<SubSeq(a, k + 1, k + 4), (i - 1) % 3>>
      BY <3>1, <1>4, Zenon
    <3>4. Decoded(c)[i] = <<SubSeq(c, k + 1, k + 4), (i - 1) % 3>>
      BY <1>6, Zenon
    <3>5. (Decoded(a) \o Decoded(b))[i] = Decoded(a)[i]
      BY <1>7, <2>1, Zenon
    <3>6. QED
      BY <3>2, <3>3, <3>4, <3>5, Zenon
  <2>2. CASE ~ (i <= m)
    <3> DEFINE j == i - m
               l == 4 * ((j - 1) \div 3)
    <3>1. /\ j \in 1..n /\ (i - 1) % 3 = (j - 1) % 3 /\ k = la + l
          /\ l \in Nat /\ l + 4 <= lb
      <4> HIDE DEF la, lb, m, n
      <4>1. i \in Nat /\ i >= 1 /\ i <= m + n /\ m < i
        BY <1>3, <2>2
      <4>2. PICK p \in Nat : p = la \div 4 /\ la = 4 * p /\ m = 3 * p
        <5>1. la \div 4 \in Nat /\ la = 4 * (la \div 4)
          BY <1>1
        <5>2. QED
          BY <5>1, <1>1
      <4>3. j \in 1..n /\ (i - 1) = 3 * p + (j - 1)
        BY <4>1, <4>2, <1>3
      <4> HIDE DEF j
      <4>4. (i - 1) % 3 = (j - 1) % 3 /\ (i - 1) \div 3 = p + (j - 1) \div 3
        BY <4>3, <4>2, <1>3, SMT
      <4>5. l \in Nat /\ l + 4 <= lb
        BY <4>3, <1>1, SMT
      <4>6. k = la + l
        BY <4>2, <4>3, <4>4, <1>3
      <4>7. QED
        BY <4>3, <4>4, <4>5, <4>6
    <3>2. SubSeq(c, k + 1, k + 4) = SubSeq(b, l + 1, l + 4)
      <4> HIDE DEF k, l
      <4>1. /\ k + 1 \in Len(a) + 1..Len(a) + Len(b) /\ k + 4 \in Len(a) + 1..Len(a) + Len(b)
            /\ (k + 1) - Len(a) = l + 1 /\ (k + 4) - Len(a) = l + 4
        BY <3>1, <1>1
      <4>2. SubSeq(c, k + 1, k + 4) = SubSeq(b, (k + 1) - Len(a), (k + 4) - Len(a))
        BY <4>1, SubSeqOfConcat2
      <4>3. QED
        BY <4>1, <4>2, Zenon
    <3>3. Decoded(b)[j] = <<SubSeq(b, l + 1, l + 4), (j - 1) % 3>>
      BY <3>1, <1>5, Zenon
    <3>4. Decoded(c)[i] = <<SubSeq(c, k + 1, k + 4), (i - 1) % 3>>
      BY <1>6, Zenon
    <3>5. (Decoded(a) \o Decoded(b))[i] = Decoded(b)[j]
      BY <1>7, <2>2, Zenon
    <3>6. QED
      BY <3>1, <3>2, <3>3, <3>4, <3>5, Zenon
  <2>3. QED
    BY <2>1, <2>2
<1>9. QED
  <2> HIDE DEF c, m, n, V
  <2>1. Decoded(c) = Decoded(a) \o Decoded(b)
    BY <1>6, <1>7, <1>8, SeqEqual
  <2>2. QED
    BY <2>1 DEF c

\* The recursion of a fold, from one place to the next.
IsRecursive(f, N, V, base, step) ==
  /\ f \in [0..N -> V]
  /\ f[0] = base
  /\ \A j \in 1..N : f[j] = step[<<f[j - 1], j>>]

\* The same fold, as a function of how many places are folded.
LEMMA Recursion ==
  ASSUME NEW N \in Nat, NEW V, NEW base \in V, NEW step \in [V \X (1..N) -> V]
  PROVE  \E f : IsRecursive(f, N, V, base, step)
<1>1. PICK h : IsFold(h, N, V, base, step)
  BY SetRecursion
<1>2. /\ h \in [SUBSET (1..N) -> V]
      /\ h[{}] = base
      /\ \A s \in SUBSET (1..N) : s # {} => h[s] = step[<<h[s \ {Max(s)}], Max(s)>>]
  BY <1>1, Zenon DEF IsFold
<1> DEFINE f == [j \in 0..N |-> h[1..j]]
<1>3. \A j \in 0..N : 1..j \in SUBSET (1..N)
  OBVIOUS
<1>4. f \in [0..N -> V]
  BY <1>2, <1>3, Zenon
<1>5. f[0] = base
  <2>1. 1..0 = {} /\ 0 \in 0..N
    OBVIOUS
  <2>2. QED
    BY <2>1, <1>2, Zenon
<1>6. ASSUME NEW j \in 1..N PROVE f[j] = step[<<f[j - 1], j>>]
  <2>1. (1..j) \ {j} = 1..(j - 1)
    OBVIOUS
  <2>2. 1..j \subseteq Nat /\ j \in 1..j /\ \A x \in 1..j : x <= j
    OBVIOUS
  <2>3. Max(1..j) = j
    BY <2>2, MaxIs
  <2>4. j \in 0..N /\ j - 1 \in 0..N
    OBVIOUS
  <2>5. h[1..j] = step[<<h[1..(j - 1)], j>>]
    BY <1>2, <1>3, <2>1, <2>2, <2>3, <2>4, Zenon
  <2>6. QED
    BY <2>4, <2>5, Zenon
<1>7. QED
  BY <1>4, <1>5, <1>6, Zenon DEF IsRecursive

\* f is what FlattenSeq has gathered at each place.
Flattens(f, ss, S) ==
  /\ f \in [0..Len(ss) -> Seq(S)]
  /\ f[0] = <<>>
  /\ \A i \in 1..Len(ss) : f[i] = f[i - 1] \o ss[i]

\* FlattenSeq gathers the texts one after another.
LEMMA FlattenIs ==
  ASSUME NEW S, NEW ss \in Seq(Seq(S))
  PROVE  \E f : Flattens(f, ss, S) /\ FlattenSeq(ss) = f[Len(ss)]
<1> DEFINE L == Len(ss)
           step == [x \in Seq(S) \X (1..L) |-> x[1] \o ss[x[2]]]
           Eq(g) == g = [i \in 1..L |-> IF i = 1 THEN ss[i] ELSE g[i - 1] \o ss[i]]
           flatten == CHOOSE g : Eq(g)
<1>1. L \in Nat /\ <<>> \in Seq(S)
  OBVIOUS
<1>2. \A i \in 1..L : ss[i] \in Seq(S)
  OBVIOUS
<1>3. step \in [Seq(S) \X (1..L) -> Seq(S)]
  <2>1. ASSUME NEW x \in Seq(S) \X (1..L) PROVE x[1] \o ss[x[2]] \in Seq(S)
    BY <1>2, ConcatProperties
  <2>2. QED
    BY <2>1
<1>4. \A q \in Seq(S), i \in 1..L : step[<<q, i>>] = q \o ss[i]
  OBVIOUS
<1> HIDE DEF step
<1>5. PICK f : IsRecursive(f, L, Seq(S), <<>>, step)
  BY <1>1, <1>3, Recursion
<1>5a. f \in [0..L -> Seq(S)] /\ f[0] = <<>> /\ \A i \in 1..L : f[i] = step[<<f[i - 1], i>>]
  BY <1>5, Zenon DEF IsRecursive
<1>6. \A i \in 1..L : i - 1 \in 0..L /\ f[i - 1] \in Seq(S) /\ i \in 0..L /\ (i # 1 => i - 1 \in 1..L)
  <2> HIDE DEF L
  <2>1. \A i \in 1..L : i - 1 \in 0..L /\ i \in 0..L /\ (i # 1 => i - 1 \in 1..L)
    BY <1>1
  <2>2. QED
    BY <2>1, <1>5a, Zenon
<1>7. \A i \in 1..L : f[i] = f[i - 1] \o ss[i]
  BY <1>4, <1>5a, <1>6, Zenon
<1>8. Flattens(f, ss, S)
  BY <1>5a, <1>7, Zenon DEF Flattens
<1>9. CASE L = 0
  <2>1. FlattenSeq(ss) = ss /\ ss = <<>>
    BY <1>9 DEF FlattenSeq
  <2>2. f[L] = <<>>
    BY <1>5a, <1>9
  <2>3. QED
    BY <1>8, <2>1, <2>2
<1>10. CASE L # 0
  <2> DEFINE g == [i \in 1..L |-> f[i]]
  <2>1. Eq(g)
    <3>1. ASSUME NEW i \in 1..L
          PROVE  f[i] = IF i = 1 THEN ss[i] ELSE g[i - 1] \o ss[i]
      <4>1. CASE i = 1
        <5>1. f[i] = <<>> \o ss[i]
          BY <4>1, <1>5a, <1>7, 1 - 1 = 0
        <5>2. ss[i] \in Seq(S)
          BY <1>2
        <5>3. <<>> \o ss[i] = ss[i]
          BY <5>2, ConcatEmptySeq
        <5>4. QED
          BY <5>1, <5>3, <4>1, Zenon
      <4>2. CASE i # 1
        BY <4>2, <1>6, <1>7, Zenon
      <4>3. QED
        BY <4>1, <4>2
    <3> HIDE DEF L
    <3>2. [i \in 1..L |-> f[i]] = [i \in 1..L |-> IF i = 1 THEN ss[i] ELSE g[i - 1] \o ss[i]]
      BY <3>1, Zenon
    <3>3. QED
      BY <3>2, Zenon
  <2> HIDE DEF g
  <2>2. Eq(flatten)
    BY <2>1, Zenon
  <2>3. FlattenSeq(ss) = flatten[L]
    BY <1>10, Zenon DEF FlattenSeq
  <2> HIDE DEF flatten
  <2>4. \A i \in 1..L : flatten[i] = IF i = 1 THEN ss[i] ELSE flatten[i - 1] \o ss[i]
    BY <2>2, Zenon
  <2>5. \A i \in 1..L : flatten[i] = f[i]
    <3> DEFINE T == {i \in 1..L : flatten[i] # f[i]}
    <3>1. SUFFICES ASSUME T # {} PROVE FALSE
      OBVIOUS
    <3>2. PICK m \in T : \A i \in T : m <= i
      <4>1. T \subseteq Nat
        OBVIOUS
      <4>2. QED
        BY <3>1, <4>1, LeastExists
    <3>3. m \in 1..L /\ m \in Nat /\ ~ (m <= m - 1)
      OBVIOUS
    <3>4. CASE m = 1
      <4>1. f[m] = <<>> \o ss[m]
        BY <3>3, <3>4, <1>5a, <1>7, 1 - 1 = 0
      <4>2. ss[m] \in Seq(S)
        BY <3>3, <1>2
      <4>3. <<>> \o ss[m] = ss[m]
        BY <4>2, ConcatEmptySeq
      <4>4. flatten[m] = ss[m]
        BY <2>4, <3>3, <3>4, Zenon
      <4>5. QED
        BY <4>1, <4>3, <4>4, Zenon
    <3>5. CASE m # 1
      <4>1. m - 1 \in 1..L /\ m - 1 \notin T
        BY <3>2, <3>3, <3>5, <1>6, Zenon
      <4>2. flatten[m - 1] = f[m - 1]
        BY <4>1
      <4>3. flatten[m] = f[m]
        BY <4>2, <3>3, <3>5, <2>4, <1>7, Zenon
      <4>4. QED
        BY <4>3
    <3>6. QED
      BY <3>4, <3>5
  <2>6. L \in 1..L
    BY <1>1, <1>10
  <2>7. QED
    BY <1>8, <2>3, <2>5, <2>6
<1>11. QED
  BY <1>9, <1>10

\* A text more is flattened behind the others.
LEMMA FlattenAppended ==
  ASSUME NEW S, NEW ss \in Seq(Seq(S)), NEW s \in Seq(S)
  PROVE  /\ FlattenSeq(<<>>) = <<>>
         /\ FlattenSeq(ss) \in Seq(S)
         /\ FlattenSeq(Append(ss, s)) = FlattenSeq(ss) \o s
<1> DEFINE L == Len(ss)
           tt == Append(ss, s)
<1>1. L \in Nat
  OBVIOUS
<1>2. tt \in Seq(Seq(S)) /\ Len(tt) = L + 1 /\ tt[L + 1] = s /\ \A i \in 1..L : tt[i] = ss[i]
  BY AppendProperties
<1> HIDE DEF tt
<1>3. PICK f : Flattens(f, ss, S) /\ FlattenSeq(ss) = f[L]
  BY FlattenIs
<1>4. PICK g : Flattens(g, tt, S) /\ FlattenSeq(tt) = g[L + 1]
  BY <1>2, FlattenIs
<1>5. \A i \in 0..L : g[i] = f[i]
  <2> DEFINE T == {i \in 0..L : g[i] # f[i]}
  <2>1. SUFFICES ASSUME T # {} PROVE FALSE
    OBVIOUS
  <2>2. PICK m \in T : \A i \in T : m <= i
    BY <2>1, LeastExists, T \subseteq Nat
  <2>3. g[0] = f[0]
    BY <1>3, <1>4 DEF Flattens
  <2>4. /\ m \in 1..L /\ m - 1 \in 0..L /\ ~ (m <= m - 1) /\ m \in 1..L + 1
    BY <2>2, <2>3, <1>1
  <2>5. g[m - 1] = f[m - 1]
    BY <2>2, <2>4, Zenon
  <2>6. g[m] = g[m - 1] \o tt[m] /\ f[m] = f[m - 1] \o ss[m]
    BY <2>4, <1>2, <1>3, <1>4 DEF Flattens
  <2>7. g[m] = f[m]
    BY <2>4, <2>5, <2>6, <1>2, Zenon
  <2>8. QED
    BY <2>2, <2>7
<1>6. L \in 0..L /\ L + 1 \in 1..L + 1 /\ (L + 1) - 1 = L
  BY <1>1
<1>7. g[L + 1] = g[L] \o s
  <2>1. \A i \in 1..L + 1 : g[i] = g[i - 1] \o tt[i]
    BY <1>2, <1>4 DEF Flattens
  <2>2. QED
    BY <2>1, <1>2, <1>6, Zenon
<1>8. f[L] \in Seq(S)
  BY <1>3, <1>6 DEF Flattens
<1>9. FlattenSeq(<<>>) = <<>>
  <2>1. Len(<<>>) = 0
    OBVIOUS
  <2>2. QED
    BY <2>1, Zenon DEF FlattenSeq
<1>10. g[L] = f[L]
  BY <1>5, <1>6, Zenon
<1>11. QED
  BY <1>3, <1>4, <1>7, <1>8, <1>9, <1>10, Zenon DEF tt
-----------------------------------------------------------------------------
(* Texts cut into lines. *)

\* Whole quads without padding stay so when they are put together.
LEMMA WholeFlat ==
  ASSUME NEW S, NEW ss \in Seq(Seq(S)),
         \A i \in 1..Len(ss) : Quads(ss[i]) /\ Unpadded(ss[i])
  PROVE  Quads(FlattenSeq(ss)) /\ Unpadded(FlattenSeq(ss))
<1> DEFINE L == Len(ss)
<1>1. L \in Nat
  OBVIOUS
<1>2. PICK f : Flattens(f, ss, S) /\ FlattenSeq(ss) = f[L]
  BY FlattenIs
<1> DEFINE T == {i \in 0..L : ~ (Quads(f[i]) /\ Unpadded(f[i]))}
<1>3. T = {}
  <2>1. SUFFICES ASSUME T # {} PROVE FALSE
    OBVIOUS
  <2>2. PICK m \in T : \A i \in T : m <= i
    BY <2>1, LeastExists, T \subseteq Nat
  <2>3. CASE m = 0
    <3>1. f[m] = <<>>
      BY <2>3, <1>2 DEF Flattens
    <3>2. Quads(<<>>) /\ Unpadded(<<>>)
      BY DEF Quads, Unpadded
    <3>3. QED
      BY <3>1, <3>2, <2>2
  <2>4. CASE m # 0
    <3>1. /\ m \in 1..L /\ m - 1 \in 0..L /\ ~ (m <= m - 1) /\ m \in 1..Len(ss)
      BY <2>2, <2>4, <1>1
    <3>2. Quads(f[m - 1]) /\ Unpadded(f[m - 1])
      BY <3>1, <2>2, Zenon
    <3>3. Quads(ss[m]) /\ Unpadded(ss[m]) /\ ss[m] \in Seq(S)
      BY <3>1
    <3>4. f[m] = f[m - 1] \o ss[m] /\ f[m - 1] \in Seq(S)
      BY <3>1, <1>2 DEF Flattens
    <3> DEFINE a == f[m - 1]
               b == ss[m]
    <3>5. /\ a \in Seq(S) /\ b \in Seq(S)
          /\ Quads(a) /\ Quads(b) /\ Unpadded(a) /\ Unpadded(b)
      BY <3>2, <3>3, <3>4
    <3> HIDE DEF a, b
    <3>6. /\ Len(a \o b) = Len(a) + Len(b)
          /\ \A i \in 1..Len(a) + Len(b) : (a \o b)[i] = IF i <= Len(a) THEN a[i] ELSE b[i - Len(a)]
          /\ Len(a) \in Nat /\ Len(b) \in Nat
      BY <3>5, ConcatProperties, LenProperties
    <3>7. Quads(a \o b)
      <4>1. Len(a) % 4 = 0 /\ Len(b) % 4 = 0
        BY <3>5 DEF Quads
      <4>2. (Len(a) + Len(b)) % 4 = 0
        <5>1. Len(a) \in Nat /\ Len(b) \in Nat
          BY <3>6
        <5> DEFINE m1 == Len(a)
                   n1 == Len(b)
        <5> HIDE DEF m1, n1
        <5>2. m1 \in Nat /\ n1 \in Nat /\ m1 % 4 = 0 /\ n1 % 4 = 0
          BY <5>1, <4>1 DEF m1, n1
        <5>3. (m1 + n1) % 4 = 0
          BY ONLY <5>2, SMT
        <5>4. QED
          BY <5>3 DEF m1, n1
      <4>3. QED
        BY <4>2, <3>6 DEF Quads
    <3>8. Unpadded(a \o b)
      <4>1. \A i \in 1..Len(a) + Len(b) : (i <= Len(a) => i \in 1..Len(a)) /\ (~ (i <= Len(a)) => i - Len(a) \in 1..Len(b))
        BY <3>6
      <4>2. ASSUME NEW i \in 1..Len(a) + Len(b) PROVE (a \o b)[i] # "="
        <5>1. CASE i <= Len(a)
          BY <5>1, <4>1, <3>5, <3>6, Zenon DEF Unpadded
        <5>2. CASE ~ (i <= Len(a))
          BY <5>2, <4>1, <3>5, <3>6, Zenon DEF Unpadded
        <5>3. QED
          BY <5>1, <5>2
      <4>3. QED
        BY <4>2, <3>6, Zenon DEF Unpadded
    <3>9. QED
      BY <3>4, <3>7, <3>8, <2>2 DEF a, b
  <2>5. QED
    BY <2>3, <2>4
<1>4. L \in 0..L
  BY <1>1
<1>5. QED
  BY <1>2, <1>3, <1>4

\* A tidy text but for its last line, and that line.
LEMMA TidyAppended ==
  ASSUME NEW S, NEW ss \in Seq(Seq(S)), NEW s \in Seq(S), Tidy(Append(ss, s))
  PROVE  /\ Tidy(ss)
         /\ \A i \in 1..Len(ss) : Quads(ss[i]) /\ Unpadded(ss[i])
         /\ Quads(s) /\ Digited(s)
<1> DEFINE L == Len(ss)
           tt == Append(ss, s)
<1>1. /\ L \in Nat /\ DOMAIN ss = 1..L /\ DOMAIN tt = 1..L + 1
      /\ Len(tt) = L + 1 /\ tt[L + 1] = s /\ \A i \in 1..L : tt[i] = ss[i]
  BY AppendProperties
<1>2. Tidy(tt)
  OBVIOUS
<1> HIDE DEF tt
<1>3. Quads(s) /\ Digited(s)
  <2>1. L + 1 \in DOMAIN tt
    BY <1>1
  <2>2. QED
    BY <1>1, <1>2, <2>1, Zenon DEF Tidy, Quads, Digited
<1>4. ASSUME NEW i \in 1..L
      PROVE  Quads(ss[i]) /\ Unpadded(ss[i]) /\ Digited(ss[i])
  <2>1. i \in DOMAIN tt /\ i < Len(tt) /\ tt[i] = ss[i]
    BY <1>1
  <2>2. ~ Contains(ss[i], "=")
    BY <2>1, <1>2, Zenon DEF Tidy
  <2>3. QED
    BY <1>2, <2>1, <2>2, Zenon DEF Tidy, Quads, Unpadded, Digited, Contains
<1>5. Tidy(ss)
  BY <1>1, <1>4, Zenon DEF Tidy, Quads, Unpadded, Digited, Contains
<1>6. QED
  BY <1>3, <1>4, <1>5

\* The lines from t to r of a file, as text.
TextTo(f, t, r) == [i \in 1..r - t + 1 |-> f[t + i - 1].text]

\* A line read is a text more.
LEMMA TextGrows ==
  ASSUME NEW S, NEW f, NEW t \in Nat \ {0}, NEW r \in Nat, t <= r + 1,
         \A i \in t..r + 1 : f[i].text \in Seq(S)
  PROVE  /\ TextTo(f, t, r) \in Seq(Seq(S))
         /\ TextTo(f, t, r + 1) = Append(TextTo(f, t, r), f[r + 1].text)
         /\ TextTo(f, t, t - 1) = <<>>
<1> DEFINE n == r - t + 1
           ss == TextTo(f, t, r)
           tt == TextTo(f, t, r + 1)
           s == f[r + 1].text
<1>1. /\ n \in Nat /\ t + (n + 1) - 1 = r + 1 /\ (r + 1) - t + 1 = n + 1 /\ (t - 1) - t + 1 = 0 /\ r + 1 \in t..r + 1
      /\ \A i \in 1..n + 1 : t + i - 1 \in t..r + 1
      /\ \A i \in 1..n : i \in 1..n + 1
      /\ n + 1 \in Nat /\ n + 1 \in 1..n + 1 /\ \A i \in 1..n + 1 : i \in 1..n \/ i = n + 1
  OBVIOUS
<1> HIDE DEF n
<1>2. ss = [i \in 1..n |-> f[t + i - 1].text] /\ tt = [i \in 1..n + 1 |-> f[t + i - 1].text]
  BY <1>1, Zenon DEF TextTo, n
<1>3. \A i \in 1..n + 1 : f[t + i - 1].text \in Seq(S)
  BY <1>1, Zenon
<1>4. ss \in Seq(Seq(S)) /\ tt \in Seq(Seq(S))
  <2> HIDE DEF ss, tt
  <2>1. \A i \in 1..n : f[t + i - 1].text \in Seq(S)
    BY <1>1, <1>3, Zenon
  <2>2. [i \in 1..n |-> f[t + i - 1].text] \in Seq(Seq(S))
    BY <1>1, <2>1, IsASeq
  <2>3. [i \in 1..n + 1 |-> f[t + i - 1].text] \in Seq(Seq(S))
    BY <1>1, <1>3, IsASeq
  <2>4. QED
    BY <1>2, <2>2, <2>3, Zenon
<1>5. Len(ss) = n /\ Len(tt) = n + 1
  <2> HIDE DEF ss, tt
  <2>1. QED
    BY <1>1, <1>2, <1>4
<1>6. s \in Seq(S)
  BY <1>1
<1> HIDE DEF s
<1>7. /\ Append(ss, s) \in Seq(Seq(S)) /\ Len(Append(ss, s)) = n + 1
      /\ \A i \in 1..n : Append(ss, s)[i] = ss[i]
      /\ Append(ss, s)[n + 1] = s
  <2> HIDE DEF ss
  <2>1. QED
    BY <1>4, <1>5, <1>6, AppendProperties
<1>8. \A i \in 1..n + 1 : tt[i] = Append(ss, s)[i]
  <2> HIDE DEF ss, tt
  <2>1. \A i \in 1..n : tt[i] = ss[i]
    BY <1>1, <1>2, Zenon
  <2>2. tt[n + 1] = s
    BY <1>1, <1>2, Zenon DEF s
  <2>3. QED
    BY <1>1, <1>7, <2>1, <2>2, Zenon
<1>9. tt = Append(ss, s)
  <2> HIDE DEF ss, tt
  <2>1. QED
    BY <1>4, <1>5, <1>7, <1>8, SeqEqual
<1>10. TextTo(f, t, t - 1) = <<>>
  <2>1. 1..0 = {}
    OBVIOUS
  <2>2. QED
    BY <1>1, <2>1 DEF TextTo
<1>11. QED
  BY <1>4, <1>9, <1>10 DEF s
-----------------------------------------------------------------------------
(* Where convertPEM2BIN is in a file. *)

NoBegin(f, r) == \A i \in 1..r : ~Boundary(f, i, "BEGIN")
NoEnd(f, t, r) == \A i \in t..r : ~Boundary(f, i, "END")
Headers(f, b, r) == \A i \in b + 1..r : f[i].colon /\ ~f[i].empty

\* The message begins with line b, and its text with line t.
Begun(f, b) == b \in 1..Len(f) /\ Boundary(f, b, "BEGIN") /\ NoBegin(f, b - 1)

Starts(f, b, t) ==
  /\ Begun(f, b)
  /\ t \in Nat /\ b + 1 <= t
  /\ t = b + 1 => ~f[t].colon
  /\ t > b + 1 => Headers(f, b, t - 2) /\ f[t - 1].empty /\ t - 1 > b + 1

Gathered(res, ss) == Tidy(ss) => res = Decoded(FlattenSeq(ss))

\* A file has one place where its text can start.
LEMMA OneStart ==
  ASSUME NEW f, NEW b, NEW t, NEW c, NEW u, Starts(f, b, t), Starts(f, c, u)
  PROVE  b = c /\ t = u
<1>1. b \in Nat /\ c \in Nat /\ t \in Nat /\ u \in Nat
  BY DEF Starts, Begun
<1>2. b = c
  <2>1. ~ (b <= c - 1)
    BY <1>1 DEF Starts, Begun, NoBegin
  <2>2. ~ (c <= b - 1)
    BY <1>1 DEF Starts, Begun, NoBegin
  <2>3. QED
    BY <1>1, <2>1, <2>2
<1>3. ASSUME NEW v, NEW w, Starts(f, b, v), Starts(f, b, w), v < w
      PROVE  FALSE
  <2>1. v \in Nat /\ w \in Nat /\ b + 1 <= v /\ w > b + 1 /\ Headers(f, b, w - 2) /\ w - 1 > b + 1
    BY <1>1, <1>3 DEF Starts
  <2>2. CASE v = b + 1
    <3>1. v \in b + 1..w - 2 /\ ~f[v].colon
      BY <1>1, <1>3, <2>1, <2>2 DEF Starts
    <3>2. QED
      BY <3>1, <2>1 DEF Headers
  <2>3. CASE v # b + 1
    <3>1. v - 1 \in b + 1..w - 2 /\ f[v - 1].empty
      BY <1>1, <1>3, <2>1, <2>3 DEF Starts
    <3>2. QED
      BY <3>1, <2>1 DEF Headers
  <2>4. QED
    BY <2>2, <2>3
<1>4. ~ (t < u) /\ ~ (u < t)
  BY <1>2, <1>3
<1>5. QED
  BY <1>1, <1>2, <1>4

\* What a PEM file is, in the terms of the parser.
LEMMA PemStarts ==
  ASSUME NEW f, Len(f) \in Nat, NEW b \in 1..Len(f), NEW t \in 1..Len(f)
  PROVE  IsPem(f, b, t) <=> /\ Starts(f, b, t)
                            /\ Boundary(f, Len(f), "END") /\ NoEnd(f, t, Len(f) - 1)
  BY DEF IsPem, Starts, Begun, NoBegin, NoEnd, Headers

\* A line more of a tidy text is decoded behind the others.
LEMMA Gathering ==
  ASSUME NEW S, NEW f \in Seq(Lines(S)), NEW t \in 1..Len(f), NEW r \in 0..Len(f) - 1,
         t <= r + 1, NEW res, Gathered(res, TextTo(f, t, r))
  PROVE  Gathered(res \o Decoded(f[r + 1].text), TextTo(f, t, r + 1))
<1> DEFINE ss == TextTo(f, t, r)
           s == f[r + 1].text
<1>1. /\ Len(f) \in Nat /\ r \in Nat /\ t \in Nat \ {0}
      /\ \A i \in t..r + 1 : i \in 1..Len(f)
  OBVIOUS
<1>2. \A i \in t..r + 1 : f[i].text \in Seq(S)
  BY <1>1 DEF Lines
<1>3. ss \in Seq(Seq(S)) /\ TextTo(f, t, r + 1) = Append(ss, s)
  <2>1. t \in Nat \ {0} /\ r \in Nat /\ t <= r + 1
    BY <1>1
  <2>2. QED
    BY <1>2, <2>1, TextGrows
<1>4. s \in Seq(S)
  BY <1>1, <1>2
<1>5. Gathered(res, ss)
  OBVIOUS
<1> HIDE DEF ss, s
<1>6. SUFFICES ASSUME Tidy(Append(ss, s))
               PROVE  res \o Decoded(s) = Decoded(FlattenSeq(Append(ss, s)))
  BY <1>3, Zenon DEF Gathered, s
<1>7. /\ Tidy(ss) /\ \A i \in 1..Len(ss) : Quads(ss[i]) /\ Unpadded(ss[i])
      /\ Quads(s) /\ Digited(s)
  BY <1>3, <1>4, <1>6, TidyAppended
<1>8. Quads(FlattenSeq(ss)) /\ Unpadded(FlattenSeq(ss))
  BY <1>3, <1>7, WholeFlat
<1>9. FlattenSeq(ss) \in Seq(S) /\ FlattenSeq(Append(ss, s)) = FlattenSeq(ss) \o s
  BY <1>3, <1>4, FlattenAppended
<1>10. Decoded(FlattenSeq(ss) \o s) = Decoded(FlattenSeq(ss)) \o Decoded(s)
  BY <1>4, <1>7, <1>8, <1>9, DecodedAdds
<1>11. res = Decoded(FlattenSeq(ss))
  BY <1>5, <1>7, Zenon DEF Gathered
<1>12. QED
  BY <1>9, <1>10, <1>11, Zenon

\* Nothing read, nothing decoded.
LEMMA NothingGathered ==
  ASSUME NEW f, NEW t \in Nat \ {0}
  PROVE  Gathered(<<>>, TextTo(f, t, t - 1))
<1>1. TextTo(f, t, t - 1) = <<>>
  <2>1. (t - 1) - t + 1 = 0 /\ 1..0 = {}
    OBVIOUS
  <2>2. QED
    BY <2>1 DEF TextTo
<1>2. FlattenSeq(<<>>) = <<>>
  <2>1. Len(<<>>) = 0
    OBVIOUS
  <2>2. QED
    BY <2>1, Zenon DEF FlattenSeq
<1>3. Decoded(<<>>) = <<>>
  <2>1. <<>> \in Seq({}) /\ Quads(<<>>) /\ Unpadded(<<>>) /\ Digited(<<>>)
    <3>1. Len(<<>>) = 0 /\ 0 % 4 = 0 /\ 1..0 = {} /\ 1..(0 \div 4) = {}
      OBVIOUS
    <3>2. QED
      BY <3>1 DEF Quads, Unpadded, Digited
  <2>2. DecodedLen(<<>>) \in 0..3 * (Len(<<>>) \div 4) /\ 3 * (Len(<<>>) \div 4) = 0
    <3> DEFINE n == Len(<<>>)
    <3>1. 3 * (n \div 4) = 0
      <4>1. n = 0
        OBVIOUS
      <4> HIDE DEF n
      <4>2. QED
        BY <4>1
    <3>2. DecodedLen(<<>>) \in 0..3 * (Len(<<>>) \div 4)
      BY <2>1, DecodedLenAdds, Zenon
    <3>3. QED
      BY <3>1, <3>2, Zenon
  <2>3. Decoded(<<>>) \in Seq(Seq({}) \X (0..2)) /\ Len(Decoded(<<>>)) = 0
    <3>1. Decoded(<<>>) \in Seq(Seq({}) \X (0..2)) /\ Len(Decoded(<<>>)) = DecodedLen(<<>>)
      BY <2>1, <2>2, DecodedIs, Zenon
    <3>2. DecodedLen(<<>>) \in 0..0
      BY <2>2, Zenon
    <3>3. QED
      BY <3>1, <3>2
  <2>4. QED
    BY <2>3, EmptySeq
<1>4. QED
  BY <1>1, <1>2, <1>3, Zenon DEF Gathered
-----------------------------------------------------------------------------
InHeaders(f, b, r) == Begun(f, b) /\ b < r /\ Headers(f, b, r)

InText(f, b, t, r) == Starts(f, b, t) /\ b + 1 <= r /\ t <= r + 1 /\ NoEnd(f, t, r)

AtEnd(f, b, t, r) ==
  Starts(f, b, t) /\ t <= r /\ Boundary(f, r, "END") /\ NoEnd(f, t, r - 1)

\* What is known of the lines read, by the state of the parser.
PemReached ==
  \/ pemState = "PRE" /\ NoBegin(file, read) /\ result = <<>>
  \/ pemState = "MSG" /\ Begun(file, read) /\ result = <<>>
  \/ pemState = "HEADER" /\ result = <<>> /\ \E b \in Nat : InHeaders(file, b, read)
  \/ /\ pemState = "BODY"
     /\ \E b, t \in Nat : InText(file, b, t, read) /\ Gathered(result, TextTo(file, t, read))
  \/ /\ pemState = "POST"
     /\ \E b, t \in Nat : AtEnd(file, b, t, read) /\ Gathered(result, TextTo(file, t, read - 1))

PemInv(S) ==
  /\ file \in Seq(Lines(S))
  /\ read \in 0..Len(file)
  /\ verdict \in {"reading", "SUCCESS", "FAILED"}
  /\ verdict = "reading" => PemReached
  /\ PemDecoded

NotPem(f) == \A b, t \in 1..Len(f) : ~IsPem(f, b, t)

\* The steps of the parser, on the file alone.

\* A line read before the message.
LEMMA MessageBegins ==
  ASSUME NEW f, NEW r \in Nat, r < Len(f), Len(f) \in Nat, NoBegin(f, r)
  PROVE  IF Boundary(f, r + 1, "BEGIN") THEN Begun(f, r + 1) ELSE NoBegin(f, r + 1)
  BY DEF NoBegin, Begun

\* The line behind the boundary is a header if it has a colon,
LEMMA HeadersBegin ==
  ASSUME NEW S, NEW f \in Seq(Lines(S)), NEW r \in Nat, r < Len(f), Begun(f, r),
         f[r + 1].colon
  PROVE  InHeaders(f, r, r + 1) /\ ~f[r + 1].empty
<1>1. r + 1 \in 1..Len(f)
  OBVIOUS
<1>2. ~f[r + 1].empty
  BY <1>1 DEF Lines
<1>3. \A i \in r + 1..r + 1 : i = r + 1
  OBVIOUS
<1>4. QED
  BY <1>2, <1>3 DEF InHeaders, Headers

\* and text if it has none.
LEMMA TextBegins ==
  ASSUME NEW f, NEW r \in Nat, r < Len(f), Len(f) \in Nat, Begun(f, r), ~f[r + 1].colon
  PROVE  /\ Starts(f, r, r + 1) /\ NoEnd(f, r + 1, r)
  BY DEF Starts, NoEnd

\* A line read among the headers: text follows an empty one, and one that is
\* no header spoils the file.
LEMMA HeadersGoOn ==
  ASSUME NEW f, NEW r \in Nat, NEW b \in Nat, r < Len(f), Len(f) \in Nat, InHeaders(f, b, r)
  PROVE  /\ f[r + 1].empty => InText(f, b, r + 2, r + 1)
         /\ ~f[r + 1].empty /\ f[r + 1].colon => InHeaders(f, b, r + 1)
         /\ ~f[r + 1].empty /\ ~f[r + 1].colon => NotPem(f)
<1>1. Begun(f, b) /\ b < r /\ Headers(f, b, r) /\ b \in 1..Len(f)
  BY DEF InHeaders, Begun
<1>2. ASSUME f[r + 1].empty PROVE InText(f, b, r + 2, r + 1)
  BY <1>1, <1>2 DEF InText, Starts, NoEnd
<1>3. ASSUME ~f[r + 1].empty, f[r + 1].colon PROVE InHeaders(f, b, r + 1)
  BY <1>1, <1>3 DEF InHeaders, Headers
<1>4. ASSUME ~f[r + 1].empty, ~f[r + 1].colon PROVE NotPem(f)
  <2>1. SUFFICES ASSUME NEW c \in 1..Len(f), NEW u \in 1..Len(f), IsPem(f, c, u)
                 PROVE  FALSE
    BY DEF NotPem
  <2>2. Starts(f, c, u)
    BY <2>1, PemStarts
  <2>3. b = c
    <3>1. ~ (b <= c - 1) /\ ~ (c <= b - 1)
      BY <1>1, <2>2 DEF Starts, Begun, NoBegin
    <3>2. QED
      BY <3>1
  <2>4. b + 1 \in b + 1..r /\ f[b + 1].colon
    BY <1>1 DEF Headers
  <2>5. u > b + 1 /\ Headers(f, b, u - 2) /\ f[u - 1].empty /\ u - 1 > b + 1
    BY <2>2, <2>3, <2>4 DEF Starts
  <2>6. ~ (u - 1 \in b + 1..r)
    BY <1>1, <2>5 DEF Headers
  <2>7. u - 1 # r + 1
    BY <1>4, <2>5
  <2>8. r + 1 \in b + 1..u - 2
    BY <1>1, <2>5, <2>6, <2>7
  <2>9. QED
    BY <1>4, <2>5, <2>8 DEF Headers
<1>5. QED
  BY <1>2, <1>3, <1>4

\* A line read in the text.
LEMMA TextGoesOn ==
  ASSUME NEW f, NEW r \in Nat, NEW b \in Nat, NEW t \in Nat, r < Len(f), Len(f) \in Nat,
         Starts(f, b, t), b + 1 <= r + 1, t <= r + 1, NoEnd(f, t, r)
  PROVE  IF Boundary(f, r + 1, "END") THEN AtEnd(f, b, t, r + 1) ELSE InText(f, b, t, r + 1)
<1>1. CASE Boundary(f, r + 1, "END")
  <2>1. (r + 1) - 1 = r
    OBVIOUS
  <2>2. QED
    BY <1>1, <2>1 DEF AtEnd
<1>2. CASE ~Boundary(f, r + 1, "END")
  <2>1. NoEnd(f, t, r + 1)
    BY <1>2 DEF NoEnd
  <2>2. QED
    BY <1>2, <2>1 DEF InText
<1>3. QED
  BY <1>1, <1>2

\* A line behind the end spoils the file.
LEMMA NothingFollows ==
  ASSUME NEW f, NEW r \in Nat, NEW b \in Nat, NEW t \in Nat, r < Len(f), Len(f) \in Nat,
         AtEnd(f, b, t, r)
  PROVE  NotPem(f)
<1>1. SUFFICES ASSUME NEW c \in 1..Len(f), NEW u \in 1..Len(f), IsPem(f, c, u)
               PROVE  FALSE
  BY DEF NotPem
<1>2. Starts(f, c, u) /\ NoEnd(f, u, Len(f) - 1)
  BY <1>1, PemStarts
<1>3. u = t
  BY <1>2, OneStart DEF AtEnd
<1>4. QED
  BY <1>2, <1>3 DEF AtEnd, NoEnd

\* A file that ends before the text, or in it, is no PEM file.
LEMMA NoMessage ==
  ASSUME NEW f, Len(f) \in Nat, NoBegin(f, Len(f)) \/ Begun(f, Len(f))
  PROVE  NotPem(f)
<1>1. SUFFICES ASSUME NEW c \in 1..Len(f), NEW u \in 1..Len(f), IsPem(f, c, u)
               PROVE  FALSE
  BY DEF NotPem
<1>2. Starts(f, c, u)
  BY <1>1, PemStarts
<1>3. c < Len(f) /\ Boundary(f, c, "BEGIN") /\ NoBegin(f, c - 1)
  BY <1>2 DEF Starts, Begun
<1>4. CASE NoBegin(f, Len(f))
  BY <1>3, <1>4 DEF NoBegin
<1>5. CASE Begun(f, Len(f))
  BY <1>3, <1>5 DEF Begun, NoBegin
<1>6. QED
  BY <1>4, <1>5

LEMMA NoText ==
  ASSUME NEW f, Len(f) \in Nat, NEW b \in Nat, InHeaders(f, b, Len(f))
  PROVE  NotPem(f)
<1>1. SUFFICES ASSUME NEW c \in 1..Len(f), NEW u \in 1..Len(f), IsPem(f, c, u)
               PROVE  FALSE
  BY DEF NotPem
<1>2. Starts(f, c, u)
  BY <1>1, PemStarts
<1>3. b \in 1..Len(f) /\ b < Len(f) /\ Begun(f, b) /\ Headers(f, b, Len(f))
  BY DEF InHeaders, Begun
<1>4. b = c
  <2>1. ~ (b <= c - 1) /\ ~ (c <= b - 1)
    BY <1>2, <1>3 DEF Starts, Begun, NoBegin
  <2>2. QED
    BY <2>1
<1>5. b + 1 \in b + 1..Len(f) /\ f[b + 1].colon
  BY <1>3 DEF Headers
<1>6. u > b + 1 /\ f[u - 1].empty /\ u - 1 > b + 1
  BY <1>2, <1>4, <1>5 DEF Starts
<1>7. u - 1 \in b + 1..Len(f)
  BY <1>3, <1>6
<1>8. QED
  BY <1>3, <1>6, <1>7 DEF Headers

LEMMA NoEndOfText ==
  ASSUME NEW f, Len(f) \in Nat, NEW b \in Nat, NEW t \in Nat, InText(f, b, t, Len(f))
  PROVE  NotPem(f)
<1>1. SUFFICES ASSUME NEW c \in 1..Len(f), NEW u \in 1..Len(f), IsPem(f, c, u)
               PROVE  FALSE
  BY DEF NotPem
<1>2. Starts(f, c, u) /\ Boundary(f, Len(f), "END")
  BY <1>1, PemStarts
<1>3. u = t
  BY <1>2, OneStart DEF InText
<1>4. QED
  BY <1>2, <1>3 DEF InText, NoEnd

\* A file that ends with the end of its text is one, in one way only.
LEMMA WholeFile ==
  ASSUME NEW f, Len(f) \in Nat, NEW b \in Nat, NEW t \in Nat, AtEnd(f, b, t, Len(f))
  PROVE  /\ b \in 1..Len(f) /\ t \in 1..Len(f) /\ IsPem(f, b, t)
         /\ \A c, u \in 1..Len(f) : IsPem(f, c, u) => u = t
         /\ Text(f, t) = TextTo(f, t, Len(f) - 1)
<1>1. b \in 1..Len(f) /\ t \in 1..Len(f) /\ Starts(f, b, t)
  BY DEF AtEnd, Starts, Begun
<1>2. IsPem(f, b, t)
  BY <1>1, PemStarts DEF AtEnd
<1>3. \A c, u \in 1..Len(f) : IsPem(f, c, u) => u = t
  BY <1>1, PemStarts, OneStart
<1>4. Text(f, t) = TextTo(f, t, Len(f) - 1)
  <2>1. Len(f) - t = (Len(f) - 1) - t + 1
    BY <1>1
  <2>2. QED
    BY <2>1, Zenon DEF Text, TextTo
<1>5. QED
  BY <1>1, <1>2, <1>3, <1>4

\* What is known of the lines read holds when the file is opened,
LEMMA PemInitially ==
  ASSUME NEW S, NEW files, \A f \in files : f \in Seq(Lines(S)), InitPem(files)
  PROVE  PemInv(S)
<1>1. file \in Seq(Lines(S)) /\ read \in 0..Len(file) /\ verdict = "reading"
  BY DEF InitPem
<1>2. PemReached
  BY DEF InitPem, PemReached, NoBegin
<1>3. PemDecoded
  BY <1>1 DEF PemDecoded
<1>4. QED
  BY <1>1, <1>2, <1>3 DEF PemInv

\* when a line is read,
LEMMA LineRead ==
  ASSUME NEW S, PemInv(S), ReadLine
  PROVE  PemInv(S)'
<1> DEFINE line == file[read + 1]
<1>1. /\ file \in Seq(Lines(S)) /\ Len(file) \in Nat /\ read \in Nat /\ read < Len(file)
      /\ read + 1 \in 1..Len(file) /\ file' = file /\ read' = read + 1 /\ read' - 1 = read
      /\ PemReached /\ verdict = "reading"
  BY DEF PemInv, ReadLine
<1>2. /\ pemState' = Analysed(line, pemState)
      /\ verdict' = IF pemState' = "FAILED" THEN "FAILED" ELSE "reading"
      /\ result' = IF IsText(line, pemState) THEN result \o Decoded(line.text) ELSE result
  BY DEF ReadLine
<1>3. /\ Boundary(file, read + 1, "BEGIN") <=> IsBoundary(line, "BEGIN")
      /\ Boundary(file, read + 1, "END") <=> IsBoundary(line, "END")
  BY DEF Boundary
<1>4. SUFFICES \/ pemState' # "FAILED" /\ PemReached'
               \/ pemState' = "FAILED" /\ NotPem(file)
  <2>1. CASE pemState' # "FAILED" /\ PemReached'
    <3>1. verdict' = "reading"
      BY <1>2, <2>1
    <3>2. QED
      BY <1>1, <2>1, <3>1 DEF PemInv, PemDecoded
  <2>2. CASE pemState' = "FAILED" /\ NotPem(file)
    <3>1. verdict' = "FAILED"
      BY <1>2, <2>2
    <3>2. QED
      BY <1>1, <2>2, <3>1 DEF PemInv, PemDecoded, NotPem
  <2>3. QED
    BY <1>4, <2>1, <2>2
<1> HIDE DEF line
<1>5. CASE pemState = "PRE"
  <2>1. pemState' = (IF IsBoundary(line, "BEGIN") THEN "MSG" ELSE "PRE") /\ result' = result
    BY <1>2, <1>5 DEF Analysed, IsText
  <2>2. NoBegin(file, read) /\ result = <<>>
    BY <1>1, <1>5 DEF PemReached
  <2>3. IF Boundary(file, read + 1, "BEGIN") THEN Begun(file, read + 1) ELSE NoBegin(file, read + 1)
    BY <1>1, <2>2, MessageBegins
  <2>4. QED
    BY <1>1, <1>3, <2>1, <2>2, <2>3 DEF PemReached
<1>6. CASE pemState = "MSG"
  <2>1. Begun(file, read) /\ result = <<>>
    BY <1>1, <1>6 DEF PemReached
  <2>2. CASE line.colon
    <3>1. InHeaders(file, read, read + 1) /\ ~line.empty
      BY <1>1, <2>1, <2>2, HeadersBegin DEF line
    <3>2. pemState' = "HEADER" /\ result' = result
      BY <1>2, <1>6, <2>2, <3>1 DEF Analysed, IsText, IsHeader
    <3>3. QED
      BY <1>1, <2>1, <3>1, <3>2 DEF PemReached
  <2>3. CASE ~line.colon
    <3>1. Starts(file, read, read + 1) /\ NoEnd(file, read + 1, read)
      BY <1>1, <2>1, <2>3, TextBegins DEF line
    <3>2. Gathered(result, TextTo(file, read + 1, read))
      <4>1. read + 1 \in Nat \ {0} /\ (read + 1) - 1 = read
        BY <1>1
      <4>2. QED
        BY <2>1, <4>1, NothingGathered
    <3>3. pemState' = IF IsBoundary(line, "END") THEN "POST" ELSE "BODY"
      BY <1>2, <1>6, <2>3 DEF Analysed
    <3>4. result' = IF IsBoundary(line, "END") THEN result ELSE result \o Decoded(line.text)
      BY <1>2, <1>6, <2>3 DEF IsText
    <3>5. IF Boundary(file, read + 1, "END") THEN AtEnd(file, read, read + 1, read + 1)
                                           ELSE InText(file, read, read + 1, read + 1)
      BY <1>1, <3>1, TextGoesOn
    <3>6. CASE IsBoundary(line, "END")
      BY <1>1, <1>3, <3>2, <3>3, <3>4, <3>5, <3>6 DEF PemReached
    <3>7. CASE ~IsBoundary(line, "END")
      <4>1. Gathered(result', TextTo(file, read + 1, read + 1))
        <5>1. read + 1 \in 1..Len(file) /\ read \in 0..Len(file) - 1
          BY <1>1
        <5>2. QED
          BY <1>1, <5>1, <3>2, <3>4, <3>7, Gathering DEF line
      <4>2. QED
        BY <1>1, <1>3, <3>3, <3>5, <3>7, <4>1 DEF PemReached
    <3>8. QED
      BY <3>6, <3>7
  <2>4. QED
    BY <2>2, <2>3
<1>7. CASE pemState = "HEADER"
  <2>1. result = <<>> /\ \E b \in Nat : InHeaders(file, b, read)
    BY <1>1, <1>7 DEF PemReached
  <2>2. PICK b \in Nat : InHeaders(file, b, read)
    BY <2>1
  <2>3. result' = result
    BY <1>2, <1>7 DEF IsText
  <2>4. /\ line.empty => InText(file, b, read + 2, read + 1)
        /\ ~line.empty /\ line.colon => InHeaders(file, b, read + 1)
        /\ ~line.empty /\ ~line.colon => NotPem(file)
    BY <1>1, <2>2, HeadersGoOn DEF line
  <2>5. CASE line.empty
    <3>1. pemState' = "BODY"
      BY <1>2, <1>7, <2>5 DEF Analysed
    <3>2. Gathered(<<>>, TextTo(file, read + 2, read + 1))
      <4>1. read + 2 \in Nat \ {0} /\ (read + 2) - 1 = read + 1
        BY <1>1
      <4>2. QED
        BY <4>1, NothingGathered
    <3>3. read + 2 \in Nat
      BY <1>1
    <3>4. QED
      BY <1>1, <2>1, <2>3, <2>4, <2>5, <3>1, <3>2, <3>3 DEF PemReached
  <2>6. CASE ~line.empty /\ line.colon
    <3>1. pemState' = "HEADER"
      BY <1>2, <1>7, <2>6 DEF Analysed, IsHeader
    <3>2. QED
      BY <1>1, <2>1, <2>3, <2>4, <2>6, <3>1 DEF PemReached
  <2>7. CASE ~line.empty /\ ~line.colon
    <3>1. pemState' = "FAILED"
      BY <1>2, <1>7, <2>7 DEF Analysed, IsHeader
    <3>2. QED
      BY <2>4, <2>7, <3>1
  <2>8. QED
    BY <2>5, <2>6, <2>7
<1>8. CASE pemState = "BODY"
  <2>1. PICK b \in Nat, t \in Nat :
          InText(file, b, t, read) /\ Gathered(result, TextTo(file, t, read))
    BY <1>1, <1>8 DEF PemReached
  <2>2. pemState' = IF IsBoundary(line, "END") THEN "POST" ELSE "BODY"
    BY <1>2, <1>8 DEF Analysed
  <2>3. result' = IF IsBoundary(line, "END") THEN result ELSE result \o Decoded(line.text)
    BY <1>2, <1>8 DEF IsText
  <2>4. Starts(file, b, t) /\ b + 1 <= read + 1 /\ t <= read + 1 /\ NoEnd(file, t, read)
    BY <1>1, <2>1 DEF InText
  <2>5. IF Boundary(file, read + 1, "END") THEN AtEnd(file, b, t, read + 1)
                                         ELSE InText(file, b, t, read + 1)
    BY <1>1, <2>4, TextGoesOn
  <2>6. CASE IsBoundary(line, "END")
    BY <1>1, <1>3, <2>1, <2>2, <2>3, <2>5, <2>6 DEF PemReached
  <2>7. CASE ~IsBoundary(line, "END")
    <3>1. Gathered(result', TextTo(file, t, read + 1))
      <4>1. t \in 1..Len(file) /\ read \in 0..Len(file) - 1
        BY <1>1, <2>4 DEF Starts
      <4>2. QED
        BY <1>1, <2>1, <2>3, <2>4, <2>7, <4>1, Gathering DEF line
    <3>2. QED
      BY <1>1, <1>3, <2>2, <2>5, <2>7, <3>1 DEF PemReached
  <2>8. QED
    BY <2>6, <2>7
<1>9. CASE pemState = "POST"
  <2>1. PICK b \in Nat, t \in Nat : AtEnd(file, b, t, read)
    BY <1>1, <1>9 DEF PemReached
  <2>2. pemState' = "FAILED"
    BY <1>2, <1>9 DEF Analysed
  <2>3. QED
    BY <1>1, <2>1, <2>2, NothingFollows
<1>10. QED
  BY <1>1, <1>5, <1>6, <1>7, <1>8, <1>9 DEF PemReached

\* and at the end of the file.
LEMMA FileEnded ==
  ASSUME NEW S, PemInv(S), EndOfFile
  PROVE  PemInv(S)'
<1>1. /\ file \in Seq(Lines(S)) /\ Len(file) \in Nat /\ read = Len(file)
      /\ UNCHANGED <<file, read, pemState, result>> /\ PemReached
      /\ verdict' = IF pemState = "POST" THEN "SUCCESS" ELSE "FAILED"
  BY DEF PemInv, EndOfFile
<1>2. SUFFICES PemDecoded'
  BY <1>1 DEF PemInv
<1>3. CASE pemState # "POST"
  <2>1. NotPem(file)
    <3>1. CASE pemState \in {"PRE", "MSG"}
      BY <1>1, <3>1, NoMessage DEF PemReached
    <3>2. CASE pemState = "HEADER"
      BY <1>1, <3>2, NoText DEF PemReached
    <3>3. CASE pemState = "BODY"
      BY <1>1, <3>3, NoEndOfText DEF PemReached
    <3>4. QED
      BY <1>1, <1>3, <3>1, <3>2, <3>3 DEF PemReached
  <2>2. QED
    BY <1>1, <1>3, <2>1 DEF PemDecoded, NotPem
<1>4. CASE pemState = "POST"
  <2>1. PICK b \in Nat, t \in Nat :
          AtEnd(file, b, t, read) /\ Gathered(result, TextTo(file, t, read - 1))
    BY <1>1, <1>4 DEF PemReached
  <2>2. /\ b \in 1..Len(file) /\ t \in 1..Len(file) /\ IsPem(file, b, t)
        /\ \A c, u \in 1..Len(file) : IsPem(file, c, u) => u = t
        /\ Text(file, t) = TextTo(file, t, Len(file) - 1)
    BY <1>1, <2>1, WholeFile
  <2>3. Tidy(Text(file, t)) => result = Decoded(FlattenSeq(Text(file, t)))
    BY <1>1, <2>1, <2>2 DEF Gathered
  <2>4. verdict' = "SUCCESS" /\ file' = file /\ result' = result
    BY <1>1, <1>4
  <2> DEFINE parts == {p \in (1..Len(file)) \X (1..Len(file)) : IsPem(file, p[1], p[2])}
  <2>5. parts # {}
    <3>1. <<b, t>> \in parts
      BY <2>2
    <3>2. QED
      BY <3>1
  <2>6. ASSUME NEW p \in parts, Tidy(Text(file, p[2]))
        PROVE  result = Decoded(FlattenSeq(Text(file, p[2])))
    <3>1. p[2] = t
      BY <2>2
    <3>2. QED
      BY <2>3, <2>6, <3>1, Zenon
  <2>7. parts' = parts
    BY <2>4
  <2>8. QED
    BY <2>4, <2>5, <2>6, <2>7, Zenon DEF PemDecoded
<1>5. QED
  BY <1>3, <1>4

\* Every file of lines, of any characters: a PEM file and nothing else is
\* accepted, and a tidy text is decoded as a whole.
THEOREM PemIsDecoded ==
  ASSUME NEW S, NEW files, \A f \in files : f \in Seq(Lines(S))
  PROVE  PemSpec(files) => []PemDecoded
<1>1. InitPem(files) => PemInv(S)
  BY PemInitially
<1>2. PemInv(S) /\ [PemNext]_pemVars => PemInv(S)'
  <2>1. SUFFICES ASSUME PemInv(S), [PemNext]_pemVars PROVE PemInv(S)'
    OBVIOUS
  <2>2. CASE ReadLine
    BY <2>1, <2>2, LineRead
  <2>3. CASE EndOfFile
    BY <2>1, <2>3, FileEnded
  <2>4. CASE UNCHANGED pemVars
    BY <2>1, <2>4 DEF pemVars, PemInv, PemReached, PemDecoded
  <2>5. QED
    BY <2>1, <2>2, <2>3, <2>4 DEF PemNext
<1>3. PemInv(S) => PemDecoded
  BY DEF PemInv
<1>4. QED
  BY <1>1, <1>2, <1>3, PTL DEF PemSpec
-----------------------------------------------------------------------------
(* asn1Parser. *)

\* A length of any octets is a natural number.
LEMMA LengthIsNat ==
  ASSUME NEW d \in Seq(Nat)
  PROVE  LengthOf(d) \in Nat
<1> DEFINE L == Len(d)
           step == [x \in Nat \X (1..L) |-> Longer(x[1], d[x[2]])]
           Eq(iter) == iter = [s \in SUBSET DOMAIN d |->
                         IF s = {} THEN 0 ELSE LET x == Max(s) IN Longer(iter[s \ {x}], d[x])]
           fold == CHOOSE iter : Eq(iter)
<1>1. LengthOf(d) = fold[DOMAIN d]
  BY Zenon DEF LengthOf, FoldLeft, MapThenFoldSet
<1>2. DOMAIN d = 1..L /\ L \in Nat
  OBVIOUS
<1>3. \A n \in Nat, j \in 1..L : Longer(n, d[j]) \in Nat
  BY DEF Longer
<1> HIDE DEF L
<1>4. step \in [Nat \X (1..L) -> Nat]
  BY <1>3
<1>5. \A n \in Nat, j \in 1..L : step[<<n, j>>] = Longer(n, d[j])
  OBVIOUS
<1> HIDE DEF step
<1>6. PICK h : IsFold(h, L, Nat, 0, step)
  BY <1>2, <1>4, SetRecursion, 0 \in Nat
<1>7. /\ h \in [SUBSET (1..L) -> Nat]
      /\ h[{}] = 0
      /\ \A s \in SUBSET (1..L) : s # {} => h[s] = step[<<h[s \ {Max(s)}], Max(s)>>]
  BY <1>6, Zenon DEF IsFold
<1>8. \A s \in SUBSET (1..L) : s # {} => Max(s) \in 1..L /\ s \ {Max(s)} \in SUBSET (1..L)
  <2> TAKE s \in SUBSET (1..L)
  <2> HAVE s # {}
  <2>1. s \subseteq 0..L
    BY <1>2
  <2>2. Max(s) \in s
    BY <2>1, <1>2, MaxIsGreatest
  <2>3. QED
    BY <2>2
<1>9. Eq(h)
  <2> DEFINE Val(s) == IF s = {} THEN 0 ELSE LET x == Max(s) IN Longer(h[s \ {x}], d[x])
  <2>1. ASSUME NEW s \in SUBSET (1..L) PROVE h[s] = Val(s)
    <3>1. CASE s = {}
      BY <3>1, <1>7
    <3>2. CASE s # {}
      <4>1. h[s \ {Max(s)}] \in Nat /\ Max(s) \in 1..L
        BY <3>2, <1>7, <1>8, Zenon
      <4>2. h[s] = Longer(h[s \ {Max(s)}], d[Max(s)])
        BY <4>1, <3>2, <1>5, <1>7, Zenon
      <4>3. QED
        BY <4>2, <3>2, Zenon
    <3>3. QED
      BY <3>1, <3>2
  <2>2. h = [s \in SUBSET (1..L) |-> h[s]]
    BY <1>7, Zenon
  <2>3. [s \in SUBSET (1..L) |-> h[s]] = [s \in SUBSET (1..L) |-> Val(s)]
    BY <2>1, Zenon
  <2>4. QED
    BY <2>2, <2>3, <1>2, Zenon
<1>10. Eq(fold)
  BY <1>9, Zenon
<1> HIDE DEF fold
<1>11. \A s \in SUBSET (1..L) :
         fold[s] = IF s = {} THEN 0 ELSE Longer(fold[s \ {Max(s)}], d[Max(s)])
  BY <1>2, <1>10, Zenon
<1> DEFINE T == {j \in 0..L : fold[1..j] \notin Nat}
<1>12. SUFFICES ASSUME T # {} PROVE FALSE
  <2>1. L \in 0..L
    BY <1>2
  <2>2. L \notin T
    BY <1>12, Zenon
  <2>3. fold[1..L] \in Nat
    BY <2>1, <2>2, Zenon
  <2>4. QED
    BY <1>1, <1>2, <2>3, Zenon
<1>13. PICK m \in T : \A j \in T : m <= j
  BY <1>12, LeastExists, T \subseteq Nat
<1>14. CASE m = 0
  <2>1. 1..0 = {}
    OBVIOUS
  <2>2. {} \in SUBSET (1..L)
    OBVIOUS
  <2>3. fold[1..m] = 0
    BY <2>1, <2>2, <1>11, <1>14, Zenon
  <2>4. QED
    BY <2>3, <1>13
<1>15. CASE m # 0
  <2>1. /\ m \in 1..L /\ m - 1 \in 0..L /\ ~ (m <= m - 1)
        /\ 1..m \in SUBSET (1..L) /\ 1..m # {} /\ (1..m) \ {m} = 1..(m - 1)
        /\ 1..m \subseteq Nat /\ m \in 1..m /\ \A x \in 1..m : x <= m
    <3>1. m \in 0..L
      BY <1>13, Zenon
    <3>2. /\ m \in 1..L /\ m - 1 \in 0..L /\ ~ (m <= m - 1) /\ m \in Nat
      BY <3>1, <1>2, <1>15
    <3>3. 1..m \in SUBSET (1..L) /\ 1..m # {} /\ (1..m) \ {m} = 1..(m - 1)
      <4>1. (1..m) \ {m} = 1..(m - 1)
        BY <3>2
      <4>2. 1..m \subseteq 1..L /\ m \in 1..m
        BY <3>2, <1>2
      <4>3. QED
        BY <4>1, <4>2
    <3>4. 1..m \subseteq Nat /\ m \in 1..m /\ \A x \in 1..m : x <= m
      BY <3>2
    <3>5. QED
      BY <3>2, <3>3, <3>4
  <2>2. fold[1..(m - 1)] \in Nat
    BY <1>13, <2>1, Zenon
  <2>3. Max(1..m) = m
    BY <2>1, MaxIs
  <2>4. fold[1..m] = Longer(fold[1..(m - 1)], d[m])
    BY <1>11, <2>1, <2>3, Zenon
  <2>5. fold[1..m] \in Nat
    BY <1>3, <2>1, <2>2, <2>4, Zenon
  <2>6. QED
    BY <1>13, <2>5
<1>16. QED
  BY <1>14, <1>15
-----------------------------------------------------------------------------
Octets == 0..255

\* A chunk is a piece of the blob; an empty one may be anywhere.
InBlob(bytes, c) ==
  /\ c = Chunk(c.ptr, c.len) /\ c.ptr \in Nat /\ c.len \in Nat
  /\ c.ptr + c.len <= Len(bytes) + 1
  /\ c.len > 0 => c.ptr > 0

\* The contents of an object lie in the chunk at whose front it is.
LEMMA ContentsInside ==
  ASSUME NEW bytes \in Seq(Octets), NEW c, InBlob(bytes, c), Contents(bytes, c) # Invalid
  PROVE  LET body == Contents(bytes, c)
         IN  /\ InBlob(bytes, body) /\ c.len > 0
             /\ c.ptr + 1 < body.ptr /\ body.ptr + body.len <= c.ptr + c.len
<1> DEFINE n == bytes[c.ptr + 1]
           octets == IF n < 128 THEN 0 ELSE n - 128
           start == c.ptr + 2 + octets
           left == c.len - 2 - octets
           d == SubSeq(bytes, c.ptr + 2, c.ptr + 1 + octets)
           len == IF n < 128 THEN n ELSE LengthOf(d)
<1>1. Contents(bytes, c) = IF c.len < 2 \/ n = 128 \/ left < 0 \/ octets > 4 THEN Invalid
                           ELSE IF len > left THEN Invalid ELSE Chunk(start, len)
  BY Zenon DEF Contents
<1>2. ~ (c.len < 2 \/ n = 128 \/ left < 0 \/ octets > 4) /\ ~ (len > left)
      /\ Contents(bytes, c) = Chunk(start, len)
  BY <1>1
<1>3. /\ c.ptr \in Nat /\ c.len \in Nat /\ c.ptr + c.len <= Len(bytes) + 1
      /\ c.ptr > 0 /\ c.len >= 2 /\ Len(bytes) \in Nat
  BY <1>2 DEF InBlob
<1>4. c.ptr + 1 \in 1..Len(bytes) /\ n \in Octets
  <2>1. c.ptr + 1 \in 1..Len(bytes)
    BY <1>3
  <2>2. QED
    BY <2>1
<1>5. octets \in Nat /\ n \in Nat
  <2> HIDE DEF n
  <2>1. n \in 0..255
    BY <1>4 DEF Octets
  <2>2. QED
    BY <2>1
<1>6. len \in Nat
  <2>1. CASE n < 128
    BY <2>1, <1>5
  <2>2. CASE ~ (n < 128)
    <3> HIDE DEF octets, n
    <3>0. octets <= c.len - 2
      BY <1>2, <1>3, <1>5
    <3>1. c.ptr + 2 \in 1..Len(bytes) + 1 /\ c.ptr + 1 + octets \in c.ptr + 1..Len(bytes)
      BY <1>3, <1>5, <3>0
    <3>2. \A i \in c.ptr + 2..c.ptr + 1 + octets : bytes[i] \in Nat
      <4> TAKE i \in c.ptr + 2..c.ptr + 1 + octets
      <4>1. i \in 1..Len(bytes)
        BY <1>3, <1>5, <3>1
      <4>2. bytes[i] \in Octets
        BY <4>1
      <4>3. Octets \subseteq Nat
        BY DEF Octets
      <4>4. QED
        BY <4>2, <4>3, Zenon
    <3>3. d \in Seq(Nat)
      BY <1>3, <1>5, <3>1, <3>2, SubSeqProperties
    <3>4. QED
      BY <2>2, <3>3, LengthIsNat
  <2>3. QED
    BY <2>1, <2>2
<1> HIDE DEF octets, n, len
<1>7. QED
  BY <1>2, <1>3, <1>5, <1>6 DEF InBlob, Chunk
-----------------------------------------------------------------------------
\* A table ends with row n; an option and a loop have their end before it.
IsTable(n) ==
  /\ DOMAIN Objects = 0..n
  /\ \A r \in 0..n : Level(r) \in 0..10
  /\ Objects[n].flags = {"EXIT"}
  /\ \A r \in 0..n - 1 :
       /\ Is(r, "DEF") /\ IsConstructed(r) => r + 1 < n
       /\ Is(r, "OPT") \/ Is(r, "LOOP") =>
            \E e \in r + 1..n - 1 : Is(e, "END") /\ Level(e) = Level(r)

Rows(n) ==
  /\ mLine \in -1..n
  /\ walk = "on" => mLine < n
  /\ mLoopAddr \in [0..10 -> 0..n]

\* The objects that lie in the blob.
Pieces(n, bytes) ==
  {[id |-> o[1], bytes |-> SubSeq(bytes, o[2], o[3])] :
     o \in {x \in (0..n) \X (1..Len(bytes) + 1) \X (0..Len(bytes)) : x[2] <= x[3] + 1}}

\* The pieces that wait to be parsed lie in the blob, those of a level behind
\* those of the levels below, and so does everything that was given out.
StaysInside(n) ==
  /\ DOMAIN mBlobs = 0..11
  /\ \A level \in 0..11 : InBlob(blob, mBlobs[level])
  /\ \A level \in 0..10 : mBlobs[level + 1].ptr + mBlobs[level + 1].len <= mBlobs[level].ptr
  /\ found \in Seq(Pieces(n, blob))

ParserInv(n) == blob \in Seq(Octets) /\ Rows(n) /\ StaysInside(n)

\* iterate works on a row of the table.
LEMMA CurrentIsARow ==
  ASSUME NEW n \in Nat, IsTable(n), Rows(n), Walking
  PROVE  /\ Current \in 0..n /\ Level(Current) \in 0..10
         /\ ~Is(Current, "EXIT") => Current \in 0..n - 1
<1>1. mLine + 1 \in 0..n
  BY DEF Rows, Walking
<1>2. Level(mLine + 1) \in 0..10
  BY <1>1 DEF IsTable
<1>3. mLoopAddr[Level(mLine + 1)] \in 0..n
  BY <1>2 DEF Rows
<1>4. Current \in 0..n
  BY <1>1, <1>3, Zenon DEF Current
<1>5. Is(n, "EXIT")
  BY DEF IsTable, Is
<1>6. QED
  BY <1>4, <1>5 DEF IsTable

\* An option or a loop is skipped to a row of the table.
LEMMA EndOfIsARow ==
  ASSUME NEW n \in Nat, IsTable(n), NEW r \in 0..n - 1, Is(r, "OPT") \/ Is(r, "LOOP")
  PROVE  EndOf(r) \in r + 1..n - 1 /\ Is(EndOf(r), "END") /\ Level(EndOf(r)) = Level(r)
<1> DEFINE T == {e \in DOMAIN Objects : e > r /\ Is(e, "END") /\ Level(e) = Level(r)}
<1>1. DOMAIN Objects = 0..n /\ T \subseteq Nat
  BY DEF IsTable
<1>2. PICK e \in r + 1..n - 1 : Is(e, "END") /\ Level(e) = Level(r)
  BY DEF IsTable
<1>3. e \in T
  BY <1>1, <1>2
<1>4. PICK m \in T : \A x \in T : m <= x
  BY <1>1, <1>3, LeastExists
<1>5. EndOf(r) = CHOOSE x \in T : \A y \in T : x =< y
  BY Zenon DEF EndOf, Min
<1>6. EndOf(r) \in T /\ \A y \in T : EndOf(r) <= y
  BY <1>4, <1>5, Zenon
<1>7. EndOf(r) \in 0..n /\ EndOf(r) > r /\ Is(EndOf(r), "END") /\ Level(EndOf(r)) = Level(r)
  BY <1>1, <1>6, Zenon
<1>8. EndOf(r) <= e
  BY <1>3, <1>6, Zenon
<1>9. EndOf(r) \in r + 1..n - 1
  <2> DEFINE k == EndOf(r)
  <2> HIDE DEF k
  <2>1. k \in 0..n /\ k > r /\ k <= e
    BY <1>7, <1>8 DEF k
  <2>2. k \in r + 1..n - 1
    BY <2>1
  <2>3. QED
    BY <2>2 DEF k
<1>10. QED
  BY <1>7, <1>9

\* The parser is made inside of its blob.
LEMMA ParserInitially ==
  ASSUME NEW n \in Nat, IsTable(n), NEW bytes \in Seq(Octets), InitParser(bytes)
  PROVE  ParserInv(n)
<1>1. blob \in Seq(Octets) /\ Len(blob) \in Nat
  BY DEF InitParser
<1>2. Rows(n)
  BY DEF InitParser, Rows
<1>3. DOMAIN mBlobs = 0..11 /\ mBlobs[0] = Chunk(1, Len(blob))
      /\ \A level \in 1..11 : mBlobs[level] = Chunk(0, 0)
      /\ Chunk(0, 0).ptr = 0 /\ Chunk(0, 0).len = 0 /\ Chunk(1, Len(blob)).ptr = 1
  BY DEF InitParser, Chunk
<1>4. \A level \in 0..11 : InBlob(blob, mBlobs[level])
  <2> TAKE level \in 0..11
  <2>1. CASE level = 0
    BY <1>1, <1>3, <2>1 DEF InBlob, Chunk
  <2>2. CASE level # 0
    <3>1. level \in 1..11
      BY <2>2
    <3>2. mBlobs[level] = Chunk(0, 0)
      BY <1>3, <3>1
    <3>3. QED
      BY <1>1, <3>2 DEF InBlob, Chunk
  <2>3. QED
    BY <2>1, <2>2
<1>5. \A level \in 0..10 : mBlobs[level + 1].ptr + mBlobs[level + 1].len <= mBlobs[level].ptr
  <2> TAKE level \in 0..10
  <2>1. level + 1 \in 1..11 /\ (level = 0 \/ level \in 1..11)
    OBVIOUS
  <2>2. mBlobs[level + 1].ptr = 0 /\ mBlobs[level + 1].len = 0 /\ mBlobs[level].ptr \in Nat
    BY <1>3, <2>1
  <2>3. QED
    BY <2>2
<1>6. found \in Seq(Pieces(n, blob))
  BY DEF InitParser
<1>7. QED
  BY <1>1, <1>2, <1>3, <1>4, <1>5, <1>6 DEF ParserInv, StaysInside

\* A chunk that is not before the blob is a piece of it.
LEMMA PieceIs ==
  ASSUME NEW n \in Nat, NEW bytes \in Seq(Octets), NEW r \in 0..n,
         NEW p \in Nat, NEW l \in Nat, p > 0, p + l <= Len(bytes) + 1
  PROVE  [id |-> r, bytes |-> SubSeq(bytes, p, p + l - 1)] \in Pieces(n, bytes)
<1> DEFINE o == <<r, p, p + l - 1>>
<1>1. o \in (0..n) \X (1..Len(bytes) + 1) \X (0..Len(bytes)) /\ o[2] <= o[3] + 1
  OBVIOUS
<1>2. o[1] = r /\ o[2] = p /\ o[3] = p + l - 1
  OBVIOUS
<1>3. [id |-> o[1], bytes |-> SubSeq(bytes, o[2], o[3])] \in Pieces(n, bytes)
  BY <1>1, Zenon DEF Pieces
<1>4. QED
  BY <1>2, <1>3, Zenon

\* What an object does to the pieces that wait.
LEMMA ObjectTaken ==
  ASSUME NEW n \in Nat, IsTable(n), ParserInv(n), Object
  PROVE  LET body == Contents(blob, Rest)
             level == Level(Current)
         IN  /\ Current \in 0..n - 1 /\ level \in 0..10 /\ level + 1 \in 0..11
             /\ body = Invalid => UNCHANGED mBlobs
             /\ body # Invalid =>
                  /\ Rest.len > 0 /\ Rest.ptr + 1 < body.ptr
                  /\ InBlob(blob, Rest) /\ InBlob(blob, body)
                  /\ body.ptr + body.len <= Rest.ptr + Rest.len
                  /\ DOMAIN mBlobs' = 0..11
                  /\ mBlobs'[level] = Chunk(body.ptr + body.len,
                                            Rest.ptr + Rest.len - body.ptr - body.len)
                  /\ mBlobs'[level + 1] = body
                  /\ \A l \in 0..11 \ {level, level + 1} : mBlobs'[l] = mBlobs[l]
<1> DEFINE body == Contents(blob, Rest)
           level == Level(Current)
           behind == Chunk(body.ptr + body.len, Rest.ptr + Rest.len - body.ptr - body.len)
<1>1. Current \in 0..n - 1 /\ level \in 0..10
  BY CurrentIsARow DEF ParserInv, Object
<1>2. InBlob(blob, Rest) /\ DOMAIN mBlobs = 0..11 /\ blob \in Seq(Octets)
  BY <1>1 DEF ParserInv, StaysInside, Rest
<1>3. level + 1 \in 0..11 /\ level \in 0..11 /\ level # level + 1
  BY <1>1
<1>4. /\ body = Invalid => UNCHANGED mBlobs
      /\ body # Invalid => mBlobs' = [mBlobs EXCEPT ![level] = behind, ![level + 1] = body]
  BY Zenon DEF Object
<1>5. body # Invalid => /\ InBlob(blob, body) /\ Rest.len > 0
                        /\ Rest.ptr + 1 < body.ptr /\ body.ptr + body.len <= Rest.ptr + Rest.len
  BY <1>2, ContentsInside
<1> HIDE DEF body, level, behind
<1>6. ASSUME body # Invalid
      PROVE  /\ DOMAIN mBlobs' = 0..11 /\ mBlobs'[level] = behind /\ mBlobs'[level + 1] = body
             /\ \A l \in 0..11 \ {level, level + 1} : mBlobs'[l] = mBlobs[l]
  BY <1>2, <1>3, <1>4, <1>6
<1>7. QED
  BY <1>1, <1>2, <1>3, <1>4, <1>5, <1>6 DEF body, level, behind

\* Nothing is parsed twice: the pieces that wait only move towards the end.
Onward == \A level \in 0..11 : mBlobs[level].ptr <= mBlobs'[level].ptr

\* Whatever iterate does, the pieces stay nested and move on.
LEMMA PiecesStep ==
  ASSUME NEW n \in Nat, IsTable(n), ParserInv(n), iterate
  PROVE  /\ DOMAIN mBlobs' = 0..11
         /\ \A level \in 0..11 : InBlob(blob, mBlobs'[level])
         /\ \A level \in 0..10 : mBlobs'[level + 1].ptr + mBlobs'[level + 1].len <= mBlobs'[level].ptr
         /\ Onward
<1>1. /\ DOMAIN mBlobs = 0..11
      /\ \A level \in 0..11 : InBlob(blob, mBlobs[level])
      /\ \A level \in 0..10 : mBlobs[level + 1].ptr + mBlobs[level + 1].len <= mBlobs[level].ptr
  BY DEF ParserInv, StaysInside
<1>2. CASE UNCHANGED mBlobs
  <2>1. \A level \in 0..11 : mBlobs[level].ptr \in Nat
    BY <1>1 DEF InBlob
  <2>2. QED
    BY <1>1, <1>2, <2>1 DEF Onward
<1>3. CASE Object /\ Contents(blob, Rest) # Invalid
  <2> DEFINE body == Contents(blob, Rest)
             lv == Level(Current)
             behind == Chunk(body.ptr + body.len, Rest.ptr + Rest.len - body.ptr - body.len)
             B == mBlobs'
  <2>1. /\ lv \in 0..10 /\ lv + 1 \in 0..11
        /\ Rest.len > 0 /\ Rest.ptr + 1 < body.ptr
        /\ InBlob(blob, Rest) /\ InBlob(blob, body)
        /\ body.ptr + body.len <= Rest.ptr + Rest.len
        /\ DOMAIN B = 0..11 /\ B[lv] = behind /\ B[lv + 1] = body
        /\ \A l \in 0..11 \ {lv, lv + 1} : B[l] = mBlobs[l]
    BY <1>3, ObjectTaken
  <2>2. Rest = mBlobs[lv]
    BY DEF Rest
  <2> HIDE DEF body, lv, B
  <2>3. /\ body.ptr \in Nat /\ body.len \in Nat /\ Rest.ptr \in Nat /\ Rest.len \in Nat
        /\ behind.ptr = body.ptr + body.len
        /\ behind.len = Rest.ptr + Rest.len - body.ptr - body.len
        /\ behind.ptr \in Nat /\ behind.len \in Nat
        /\ behind.ptr + behind.len = Rest.ptr + Rest.len
    BY <2>1 DEF InBlob, Chunk
  <2>4. InBlob(blob, behind)
    BY <2>1, <2>3 DEF InBlob, Chunk
  <2> HIDE DEF behind
  <2>5. \A l \in 0..11 : InBlob(blob, B[l])
    BY <1>1, <2>1, <2>4
  <2>6. \A l \in 0..11 : mBlobs[l].ptr \in Nat /\ mBlobs[l].len \in Nat
    BY <1>1 DEF InBlob
  <2>7. mBlobs[lv + 1].ptr + mBlobs[lv + 1].len <= Rest.ptr
    BY <1>1, <2>1, <2>2
  <2>8. ASSUME NEW l \in 0..11 PROVE mBlobs[l].ptr <= B[l].ptr
    <3>1. CASE l = lv
      BY <2>1, <2>2, <2>3, <3>1
    <3>2. CASE l = lv + 1
      BY <2>1, <2>3, <2>6, <2>7, <3>2
    <3>3. CASE l \notin {lv, lv + 1}
      BY <2>1, <2>6, <3>3
    <3>4. QED
      BY <3>1, <3>2, <3>3
  <2>9. ASSUME NEW l \in 0..10 PROVE B[l + 1].ptr + B[l + 1].len <= B[l].ptr
    <3>1. mBlobs[l + 1].ptr + mBlobs[l + 1].len <= mBlobs[l].ptr /\ l + 1 \in 0..11 /\ l \in 0..11
      BY <1>1
    <3>2. CASE l = lv
      BY <2>1, <2>3, <3>2
    <3>3. CASE l = lv + 1
      <4>1. l + 1 \notin {lv, lv + 1} /\ B[l + 1] = mBlobs[l + 1] /\ B[l] = body
        BY <2>1, <3>1, <3>3
      <4>2. QED
        <5>1. mBlobs[l].ptr \in Nat /\ mBlobs[l].len \in Nat /\ mBlobs[l + 1].ptr + mBlobs[l + 1].len \in Nat
          BY <2>6, <3>1
        <5>2. mBlobs[l].ptr + mBlobs[l].len <= Rest.ptr /\ Rest.ptr + 1 < body.ptr
          BY <2>1, <2>7, <3>3
        <5>3. QED
          BY <2>3, <3>1, <4>1, <5>1, <5>2
    <3>4. CASE l + 1 = lv
      <4>1. l \notin {lv, lv + 1} /\ B[l] = mBlobs[l] /\ B[l + 1] = behind
        BY <2>1, <3>1, <3>4
      <4>2. QED
        BY <2>2, <2>3, <3>1, <3>4, <4>1
    <3>5. CASE l \notin {lv, lv + 1} /\ l + 1 # lv
      <4>1. B[l] = mBlobs[l] /\ B[l + 1] = mBlobs[l + 1]
        BY <2>1, <3>1, <3>5
      <4>2. QED
        BY <3>1, <4>1
    <3>6. QED
      BY <3>2, <3>3, <3>4, <3>5
  <2>10. QED
    BY <2>1, <2>5, <2>8, <2>9 DEF B, Onward
<1>4. CASE Object /\ Contents(blob, Rest) = Invalid
  BY <1>2, <1>4, ObjectTaken
<1>5. CASE Exit \/ End \/ Default \/ Option
  BY <1>2, <1>5 DEF Exit, End, Default, Option
<1>6. QED
  BY <1>3, <1>4, <1>5 DEF iterate

\* iterate stays in the table.
LEMMA RowsStep ==
  ASSUME NEW n \in Nat, IsTable(n), ParserInv(n), iterate
  PROVE  Rows(n)' /\ blob' = blob
<1>1. /\ mLine \in -1..n /\ mLoopAddr \in [0..10 -> 0..n] /\ Walking
      /\ Current \in 0..n /\ Level(Current) \in 0..10
      /\ ~Is(Current, "EXIT") => Current \in 0..n - 1
  <2>1. Rows(n) /\ Walking
    BY DEF ParserInv, iterate, Exit, End, Default, Option, Object
  <2>2. QED
    BY <2>1, CurrentIsARow DEF Rows
<1>2. Objects[n].flags = {"EXIT"}
  BY DEF IsTable
<1>3. \A flag \in {"END", "DEF", "OPT"} : Is(Current, flag) => Current \in 0..n - 1
  BY <1>1, <1>2 DEF Is
<1>4. CASE Exit
  BY <1>1, <1>4 DEF Exit, Rows
<1>5. CASE End
  BY <1>1, <1>3, <1>5 DEF End, GoOn, Rows
<1>6. CASE Default
  <2>1. Is(Current, "DEF") /\ Current \in 0..n - 1
    BY <1>3, <1>6 DEF Default
  <2>2. IsConstructed(Current) => Current + 1 < n
    BY <2>1 DEF IsTable
  <2>3. mLine' \in 0..n - 1 /\ UNCHANGED <<blob, mLoopAddr>>
    BY <1>6, <2>1, <2>2 DEF Default, GoOn
  <2>4. QED
    BY <1>1, <2>3 DEF Rows
<1>7. CASE Option
  <2>1. Is(Current, "OPT") /\ Current \in 0..n - 1
    BY <1>3, <1>7 DEF Option
  <2>2. EndOf(Current) \in Current + 1..n - 1
    BY <2>1, EndOfIsARow
  <2>3. mLine' \in 0..n - 1 /\ UNCHANGED <<blob, mLoopAddr>>
    BY <1>7, <2>1, <2>2 DEF Option, GoOn
  <2>4. QED
    BY <1>1, <2>3 DEF Rows
<1>8. CASE Object
  <2>1. Current \in 0..n - 1
    BY <1>1, <1>8 DEF Object
  <2>2. Is(Current, "LOOP") => EndOf(Current) \in Current + 1..n - 1
    BY <2>1, EndOfIsARow
  <2>3. /\ blob' = blob
        /\ mLine' = Current \/ (Is(Current, "LOOP") /\ mLine' = EndOf(Current))
        /\ mLoopAddr' = mLoopAddr \/ mLoopAddr' = [mLoopAddr EXCEPT ![Level(Current)] = Current + 1]
    BY <1>8, Zenon DEF Object
  <2>4. mLine' \in 0..n - 1
    BY <2>1, <2>2, <2>3
  <2>5. Current + 1 \in 0..n
    BY <2>1
  <2>6. mLoopAddr' \in [0..10 -> 0..n]
    BY <1>1, <2>3, <2>5
  <2>7. QED
    BY <2>3, <2>4, <2>6 DEF Rows
<1>9. QED
  BY <1>4, <1>5, <1>6, <1>7, <1>8 DEF iterate

\* iterate gives out pieces of the blob.
LEMMA FoundStep ==
  ASSUME NEW n \in Nat, IsTable(n), ParserInv(n), iterate
  PROVE  found' \in Seq(Pieces(n, blob))
<1>1. found \in Seq(Pieces(n, blob)) /\ blob \in Seq(Octets)
  BY DEF ParserInv, StaysInside
<1>2. CASE found' = found
  BY <1>1, <1>2
<1>3. CASE Object /\ found' # found
  <2> DEFINE row == Current
             body == Contents(blob, Rest)
             whole == Chunk(Rest.ptr, body.ptr + body.len - Rest.ptr)
             out == IF Is(row, "RAW") \/ Is(row, "OBJ") THEN <<[id |-> row, bytes |-> BytesOf(whole)]>>
                    ELSE IF Is(row, "BODY") THEN <<[id |-> row, bytes |-> BytesOf(body)]>>
                    ELSE <<>>
  <2>1. body # Invalid /\ found' = found \o out
    BY <1>3, Zenon DEF Object
  <2>2. /\ row \in 0..n /\ InBlob(blob, Rest) /\ InBlob(blob, body)
        /\ Rest.len > 0 /\ Rest.ptr + 1 < body.ptr
    BY <1>3, <2>1, ObjectTaken
  <2> HIDE DEF row, body
  <2>3. /\ body.ptr \in Nat /\ body.len \in Nat /\ body.ptr > 0
        /\ body.ptr + body.len <= Len(blob) + 1
        /\ whole.ptr = Rest.ptr /\ whole.len = body.ptr + body.len - Rest.ptr
        /\ Rest.ptr \in Nat /\ Rest.ptr > 0 /\ whole.len \in Nat
        /\ whole.ptr + whole.len <= Len(blob) + 1
    BY <2>2 DEF InBlob, Chunk
  <2> HIDE DEF whole
  <2>4. [id |-> row, bytes |-> BytesOf(whole)] \in Pieces(n, blob)
    BY <1>1, <2>2, <2>3, PieceIs DEF BytesOf
  <2>5. [id |-> row, bytes |-> BytesOf(body)] \in Pieces(n, blob)
    BY <1>1, <2>2, <2>3, PieceIs DEF BytesOf
  <2>6. out \in Seq(Pieces(n, blob))
    BY <2>4, <2>5
  <2>7. QED
    BY <1>1, <2>1, <2>6, ConcatProperties
<1>4. CASE Exit \/ End \/ Default \/ Option
  BY <1>2, <1>4, Zenon DEF Exit, End, Default, Option, GoOn
<1>5. QED
  BY <1>2, <1>3, <1>4 DEF iterate

\* The invariant of the parser, for every step.
LEMMA ParserStep ==
  ASSUME NEW n \in Nat, IsTable(n), ParserInv(n), [iterate]_asn1Vars
  PROVE  ParserInv(n)' /\ Onward
<1>1. CASE iterate
  BY <1>1, PiecesStep, RowsStep, FoundStep DEF ParserInv, StaysInside
<1>2. CASE UNCHANGED asn1Vars
  <2>1. \A level \in 0..11 : mBlobs[level].ptr \in Nat
    BY DEF ParserInv, StaysInside, InBlob
  <2>2. QED
    <3>1. /\ blob' = blob /\ mLine' = mLine /\ mLoopAddr' = mLoopAddr
          /\ mBlobs' = mBlobs /\ found' = found /\ walk' = walk
      BY <1>2 DEF asn1Vars
    <3>2. Onward
      BY <2>1, <3>1 DEF Onward
    <3>3. Rows(n)' /\ StaysInside(n)'
      BY <3>1 DEF ParserInv, StaysInside, Rows
    <3>4. QED
      BY <3>1, <3>2, <3>3 DEF ParserInv
<1>3. QED
  BY <1>1, <1>2

\* For every table and every blob, iterate asks for no octet outside of the
\* blob and gives out nothing but pieces of it.
THEOREM ParserStaysInside ==
  ASSUME NEW n \in Nat, IsTable(n), NEW bytes \in Seq(Octets)
  PROVE  Asn1Spec(bytes) => []StaysInside(n)
<1>1. InitParser(bytes) => ParserInv(n)
  BY ParserInitially
<1>2. ParserInv(n) /\ [iterate]_asn1Vars => ParserInv(n)'
  BY ParserStep
<1>3. ParserInv(n) => StaysInside(n)
  BY DEF ParserInv
<1>4. QED
  BY <1>1, <1>2, <1>3, PTL DEF Asn1Spec

\* For every table and every blob, what waits at each level only moves on.
THEOREM ParserMovesOn ==
  ASSUME NEW n \in Nat, IsTable(n), NEW bytes \in Seq(Octets)
  PROVE  Asn1Spec(bytes) => [][Onward]_asn1Vars
<1>1. InitParser(bytes) => ParserInv(n)
  BY ParserInitially
<1>2. ParserInv(n) /\ [iterate]_asn1Vars => ParserInv(n)' /\ [Onward]_asn1Vars
  BY ParserStep
<1>3. QED
  BY <1>1, <1>2, PTL DEF Asn1Spec
-----------------------------------------------------------------------------
(* The table of a certificate: no walk goes on for ever. *)

\* The rows one by one.
LEMMA CertificateRows ==
  ASSUME Objects = certObjects
  PROVE  LET o == Objects IN
         /\ DOMAIN o = 0..26
         /\ o[0] = Row(0, SEQUENCE, {"OBJ"}) /\ o[1] = Row(1, SEQUENCE, {"OBJ"})
         /\ o[2] = Row(2, CONTEXT(0), {"DEF"}) /\ o[3] = Row(3, INTEGER, {"BODY"})
         /\ o[4] = Row(2, INTEGER, {"BODY"}) /\ o[5] = Row(2, 0, {"RAW"})
         /\ o[6] = Row(2, SEQUENCE, {"OBJ"}) /\ o[7] = Row(2, SEQUENCE, {})
         /\ o[8] = Row(3, 0, {"RAW"}) /\ o[9] = Row(3, 0, {"RAW"})
         /\ o[10] = Row(2, SEQUENCE, {"OBJ"}) /\ o[11] = Row(2, SEQUENCE, {"RAW"})
         /\ o[12] = Row(2, CONTEXT(1), {"OPT"}) /\ o[13] = Row(2, 0, {"END"})
         /\ o[14] = Row(2, CONTEXT(2), {"OPT"}) /\ o[15] = Row(2, 0, {"END"})
         /\ o[16] = Row(2, CONTEXT(3), {"OPT"}) /\ o[17] = Row(3, SEQUENCE, {"LOOP"})
         /\ o[18] = Row(4, SEQUENCE, {}) /\ o[19] = Row(5, OID, {"BODY"})
         /\ o[20] = Row(5, BOOL, {"DEF", "BODY"}) /\ o[21] = Row(5, OCTET_STRING, {"BODY"})
         /\ o[22] = Row(3, 0, {"END"}) /\ o[23] = Row(2, 0, {"END"})
         /\ o[24] = Row(1, 0, {"RAW"}) /\ o[25] = Row(1, BIT_STRING, {"BODY"})
         /\ o[26] = Row(0, 0, {"EXIT"})
  BY DEF certObjects

\* The parts of a row.
LEMMA RowIs ==
  \A l, t, f : Row(l, t, f).level = l /\ Row(l, t, f).type = t /\ Row(l, t, f).flags = f
  BY DEF Row

\* The rows are these.
LEMMA OneOfTheRows ==
  ASSUME NEW r \in 0..26
  PROVE  \/ r = 0 \/ r = 1 \/ r = 2 \/ r = 3 \/ r = 4 \/ r = 5 \/ r = 6 \/ r = 7 \/ r = 8
         \/ r = 9 \/ r = 10 \/ r = 11 \/ r = 12 \/ r = 13 \/ r = 14 \/ r = 15 \/ r = 16
         \/ r = 17 \/ r = 18 \/ r = 19 \/ r = 20 \/ r = 21 \/ r = 22 \/ r = 23 \/ r = 24
         \/ r = 25 \/ r = 26
  OBVIOUS

\* The table of a certificate is one, with a single loop over single objects.
LEMMA CertificateTable ==
  ASSUME Objects = certObjects
  PROVE  /\ IsTable(26)
         /\ \A r \in 0..26 : /\ Level(r) = 4 => r = 18
                             /\ Level(r) = 3 => r \in {3, 8, 9, 17, 22}
                             /\ Is(r, "LOOP") <=> r = 17
                             /\ Is(r, "END") <=> r \in {13, 15, 22, 23}
                             /\ Is(r, "EXIT") <=> r = 26
         /\ Level(17) = 3 /\ Level(18) = 4
         /\ Objects[18].flags = {}
<1>1. ASSUME NEW r \in 0..26
      PROVE  /\ Level(r) \in 0..10
             /\ Level(r) = 4 => r = 18
             /\ Level(r) = 3 => r \in {3, 8, 9, 17, 22}
  BY CertificateRows, RowIs, OneOfTheRows DEF Level
<1>2. ASSUME NEW r \in 0..26
      PROVE  /\ Is(r, "LOOP") <=> r = 17
             /\ Is(r, "END") <=> r \in {13, 15, 22, 23}
             /\ Is(r, "EXIT") <=> r = 26
             /\ Is(r, "DEF") <=> r \in {2, 20}
             /\ Is(r, "OPT") <=> r \in {12, 14, 16}
  BY CertificateRows, RowIs, OneOfTheRows DEF Is
<1>3. /\ Level(12) = 2 /\ Level(13) = 2 /\ Level(14) = 2 /\ Level(15) = 2 /\ Level(16) = 2
      /\ Level(23) = 2 /\ Level(17) = 3 /\ Level(22) = 3 /\ Level(18) = 4
  BY CertificateRows, RowIs DEF Level
<1>4. Objects[18].flags = {} /\ Objects[26].flags = {"EXIT"} /\ DOMAIN Objects = 0..26
  BY CertificateRows, RowIs
<1>5. ASSUME NEW r \in 0..26 - 1
      PROVE  /\ Is(r, "DEF") => r + 1 < 26
             /\ Is(r, "OPT") \/ Is(r, "LOOP") =>
                  \E e \in r + 1..26 - 1 : Is(e, "END") /\ Level(e) = Level(r)
  <2>1. Is(r, "DEF") => r + 1 < 26
    BY <1>2
  <2>2. CASE r = 12
    <3>1. 13 \in r + 1..26 - 1 /\ Is(13, "END") /\ Level(13) = Level(r)
      BY <1>2, <1>3, <2>2
    <3>2. QED
      BY <2>1, <3>1
  <2>3. CASE r = 14
    <3>1. 15 \in r + 1..26 - 1 /\ Is(15, "END") /\ Level(15) = Level(r)
      BY <1>2, <1>3, <2>3
    <3>2. QED
      BY <2>1, <3>1
  <2>4. CASE r = 16
    <3>1. 23 \in r + 1..26 - 1 /\ Is(23, "END") /\ Level(23) = Level(r)
      BY <1>2, <1>3, <2>4
    <3>2. QED
      BY <2>1, <3>1
  <2>5. CASE r = 17
    <3>1. 22 \in r + 1..26 - 1 /\ Is(22, "END") /\ Level(22) = Level(r)
      BY <1>2, <1>3, <2>5
    <3>2. QED
      BY <2>1, <3>1
  <2>6. CASE r \notin {12, 14, 16, 17}
    BY <1>2, <2>1, <2>6
  <2>7. QED
    BY <2>2, <2>3, <2>4, <2>5, <2>6
<1>6. IsTable(26)
  BY <1>1, <1>4, <1>5 DEF IsTable
<1>7. QED
  BY <1>1, <1>2, <1>3, <1>4, <1>6

\* What the extensions have left: all that may be before they are reached.
Left == IF mLine < 17 THEN Len(blob) + 1 ELSE mBlobs[4].len

\* A bound of the calls of iterate that are left.
Variant == IF Walking THEN 28 * Left + 26 - mLine ELSE 0

\* The only loop is that of the extensions.
OneLoop ==
  \A level \in 0..10 :
    mLoopAddr[level] # 0 => level = 3 /\ mLoopAddr[level] = 18 /\ mLine >= 17

CertificateInv == ParserInv(26) /\ OneLoop

\* iterate works on the next row, or on the first one of the loop.
LEMMA CertificateFacts ==
  ASSUME Objects = certObjects, CertificateInv, Walking
  PROVE  /\ mLine \in -1..25 /\ Current \in 0..26 /\ Level(Current) \in 0..10
         /\ Current = mLine + 1 \/ (Current = 18 /\ mLine >= 17)
         /\ mLine < 17 => Current = mLine + 1
<1>1. mLine \in -1..25 /\ mLine + 1 \in 0..26 /\ Level(mLine + 1) \in 0..10
  <2>1. mLine \in -1..25
    BY DEF CertificateInv, ParserInv, Rows, Walking
  <2>2. QED
    BY <2>1, CertificateTable DEF IsTable
<1>2. Current \in 0..26 /\ Level(Current) \in 0..10
  <2>1. 26 \in Nat /\ IsTable(26) /\ Rows(26)
    BY CertificateTable DEF CertificateInv, ParserInv
  <2>2. QED
    BY <2>1, CurrentIsARow
<1>3. CASE LoopsAgain(mLine + 1)
  <2>1. Current = mLoopAddr[Level(mLine + 1)] /\ mLoopAddr[Level(mLine + 1)] # 0
        /\ Is(mLine + 1, "END")
    BY <1>3, Zenon DEF Current, LoopsAgain
  <2>2. Current = 18 /\ mLine >= 17
    BY <1>1, <2>1 DEF CertificateInv, OneLoop
  <2>3. QED
    BY <1>1, <1>2, <2>2
<1>4. CASE ~LoopsAgain(mLine + 1)
  <2>1. Current = mLine + 1
    BY <1>4, Zenon DEF Current
  <2>2. QED
    BY <1>1, <1>2, <2>1
<1>5. QED
  BY <1>3, <1>4

\* No loop runs when the parser is made.
LEMMA CertificateInitially ==
  ASSUME Objects = certObjects, NEW bytes \in Seq(Octets), InitParser(bytes)
  PROVE  CertificateInv
<1>1. 26 \in Nat /\ IsTable(26)
  BY CertificateTable
<1>2. ParserInv(26)
  BY <1>1, ParserInitially
<1>3. OneLoop
  BY DEF InitParser, OneLoop
<1>4. QED
  BY <1>2, <1>3 DEF CertificateInv

\* No step goes back in the table but to the first row of the loop.
LEMMA LineMovesOn ==
  ASSUME Objects = certObjects, CertificateInv, iterate
  PROVE  /\ mLine' \in -1..26 /\ mLine' >= Current /\ blob' = blob
         /\ walk' = "on" => mLine' \in -1..25
<1>1. 26 \in Nat /\ IsTable(26) /\ ParserInv(26) /\ Walking
  BY CertificateTable DEF CertificateInv, iterate, Exit, End, Default, Option, Object
<1>2. Rows(26)' /\ blob' = blob
  BY <1>1, RowsStep
<1>3. Current \in 0..26 /\ (~Is(Current, "EXIT") => Current \in 0..26 - 1)
  BY <1>1, CurrentIsARow DEF ParserInv
<1>4. mLine' >= Current
  <2>1. CASE mLine' \in {Current, Current + 1}
    BY <1>3, <2>1
  <2>2. CASE mLine' = EndOf(Current) /\ (Is(Current, "OPT") \/ Is(Current, "LOOP"))
    <3>1. Current \in 0..26 - 1
      BY <1>3, <2>2, CertificateTable DEF IsTable, Is
    <3>2. EndOf(Current) \in Current + 1..26 - 1
      BY <1>1, <2>2, <3>1, EndOfIsARow
    <3>3. QED
      BY <2>2, <3>1, <3>2
  <2>3. CASE Exit \/ End \/ Default
    BY <2>1, <2>3 DEF Exit, End, Default, GoOn
  <2>4. CASE Option
    BY <2>2, <2>4 DEF Option, GoOn
  <2>5. CASE Object
    BY <2>1, <2>2, <2>5, Zenon DEF Object
  <2>6. QED
    BY <2>3, <2>4, <2>5 DEF iterate
<1>5. QED
  BY <1>2, <1>4 DEF Rows

\* Only the extensions are a loop.
LEMMA OneLoopStep ==
  ASSUME Objects = certObjects, CertificateInv, iterate
  PROVE  OneLoop'
<1>1. /\ Walking /\ OneLoop /\ mLoopAddr \in [0..10 -> 0..26]
  BY DEF CertificateInv, ParserInv, Rows, iterate, Exit, End, Default, Option, Object
<1>2. /\ mLine \in -1..25 /\ Current \in 0..26 /\ Level(Current) \in 0..10
      /\ mLine >= 17 => Current >= 17
  BY <1>1, CertificateFacts
<1>3. mLine' \in -1..26 /\ mLine' >= Current
  BY LineMovesOn
<1>4. mLine >= 17 => mLine' >= 17
  BY <1>2, <1>3
<1>5. CASE mLoopAddr' = mLoopAddr
  BY <1>1, <1>4, <1>5 DEF OneLoop
<1>6. CASE mLoopAddr' = [mLoopAddr EXCEPT ![Level(Current)] = 0]
  BY <1>1, <1>2, <1>4, <1>6 DEF OneLoop
<1>7. CASE mLoopAddr' = [mLoopAddr EXCEPT ![Level(Current)] = Current + 1] /\ Is(Current, "LOOP")
  <2>1. Current = 17 /\ Level(Current) = 3
    BY <1>2, <1>7, CertificateTable
  <2>2. mLine' >= 17
    BY <1>3, <2>1
  <2>3. \A level \in 0..10 : mLoopAddr'[level] = IF level = 3 THEN 18 ELSE mLoopAddr[level]
    BY <1>1, <1>7, <2>1
  <2>4. QED
    BY <1>1, <2>2, <2>3 DEF OneLoop
<1>8. QED
  BY <1>5, <1>6, <1>7, Zenon DEF iterate, Exit, End, Default, Option, Object

\* The extensions have less left only when one of them is taken.
LEMMA ExtensionTaken ==
  ASSUME Objects = certObjects, CertificateInv, iterate, mLine >= 17, walk' = "on"
  PROVE  /\ mBlobs[4].len \in Nat
         /\ \/ mBlobs'[4] = mBlobs[4] /\ mLine' > mLine
            \/ mBlobs'[4].len \in Nat /\ mBlobs'[4].len + 2 <= mBlobs[4].len /\ mLine' >= 18
<1>1. /\ Walking /\ 26 \in Nat /\ IsTable(26) /\ ParserInv(26)
  BY CertificateTable DEF CertificateInv, iterate, Exit, End, Default, Option, Object
<1>2. /\ mLine \in 17..25 /\ Current \in 18..26 /\ Level(Current) \in 0..10
      /\ Current = mLine + 1 \/ Current = 18
  BY <1>1, CertificateFacts
<1>3. mLine' \in -1..25 /\ mLine' >= Current
  BY LineMovesOn
<1>4. mBlobs[4].len \in Nat
  BY <1>1 DEF ParserInv, StaysInside, InBlob
<1>5. CASE Current = 18
  <2>1. Objects[18].flags = {} /\ Level(18) = 4
    BY CertificateTable
  <2>2. Object
    BY <1>5, <2>1 DEF iterate, Exit, End, Default, Option, Is
  <2>3. Contents(blob, Rest) # Invalid
    BY <2>2, Zenon DEF Object, Walking
  <2> DEFINE body == Contents(blob, Rest)
  <2>4. /\ Rest.ptr + 1 < body.ptr /\ InBlob(blob, Rest) /\ InBlob(blob, body)
        /\ body.ptr + body.len <= Rest.ptr + Rest.len
        /\ mBlobs'[4] = Chunk(body.ptr + body.len, Rest.ptr + Rest.len - body.ptr - body.len)
    BY <1>1, <1>5, <2>1, <2>2, <2>3, ObjectTaken
  <2>5. Rest = mBlobs[4]
    BY <1>5, <2>1 DEF Rest
  <2> HIDE DEF body
  <2>6. mBlobs'[4].len = Rest.ptr + Rest.len - body.ptr - body.len
    BY <2>4 DEF Chunk
  <2>7. mBlobs'[4].len \in Nat /\ mBlobs'[4].len + 2 <= mBlobs[4].len
    <3>1. /\ body.ptr \in Nat /\ body.len \in Nat /\ Rest.ptr \in Nat /\ Rest.len \in Nat
          /\ Rest.ptr + 1 < body.ptr /\ body.ptr + body.len <= Rest.ptr + Rest.len
      BY <2>4 DEF InBlob
    <3> DEFINE r == Rest.ptr
               rl == Rest.len
               b == body.ptr
               bl == body.len
    <3>2. r + rl - b - bl \in Nat /\ r + rl - b - bl + 2 <= rl
      <4> HIDE DEF r, rl, b, bl
      <4>1. r \in Nat /\ rl \in Nat /\ b \in Nat /\ bl \in Nat /\ r + 1 < b /\ b + bl <= r + rl
        BY <3>1 DEF r, rl, b, bl
      <4>2. QED
        BY <4>1
    <3>3. QED
      BY <2>5, <2>6, <3>2, Zenon
  <2>8. QED
    BY <1>3, <1>4, <1>5, <2>7
<1>6. CASE Current # 18
  <2>1. Current = mLine + 1 /\ mLine' > mLine
    BY <1>2, <1>3, <1>6
  <2>2. mBlobs'[4] = mBlobs[4]
    <3>1. CASE UNCHANGED mBlobs
      BY <3>1
    <3>2. CASE Object
      <4>1. Current \in 0..26 - 1 /\ ~Is(Current, "END")
        BY <1>1, <3>2, CurrentIsARow DEF Object, ParserInv
      <4>2. Level(Current) # 4 /\ Level(Current) # 3
        BY <1>2, <1>6, <4>1, CertificateTable
      <4>3. 4 \in 0..11 \ {Level(Current), Level(Current) + 1}
        BY <1>2, <4>2
      <4>4. QED
        BY <1>1, <3>2, <4>3, ObjectTaken
    <3>3. QED
      BY <3>1, <3>2, Zenon DEF iterate, Exit, End, Default, Option, Object
  <2>3. QED
    BY <1>4, <2>1, <2>2
<1>7. QED
  BY <1>5, <1>6

\* Every call leaves fewer.
LEMMA VariantLessens ==
  ASSUME Objects = certObjects, CertificateInv, iterate
  PROVE  Variant \in Nat /\ Variant' \in Nat /\ Variant' < Variant
<1>1. /\ Walking /\ 26 \in Nat /\ IsTable(26) /\ ParserInv(26) /\ Len(blob) \in Nat
  BY CertificateTable DEF CertificateInv, ParserInv, iterate, Exit, End, Default, Option, Object
<1>2. mLine \in -1..25 /\ Current \in 0..26 /\ (mLine < 17 => Current = mLine + 1)
  BY <1>1, CertificateFacts
<1>3. blob' = blob /\ mLine' \in -1..26 /\ mLine' >= Current /\ (walk' = "on" => mLine' \in -1..25)
  BY LineMovesOn
<1>4. mBlobs[4].len \in Nat
  BY <1>1 DEF ParserInv, StaysInside, InBlob
<1>5. Left \in Nat
  BY <1>1, <1>4 DEF Left
<1>6. Variant = 28 * Left + 26 - mLine
  BY <1>1 DEF Variant
<1>7. Variant \in Nat /\ Variant > 0
  BY <1>2, <1>5, <1>6
<1>8. CASE walk' # "on"
  <2>1. Variant' = 0
    BY <1>8 DEF Variant, Walking
  <2>2. QED
    BY <1>7, <2>1
<1>9. CASE walk' = "on" /\ mLine < 17
  <2>1. mLine' > mLine /\ mLine' \in -1..25
    BY <1>2, <1>3, <1>9
  <2>2. mBlobs'[4].len \in 0..Len(blob)
    <3>1. InBlob(blob, mBlobs'[4])
      BY <1>1, PiecesStep
    <3>2. QED
      BY <1>1, <3>1 DEF InBlob
  <2>3. Left = Len(blob) + 1
    BY <1>9 DEF Left
  <2>4. Left' = IF mLine' < 17 THEN Len(blob) + 1 ELSE mBlobs'[4].len
    BY <1>3 DEF Left
  <2>5. Variant' = 28 * Left' + 26 - mLine'
    BY <1>9 DEF Variant, Walking
  <2>6. CASE mLine' < 17
    BY <1>1, <1>2, <1>6, <2>1, <2>3, <2>4, <2>5, <2>6
  <2>7. CASE ~ (mLine' < 17)
    <3> DEFINE b == mBlobs'[4].len
               l == Len(blob)
    <3>1. b \in 0..l /\ l \in Nat /\ Left' = b /\ Left = l + 1 /\ mLine' >= 17
      BY <1>1, <2>1, <2>2, <2>3, <2>4, <2>7
    <3> HIDE DEF b, l
    <3>2. 28 * b + 26 - mLine' < 28 * (l + 1) + 26 - mLine /\ 28 * b + 26 - mLine' \in Nat
      <4> DEFINE i == mLine
                 j == mLine'
      <4> HIDE DEF i, j
      <4>1. i \in -1..25 /\ j \in 17..25 /\ b \in Nat /\ l \in Nat /\ b <= l
        BY <1>2, <2>1, <3>1 DEF i, j
      <4>2. 28 * b + 26 - j < 28 * (l + 1) + 26 - i /\ 28 * b + 26 - j \in Nat
        BY ONLY <4>1
      <4>3. QED
        BY <4>2 DEF i, j
    <3>3. QED
      BY <1>6, <1>7, <2>5, <3>1, <3>2, Zenon
  <2>8. QED
    BY <1>7, <2>6, <2>7
<1>10. CASE walk' = "on" /\ ~ (mLine < 17)
  <2>1. mLine >= 17 /\ mLine' \in 17..25
    <3>1. mLine >= 17
      BY <1>2, <1>10
    <3>2. mLine' > mLine \/ mLine' >= 18
      BY <1>10, <3>1, ExtensionTaken
    <3>3. QED
      BY <1>2, <1>3, <1>10, <3>1, <3>2
  <2>2. Left = mBlobs[4].len
    BY <1>10 DEF Left
  <2>3. Left' = mBlobs'[4].len
    BY <2>1 DEF Left
  <2>4. Variant' = 28 * Left' + 26 - mLine'
    BY <1>10 DEF Variant, Walking
  <2>5. CASE mBlobs'[4] = mBlobs[4] /\ mLine' > mLine
    BY <1>2, <1>4, <1>6, <2>1, <2>2, <2>3, <2>4, <2>5
  <2>6. CASE mBlobs'[4].len \in Nat /\ mBlobs'[4].len + 2 <= mBlobs[4].len
    BY <1>2, <1>4, <1>6, <2>1, <2>2, <2>3, <2>4, <2>6
  <2>7. QED
    BY <1>7, <1>10, <2>1, <2>5, <2>6, ExtensionTaken
<1>11. QED
  BY <1>7, <1>8, <1>9, <1>10

\* iterate never walks for ever over a certificate, whatever octets it is
\* given for one: each call leaves fewer calls, though it goes back for every
\* extension.
THEOREM CertificateWalkEnds ==
  ASSUME Objects = certObjects, NEW bytes \in Seq(Octets)
  PROVE  Asn1Spec(bytes) => /\ [](Variant \in Nat)
                            /\ [][Variant' < Variant]_asn1Vars
<1>1. InitParser(bytes) => CertificateInv
  BY CertificateInitially
<1>2. CertificateInv /\ [iterate]_asn1Vars => CertificateInv' /\ [Variant' < Variant]_asn1Vars
  <2>1. SUFFICES ASSUME CertificateInv, [iterate]_asn1Vars
                 PROVE  CertificateInv' /\ [Variant' < Variant]_asn1Vars
    OBVIOUS
  <2>2. 26 \in Nat /\ IsTable(26) /\ ParserInv(26)
    BY <2>1, CertificateTable DEF CertificateInv
  <2>3. ParserInv(26)'
    BY <2>1, <2>2, ParserStep
  <2>4. CASE iterate
    BY <2>1, <2>3, <2>4, OneLoopStep, VariantLessens DEF CertificateInv
  <2>5. CASE UNCHANGED asn1Vars
    <3>1. OneLoop'
      BY <2>1, <2>5 DEF asn1Vars, CertificateInv, OneLoop
    <3>2. QED
      BY <2>3, <2>5, <3>1 DEF CertificateInv
  <2>6. QED
    BY <2>1, <2>4, <2>5
<1>3. CertificateInv => Variant \in Nat
  <2>1. SUFFICES ASSUME CertificateInv, Walking PROVE Variant \in Nat
    BY DEF Variant
  <2>2. mLine \in -1..25
    BY <2>1, CertificateFacts
  <2>3. Len(blob) \in Nat /\ mBlobs[4].len \in Nat
    BY <2>1 DEF CertificateInv, ParserInv, StaysInside, InBlob
  <2>4. Left \in Nat
    BY <2>3 DEF Left
  <2>5. QED
    BY <2>1, <2>2, <2>4 DEF Variant
<1>4. QED
  BY <1>1, <1>2, <1>3, PTL DEF Asn1Spec
=============================================================================
