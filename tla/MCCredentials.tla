--------------------------- MODULE MCCredentials ---------------------------
(***************************************************************************)
(* The credentials library for TLC.  A behaviour takes one of its parts:   *)
(* it decodes a PEM file, walks a certificate, or loads what a disk holds. *)
(***************************************************************************)
EXTENDS Credentials, PemFile

CONSTANTS k1, k2, k3, s1, s2

VARIABLES
  part,
  x509, blob, mLine, mLoopAddr, mBlobs, found, walk

Walk == INSTANCE Certificate WITH cert <- x509

\* The walk gives out the fields of a certificate up to where it is damaged.
WalkDeliversFields == part = "x509" => Walk!WalkDeliversFields
-----------------------------------------------------------------------------
\* Files of up to four lines, and four lines between boundaries.
PemFiles ==
  LET begin == Line("BEGIN", FALSE, FALSE, <<"-", "-", "-", "-", "-">>)
      end == Line("END", FALSE, FALSE, <<"-", "-", "-">>)
      header == Line("none", TRUE, FALSE, <<"a", "b", "a", ":">>)
      empty == Line("none", FALSE, TRUE, <<>>)
      texts == {<<>>, <<"a", "b", "a">>, <<"b", "a", "a", "a">>, <<"a", "b", "=", "=">>,
                <<"b", "a", "a", "a", "a", "b", "b", "=">>, <<"=", "=", "=", "=">>}
      kinds == {begin, end, header, empty}
                 \union {Line("none", FALSE, FALSE, t) : t \in texts}
  IN  UNION {[1..n -> kinds] : n \in 0..4}
        \union {<<begin>> \o f \o <<end>> : f \in [1..4 -> kinds]}

\* Every choice of fields, up to two extensions; damage to every row.
Certificates ==
  LET exts == {<<>>} \union {<<e>> : e \in UNION {[1..n -> BOOLEAN] : n \in 0..2}}
      typed == {0, 1, 2, 3, 4, 6, 7, 10, 17, 18, 19, 21, 25}
      rows == (0..25) \ {13, 15, 22, 23}
      damages == ({"tag"} \X typed) \union ({"length"} \X rows)
  IN  {Walk!Cert(v, u, w, e, o, t, <<"no", -1>>) : v \in BOOLEAN, u \in BOOLEAN, w \in BOOLEAN,
        e \in exts, o \in 1..3, t \in {"none", "newline", "more"}}
      \union {Walk!Cert(TRUE, u, w, e, 1, "none", d) : u \in BOOLEAN, w \in BOOLEAN,
              e \in exts, d \in damages}

\* Directories with one or two entries; secrets of up to three lines.
TheDisks ==
  LET E(name, content, exts) == Entry(name, "regular", content, exts)
      entries == {E(1, "pem", <<"ca">>), E(2, "pem", <<"altName", "ca">>),
                  E(3, "der", <<"critical", "ca">>), E(4, "der", <<"ca", "crlSign", "critical">>),
                  E(5, "derOther", <<>>), E(6, "pemOther", <<>>), E(7, "text", <<>>),
                  E(8, "pem", <<"ocsp">>), Entry(9, "special", "text", <<>>),
                  Entry(10, "longName", "text", <<>>)}
      Dirs(ca, aa, others, lists) ==
        [d \in ToSet(CertDirs) |->
           CASE d = "ca" -> ca [] d = "aa" -> aa [] d = "ocsp" -> others [] OTHER -> lists]
      theKeys == [k \in {k1, k2, k3} |->
        CASE k = k1 -> Key("pem", s1) [] k = k2 -> Key("pem", s2) [] OTHER -> Key("der", NoSecret)]
      lines == {SecretsLine("blank", "RSA", "none", "none"), SecretsLine("other", "RSA", "none", "none"),
                SecretsLine("key", "PSK", k3, "none"), SecretsLine("key", "ECDSA", k3, "none"),
                SecretsLine("key", "RSA", "none", "none"), SecretsLine("key", "RSA", "open", "none"),
                SecretsLine("key", "BLISS", k1, s1)}
               \union {SecretsLine("key", "RSA", k, s) : k \in {k1, k2, k3},
                       s \in {s1, s2, "none", "open"}}
      Disk(dirs, secs) == [dirs |-> dirs, secrets |-> secs, keys |-> theKeys]
  IN  {Disk(Dirs({a, b}, {}, {}, {}), <<>>) : a \in entries, b \in entries}
      \union {Disk(Dirs({}, {a}, {b}, {c}), <<>>) : a \in entries, b \in entries, c \in entries}
      \union {Disk(Dirs({}, {}, {}, {}), l) : l \in UNION {[1..n -> lines] : n \in 0..3}}

EmptyDisk == [dirs |-> [d \in ToSet(CertDirs) |-> {}], secrets |-> <<>>, keys |-> <<>>]
-----------------------------------------------------------------------------
walkVars == <<x509, blob, mLine, mLoopAddr, mBlobs, found, walk>>
allVars == <<part, credVars, pemVars, walkVars>>

\* The parts that are not taken stay at their beginning.
Init ==
  LET aCertificate == CHOOSE c \in Certificates : c.octets = 1
  IN  /\ part \in {"pem", "x509", "disk"}
      /\ InitPem(IF part = "pem" THEN PemFiles ELSE {<<>>})
      /\ Walk!InitWalk(IF part = "x509" THEN Certificates ELSE {aCertificate})
      /\ disk \in IF part = "disk" THEN Disks ELSE {EmptyDisk}
      /\ NothingLoaded

Next ==
  \/ part = "pem" /\ PemNext /\ UNCHANGED <<part, credVars, walkVars>>
  \/ part = "x509" /\ Walk!WalkNext /\ UNCHANGED <<part, credVars, pemVars>>
  \/ part = "disk" /\ CredentialsNext /\ UNCHANGED <<part, pemVars, walkVars>>

Spec == Init /\ [][Next]_allVars
=============================================================================
