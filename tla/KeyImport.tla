----------------------------- MODULE KeyImport -----------------------------
(***************************************************************************)
(* What the command line tools create: the key pairs, the secret keys and  *)
(* the certificates that softhsm2-util imports from files (built with      *)
(* OpenSSL or with Botan), and the RSA keys that softhsm2-migrate takes    *)
(* from the database of SoftHSM 1.                                         *)
(*                                                                         *)
(* A template is a function as in ObjectTemplates, without CKA_TOKEN, that *)
(* the caller adds.  A function that may return NULL or an error gives the *)
(* set of what it returns: a set without elements is the failure, and then *)
(* nothing has been created.                                               *)
(***************************************************************************)
EXTENDS ObjectClasses, Naturals
-----------------------------------------------------------------------------
(* The files *)

\* What the library can make of the file of a key: the numbers and the encodings that the
\* conversion asks for.
FileParts == {"CURVE", "POINT", "LENGTHS", "SEED", "PRIVATE", "PUBLIC", "SIZE"}

\* A file with the PKCS #8 form of a private key, whole or with one part missing.
KeyFiles ==
  [algorithm : {"RSA", "RSA-PSS", "DSA", "EC", "X25519", "ED25519", "X448", "ED448", "ML-DSA", "ML-KEM",
                "DH"},
   encrypted : BOOLEAN,
   parts     : {FileParts} \union {FileParts \ {p} : p \in FileParts}]

FilePINs == {"none", "right", "wrong"}

\* With a PIN the file has to be encrypted, without one it must not be.
crypto_read_file(file, filePIN) ==
  {f \in {file} : IF filePIN = "none" THEN ~ f.encrypted ELSE f.encrypted /\ filePIN = "right"}

\* The library of Botan has no use for the PIN of a file that is not encrypted.
Botan_read_file(file, filePIN) == {f \in {file} : f.encrypted => filePIN = "right"}
-----------------------------------------------------------------------------
(* The conversion of the key *)

\* What goes into the template of the private and of the public key.
Material(private, public) == [private |-> private, public |-> public]

\* The material, when the library yields all that the conversion asks for.
Converted(key, asked, private, public) ==
  {m \in {Material(private, public)} : asked \subseteq key.parts}

crypto_malloc_rsa(key) == Converted(key, {}, RSAParts, {"PUBLIC_EXPONENT", "MODULUS"})
crypto_malloc_dsa(key) ==
  Converted(key, {}, {"PRIME", "SUBPRIME", "BASE", "VALUE"}, {"PRIME", "SUBPRIME", "BASE", "VALUE"})

\* The parameters and the point have to be encoded; the encoding may fail.
crypto_malloc_ecdsa(key) ==
  Converted(key, {"CURVE", "POINT"}, {"EC_PARAMS", "VALUE"}, {"EC_PARAMS", "EC_POINT"})

\* The encodings of both halves must have the length the curve calls for.
crypto_malloc_eddsa(key) ==
  Converted(key, {"CURVE", "LENGTHS"}, {"EC_PARAMS", "VALUE"}, {"EC_PARAMS", "EC_POINT"})

\* The seed has to be in the file, and the size of the private key says the parameter set.
Seeded == {"SEED", "PRIVATE", "SIZE", "PUBLIC"}
crypto_malloc_mldsa(key) ==
  Converted(key, Seeded, {"PARAMETER_SET", "SEED", "VALUE"}, {"PARAMETER_SET", "VALUE"})
crypto_malloc_mlkem(key) ==
  Converted(key, Seeded, {"PARAMETER_SET", "SEED", "VALUE"}, {"PARAMETER_SET", "VALUE"})

Botan_malloc_rsa(key) == Converted(key, {}, RSAParts, {"PUBLIC_EXPONENT", "MODULUS"})
Botan_malloc_dsa(key) ==
  Converted(key, {}, {"PRIME", "SUBPRIME", "BASE", "VALUE"}, {"PRIME", "SUBPRIME", "BASE", "VALUE"})
Botan_malloc_ecdsa(key) ==
  Converted(key, {"CURVE", "POINT"}, {"EC_PARAMS", "VALUE"}, {"EC_PARAMS", "EC_POINT"})
\* What Botan gives is taken at its length.
Botan_malloc_eddsa(key) ==
  Converted(key, {"CURVE"}, {"EC_PARAMS", "VALUE"}, {"EC_PARAMS", "EC_POINT"})
-----------------------------------------------------------------------------
(* softhsm2-util --import: the templates *)

Imported(bytes, on, off) ==
  With(bytes \union {"CLASS", "KEY_TYPE", "LABEL", "ID"}, "some")
    @@ With(on, "true") @@ With(off, "false")

\* The templates of both halves, with the uses that are said to be allowed or not.
ImportedPair(private, public, material, privateUses, publicUses, neither) ==
  [private |-> private, public |-> public,
   privateTemplate |->
     Imported(material.private, privateUses \union {"SENSITIVE", "PRIVATE"},
              (neither \intersect PrivateUses) \union {"EXTRACTABLE"}),
   publicTemplate |->
     Imported(material.public, publicUses, neither \intersect PublicUses)]

NoEncryption == {"DECRYPT", "UNWRAP", "ENCRYPT", "WRAP"}

SaveRSA(material) ==
  ImportedPair("RSAPrivate", "RSAPublic", material,
               {"SIGN", "DECRYPT", "UNWRAP"}, {"VERIFY", "ENCRYPT", "WRAP"}, {})
SaveSigner(private, public, material) ==
  ImportedPair(private, public, material, {"SIGN"}, {"VERIFY"}, NoEncryption)

crypto_save_rsa(key)   == {SaveRSA(m) : m \in crypto_malloc_rsa(key)}
crypto_save_dsa(key)   == {SaveSigner("DSAPrivate", "DSAPublic", m) : m \in crypto_malloc_dsa(key)}
crypto_save_ecdsa(key) == {SaveSigner("ECPrivate", "ECPublic", m) : m \in crypto_malloc_ecdsa(key)}
crypto_save_eddsa(key) == {SaveSigner("EDPrivate", "EDPublic", m) : m \in crypto_malloc_eddsa(key)}
crypto_save_mldsa(key) ==
  {SaveSigner("MLDSAPrivate", "MLDSAPublic", m) : m \in crypto_malloc_mldsa(key)}
crypto_save_mlkem(key) ==
  {ImportedPair("MLKEMPrivate", "MLKEMPublic", m,
                {"DECAPSULATE"}, {"ENCAPSULATE"}, NoEncryption \union {"SIGN", "VERIFY"}) :
     m \in crypto_malloc_mlkem(key)}

Botan_save_rsa(key)    == {SaveRSA(m) : m \in Botan_malloc_rsa(key)}
Botan_save_dsa(key)    == {SaveSigner("DSAPrivate", "DSAPublic", m) : m \in Botan_malloc_dsa(key)}
Botan_save_ecdsa(key)  == {SaveSigner("ECPrivate", "ECPublic", m) : m \in Botan_malloc_ecdsa(key)}
Botan_save_eddsa(key)  == {SaveSigner("EDPrivate", "EDPublic", m) : m \in Botan_malloc_eddsa(key)}

\* By the algorithm of the key that was read from the file; another one is refused.
crypto_import_key_pair(file, filePIN) ==
  UNION {CASE key.algorithm \in {"RSA", "RSA-PSS"}                       -> crypto_save_rsa(key)
           [] key.algorithm = "DSA"                                      -> crypto_save_dsa(key)
           [] key.algorithm = "EC"                                       -> crypto_save_ecdsa(key)
           [] key.algorithm \in {"X25519", "ED25519", "X448", "ED448"}   -> crypto_save_eddsa(key)
           [] key.algorithm = "ML-DSA"                                   -> crypto_save_mldsa(key)
           [] key.algorithm = "ML-KEM"                                   -> crypto_save_mlkem(key)
           [] OTHER                                                      -> {} :
           key \in crypto_read_file(file, filePIN)}

Botan_import_key_pair(file, filePIN) ==
  UNION {CASE key.algorithm = "RSA"                  -> Botan_save_rsa(key)
           [] key.algorithm = "DSA"                  -> Botan_save_dsa(key)
           [] key.algorithm = "EC"                   -> Botan_save_ecdsa(key)
           [] key.algorithm \in {"X25519", "ED25519"} -> Botan_save_eddsa(key)
           [] OTHER                                  -> {} :
           key \in Botan_read_file(file, filePIN)}

\* What the files and the PINs of the user can lead to, with either library.
ImportablePairs ==
  UNION {crypto_import_key_pair(f, pin) \union Botan_import_key_pair(f, pin) :
           f \in KeyFiles, pin \in FilePINs}

\* The file is the key as it stands. The secret key's CKA_PRIVATE is not said, and its
\* default is true.
crypto_import_aes_key(bytes) ==
  {t \in {Imported({"VALUE"}, {"ENCRYPT", "DECRYPT", "SENSITIVE"}, {})} : bytes > 0}
Botan_import_aes_key(bytes) ==
  {t \in {Imported({"VALUE"}, {"ENCRYPT", "DECRYPT", "SENSITIVE"}, {})} : bytes > 0}
ImportableSecrets == UNION {crypto_import_aes_key(n) \union Botan_import_aes_key(n) : n \in {0, 32}}

\* Of a file: whether there is a certificate in it, and its parts that can be encoded.
CertificateParts == {"VALUE", "SUBJECT", "ISSUER", "SERIAL_NUMBER"}
ImportedCertificate(bytes) ==
  With(bytes \union {"CLASS", "CERTIFICATE_TYPE", "LABEL", "ID"}, "some")
    @@ With({"PRIVATE"}, "false")
crypto_import_certificate(encoded) ==
  {t \in {ImportedCertificate(CertificateParts)} : CertificateParts \subseteq encoded}
Botan_import_certificate(encoded) ==
  {t \in {ImportedCertificate(CertificateParts)} : CertificateParts \subseteq encoded}
ImportableCertificates ==
  UNION {crypto_import_certificate(e) \union Botan_import_certificate(e) :
           e \in SUBSET CertificateParts}
-----------------------------------------------------------------------------
(* softhsm2-migrate.  An object of the old database has a class, a type of  *)
(* key, the attributes of it that have a row, the value of its names and    *)
(* dates, and the Booleans among TOKEN, PRIVATE and MODIFIABLE that are     *)
(* true; the others are as SoftHSM 1 has set them.                          *)

OldNames == {"LABEL", "ID", "START_DATE", "END_DATE", "SUBJECT"}
OldFlags == {"TOKEN", "PRIVATE", "MODIFIABLE"}
OldBytes == {"MODULUS", "PUBLIC_EXPONENT", "PRIVATE_EXPONENT", "PRIME_1", "PRIME_2"}
OldRows  == OldNames \union OldFlags \union OldBytes

OldObjects ==
  [class : {"PUBLIC_KEY", "PRIVATE_KEY", "CERTIFICATE"}, type : {"RSA", "other"},
   rows  : {OldRows, OldRows \ {"SUBJECT"}, OldRows \ {"PRIME_1"}},
   named : {"some", "empty"}, on : SUBSET OldFlags]

\* One attribute without a row, and the object is skipped.
getAttribute(old, bytes, on, off) ==
  {t \in {With(bytes \union {"CLASS", "KEY_TYPE"}, "some") @@ With(OldNames, old.named)
            @@ With((old.on \ {"TOKEN"}) \union on, "true")
            @@ With((OldFlags \ (old.on \union {"TOKEN"})) \union off, "false")} :
     OldNames \union OldFlags \union bytes \subseteq old.rows}

dbRSAPub2session(old) ==
  getAttribute(old, {"MODULUS", "PUBLIC_EXPONENT"}, {"ENCRYPT", "VERIFY"},
               {"DERIVE", "VERIFY_RECOVER", "WRAP"})

\* SoftHSM 1 did not store the other parts of a private key.
dbRSAPriv2session(old) ==
  getAttribute(old, OldBytes, {"SENSITIVE", "DECRYPT", "SIGN"},
               {"DERIVE", "SIGN_RECOVER", "UNWRAP", "EXTRACTABLE", "WRAP_WITH_TRUSTED"})

\* Objects of other classes and keys of other types are skipped, and so are public
\* keys when the user does not want them.
db2session(old, noPublicKey) ==
  CASE old.class = "PUBLIC_KEY" /\ old.type = "RSA" /\ ~ noPublicKey ->
         {<<"RSAPublic", t>> : t \in dbRSAPub2session(old)}
    [] old.class = "PRIVATE_KEY" /\ old.type = "RSA" ->
         {<<"RSAPrivate", t>> : t \in dbRSAPriv2session(old)}
    [] OTHER -> {}

\* A key whose CKA_TOKEN is false is gone with the session of the tool.
MigratedKeys ==
  UNION {db2session(old, n) : old \in {x \in OldObjects : "TOKEN" \in x.on}, n \in BOOLEAN}
=============================================================================
