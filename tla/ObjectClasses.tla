--------------------------- MODULE ObjectClasses ---------------------------
(***************************************************************************)
(* The object classes of P11Objects.cpp: the attributes an object of each  *)
(* class has, and the footnotes of PKCS #11 each of them carries there.    *)
(*                                                                         *)
(* A class is a function from its attributes to the footnotes its init     *)
(* adds; Footnotes joins them with those the constructor of the attribute  *)
(* always sets (P11Attributes.h).                                          *)
(***************************************************************************)
EXTENDS TLC

With(attrs, cks) == [a \in attrs |-> cks]
-----------------------------------------------------------------------------
(* What kind of value an attribute holds *)

\* Booleans.
StorageFlags   == {"TOKEN", "PRIVATE", "MODIFIABLE", "COPYABLE", "DESTROYABLE"}
PublicUses     == {"DERIVE", "ENCRYPT", "VERIFY", "VERIFY_RECOVER", "WRAP"}
PrivateUses    == {"DECRYPT", "SIGN", "SIGN_RECOVER", "UNWRAP"}
CapsulateUses  == {"ENCAPSULATE", "DECAPSULATE"}
SetByFunctions == {"LOCAL", "KEY_GEN_MECHANISM", "ALWAYS_SENSITIVE", "NEVER_EXTRACTABLE"}
Protections    == {"SENSITIVE", "EXTRACTABLE", "WRAP_WITH_TRUSTED"}
VendorFlags    == {"KEY_PIN_ENTER", "KEY_CONFIRM_OP", "KEY_JOURNAL", "CONFIRM_BY_TOUCH"}

\* Numbers, some of them a size of another attribute.
CertificateNumbers == {"CERTIFICATE_CATEGORY", "JAVA_MIDP_SECURITY_DOMAIN", "NAME_HASH_ALGORITHM"}
Sizes              == {"VALUE_LEN", "VALUE_BITS", "MODULUS_BITS", "PRIME_BITS"}
Numbers            == CertificateNumbers \union Sizes \union {"PARAMETER_SET"}

\* Lists.
Lists == {"WRAP_TEMPLATE", "UNWRAP_TEMPLATE", "ALLOWED_MECHANISMS"}

\* Byte strings: empty to begin with.
RSAParts   == {"MODULUS", "PUBLIC_EXPONENT", "PRIVATE_EXPONENT", "PRIME_1", "PRIME_2",
               "EXPONENT_1", "EXPONENT_2", "COEFFICIENT"}
Parameters == {"PRIME", "SUBPRIME", "BASE", "EC_PARAMS", "EC_POINT"}
GOSTParams == {"GOSTR3410_PARAMS", "GOSTR3411_PARAMS", "GOST28147_PARAMS"}
Dates      == {"START_DATE", "END_DATE"}
Subjects   == {"SUBJECT", "ISSUER"}
Names      == {"LABEL", "APPLICATION", "OBJECT_ID", "ID", "SERIAL_NUMBER", "PUBLIC_KEY_INFO"}
Hashes     == {"URL", "HASH_OF_SUBJECT_PUBLIC_KEY", "HASH_OF_ISSUER_PUBLIC_KEY"}

ByteStrings == RSAParts \union Parameters \union GOSTParams \union Dates \union Names
                 \union Subjects \union Hashes \union {"VALUE", "CHECK_VALUE", "SEED"}
Booleans    == StorageFlags \union PublicUses \union PrivateUses \union CapsulateUses
                 \union Protections \union VendorFlags \union {"TRUSTED", "ALWAYS_AUTHENTICATE"}
-----------------------------------------------------------------------------
(* The footnotes every attribute carries, in the order of P11Attributes.h *)

StorageFootnotes ==
  With({"CLASS", "CERTIFICATE_TYPE", "KEY_TYPE"}, {1})
    @@ With({"TOKEN", "PRIVATE", "MODIFIABLE", "DESTROYABLE"}, {17})
    @@ With({"LABEL"}, {8}) @@ With({"COPYABLE"}, {12})

DataFootnotes ==
  With({"ID", "ISSUER"}, {8}) @@ With({"TRUSTED"}, {10})

CertificateFootnotes ==
  With({"SERIAL_NUMBER"}, {8}) @@ With({"URL"}, {15})
    @@ With({"HASH_OF_SUBJECT_PUBLIC_KEY", "HASH_OF_ISSUER_PUBLIC_KEY"}, {16})

UsageFootnotes ==
  With({"DERIVE"}, {8}) @@ With((PublicUses \ {"DERIVE"}) \union PrivateUses, {8, 9})

KeyFootnotes ==
  With({"LOCAL"}, {2, 4})
    @@ With({"KEY_GEN_MECHANISM", "ALWAYS_SENSITIVE", "NEVER_EXTRACTABLE"}, {2, 4, 6})
    @@ With({"SENSITIVE"}, {8, 9, 11}) @@ With({"EXTRACTABLE"}, {8, 9, 12})
    @@ With({"WRAP_WITH_TRUSTED"}, {11})

RSAFootnotes ==
  With({"MODULUS"}, {1, 4}) @@ With({"PRIVATE_EXPONENT"}, {1, 4, 6, 7})
    @@ With({"PRIME_1", "PRIME_2", "EXPONENT_1", "EXPONENT_2", "COEFFICIENT"}, {4, 6, 7})
    @@ With({"MODULUS_BITS"}, {2, 3})

ParameterFootnotes ==
  With({"PRIME", "SUBPRIME", "BASE", "EC_PARAMS", "PARAMETER_SET", "GOSTR3410_PARAMS"}, {1})
    @@ With({"PRIME_BITS"}, {2, 3}) @@ With({"VALUE_BITS"}, {2, 6}) @@ With({"EC_POINT"}, {1, 4})

OtherFootnotes ==
  With({"GOSTR3411_PARAMS"}, {1, 8}) @@ With({"VALUE_LEN"}, {2, 3}) @@ With({"SEED"}, {4, 6, 7})
    @@ With(CapsulateUses, {8, 9}) @@ With(VendorFlags, {8})

ConstructorFootnotes ==
  StorageFootnotes @@ DataFootnotes @@ CertificateFootnotes @@ UsageFootnotes @@ KeyFootnotes
    @@ RSAFootnotes @@ ParameterFootnotes @@ OtherFootnotes
-----------------------------------------------------------------------------
(* The classes *)

P11Object ==
  With({"CLASS", "TOKEN", "PRIVATE", "MODIFIABLE", "LABEL", "COPYABLE", "DESTROYABLE"}, {})

P11DataObj == P11Object @@ With({"APPLICATION", "OBJECT_ID", "VALUE"}, {})

P11CertificateObj ==
  P11Object
    @@ With({"CERTIFICATE_TYPE", "TRUSTED", "CERTIFICATE_CATEGORY", "CHECK_VALUE",
             "START_DATE", "END_DATE", "PUBLIC_KEY_INFO"}, {})

P11X509CertificateObj ==
  P11CertificateObj
    @@ With({"SUBJECT"}, {1}) @@ With({"VALUE"}, {1, 14})
    @@ With({"ID", "ISSUER", "SERIAL_NUMBER"} \union Hashes
             \union {"JAVA_MIDP_SECURITY_DOMAIN", "NAME_HASH_ALGORITHM"}, {})

P11OpenPGPPublicKeyObj ==
  P11CertificateObj
    @@ With({"SUBJECT"}, {1}) @@ With({"VALUE"}, {1, 14})
    @@ With({"ID", "ISSUER", "SERIAL_NUMBER", "URL"}, {})

P11KeyObj ==
  P11Object
    @@ With({"KEY_TYPE"}, {5}) @@ With({"START_DATE", "END_DATE"}, {8}) @@ With({"LOCAL"}, {6})
    @@ With({"ID", "DERIVE", "KEY_GEN_MECHANISM", "ALLOWED_MECHANISMS"} \union VendorFlags, {})

P11PublicKeyObj ==
  P11KeyObj
    @@ With({"SUBJECT"}, {8})
    @@ With({"ENCRYPT", "VERIFY", "VERIFY_RECOVER", "WRAP", "TRUSTED", "WRAP_TEMPLATE",
             "PUBLIC_KEY_INFO"}, {})

P11RSAPublicKeyObj ==
  P11PublicKeyObj @@ With({"MODULUS", "MODULUS_BITS"}, {}) @@ With({"PUBLIC_EXPONENT"}, {1})
P11DSAPublicKeyObj ==
  P11PublicKeyObj @@ With({"PRIME", "SUBPRIME", "BASE"}, {3}) @@ With({"VALUE"}, {1, 4})
P11ECPublicKeyObj ==
  P11PublicKeyObj @@ With({"EC_PARAMS"}, {3}) @@ With({"EC_POINT"}, {})
P11EDPublicKeyObj ==
  P11PublicKeyObj @@ With({"EC_PARAMS"}, {3}) @@ With({"EC_POINT"}, {})
P11MLDSAPublicKeyObj ==
  P11PublicKeyObj @@ With({"PARAMETER_SET"}, {3}) @@ With({"VALUE"}, {1, 4})
P11MLKEMPublicKeyObj ==
  P11PublicKeyObj @@ With({"ENCAPSULATE"}, {}) @@ With({"PARAMETER_SET"}, {1, 3})
    @@ With({"VALUE"}, {1, 4})
P11DHPublicKeyObj ==
  P11PublicKeyObj @@ With({"PRIME", "BASE"}, {3}) @@ With({"VALUE"}, {1, 4})
P11GOSTPublicKeyObj ==
  P11PublicKeyObj @@ With({"VALUE"}, {1, 4}) @@ With({"GOSTR3410_PARAMS", "GOSTR3411_PARAMS"}, {3})
    @@ With({"GOST28147_PARAMS"}, {8})

P11PrivateKeyObj ==
  P11KeyObj
    @@ With({"SUBJECT", "PUBLIC_KEY_INFO"}, {8})
    @@ With(PrivateUses \union Protections
             \union {"ALWAYS_SENSITIVE", "NEVER_EXTRACTABLE", "UNWRAP_TEMPLATE",
                     "ALWAYS_AUTHENTICATE"}, {})

P11RSAPrivateKeyObj ==
  P11PrivateKeyObj @@ With({"MODULUS"}, {6}) @@ With({"PUBLIC_EXPONENT"}, {4, 6})
    @@ With(RSAParts \ {"MODULUS", "PUBLIC_EXPONENT"}, {})
P11DSAPrivateKeyObj ==
  P11PrivateKeyObj @@ With({"PRIME", "SUBPRIME", "BASE"}, {4, 6}) @@ With({"VALUE"}, {1, 4, 6, 7})
P11ECPrivateKeyObj ==
  P11PrivateKeyObj @@ With({"EC_PARAMS"}, {4, 6}) @@ With({"VALUE"}, {1, 4, 6, 7})
P11EDPrivateKeyObj ==
  P11PrivateKeyObj @@ With({"EC_PARAMS"}, {4, 6}) @@ With({"VALUE"}, {1, 4, 6, 7})
P11MLDSAPrivateKeyObj ==
  P11PrivateKeyObj @@ With({"PARAMETER_SET"}, {4, 6}) @@ With({"SEED"}, {})
    @@ With({"VALUE"}, {1, 4, 6, 7})
P11MLKEMPrivateKeyObj ==
  P11PrivateKeyObj @@ With({"DECAPSULATE", "SEED"}, {}) @@ With({"PARAMETER_SET"}, {4, 6})
    @@ With({"VALUE"}, {1, 4, 6, 7})
P11DHPrivateKeyObj ==
  P11PrivateKeyObj @@ With({"PRIME", "BASE"}, {4, 6}) @@ With({"VALUE"}, {1, 4, 6, 7})
    @@ With({"VALUE_BITS"}, {})
P11GOSTPrivateKeyObj ==
  P11PrivateKeyObj @@ With({"VALUE"}, {1, 4, 6, 7})
    @@ With({"GOSTR3410_PARAMS", "GOSTR3411_PARAMS"}, {4, 6})
    @@ With({"GOST28147_PARAMS"}, {4, 6, 8})

P11SecretKeyObj ==
  P11KeyObj
    @@ With({"CHECK_VALUE"}, {8})
    @@ With({"ENCRYPT", "DECRYPT", "SIGN", "VERIFY", "WRAP", "UNWRAP", "TRUSTED",
             "ALWAYS_SENSITIVE", "NEVER_EXTRACTABLE", "WRAP_TEMPLATE", "UNWRAP_TEMPLATE"}
             \union Protections, {})

P11GenericSecretKeyObj ==
  P11SecretKeyObj @@ With({"VALUE"}, {1, 4, 6, 7}) @@ With({"VALUE_LEN"}, {})
P11AESSecretKeyObj ==
  P11SecretKeyObj @@ With({"VALUE"}, {1, 4, 6, 7}) @@ With({"VALUE_LEN"}, {6})
P11DESSecretKeyObj ==
  P11SecretKeyObj @@ With({"VALUE"}, {1, 4, 6, 7})
P11GOSTSecretKeyObj(isGOST28147) ==
  P11SecretKeyObj @@ With({"VALUE"}, {1, 4, 6, 7})
    @@ With(IF isGOST28147 THEN {"GOST28147_PARAMS"} ELSE {}, {1, 5})

P11DomainObj    == P11Object @@ With({"KEY_TYPE", "LOCAL"}, {})
P11DSADomainObj ==
  P11DomainObj @@ With({"PRIME", "SUBPRIME", "BASE"}, {4}) @@ With({"PRIME_BITS"}, {})
P11DHDomainObj  == P11DomainObj @@ With({"PRIME", "BASE"}, {4}) @@ With({"PRIME_BITS"}, {})
-----------------------------------------------------------------------------
(* The class of an object *)

PublicKeys ==
  [RSAPublic |-> P11RSAPublicKeyObj, DSAPublic |-> P11DSAPublicKeyObj,
   ECPublic |-> P11ECPublicKeyObj, EDPublic |-> P11EDPublicKeyObj,
   MLDSAPublic |-> P11MLDSAPublicKeyObj, MLKEMPublic |-> P11MLKEMPublicKeyObj,
   DHPublic |-> P11DHPublicKeyObj, GOSTPublic |-> P11GOSTPublicKeyObj]
PrivateKeys ==
  [RSAPrivate |-> P11RSAPrivateKeyObj, DSAPrivate |-> P11DSAPrivateKeyObj,
   ECPrivate |-> P11ECPrivateKeyObj, EDPrivate |-> P11EDPrivateKeyObj,
   MLDSAPrivate |-> P11MLDSAPrivateKeyObj, MLKEMPrivate |-> P11MLKEMPrivateKeyObj,
   DHPrivate |-> P11DHPrivateKeyObj, GOSTPrivate |-> P11GOSTPrivateKeyObj]
SecretKeys ==
  [Generic |-> P11GenericSecretKeyObj, Twin |-> P11GenericSecretKeyObj,
   AES |-> P11AESSecretKeyObj, DES |-> P11DESSecretKeyObj,
   GOST28147 |-> P11GOSTSecretKeyObj(TRUE), Kuznechik |-> P11GOSTSecretKeyObj(FALSE)]
Certificates == [X509 |-> P11X509CertificateObj, OpenPGP |-> P11OpenPGPPublicKeyObj]
Domains      == [DSADomain |-> P11DSADomainObj, DHDomain |-> P11DHDomainObj]

\* newP11Object: what an object is of follows from its class and its key or
\* certificate type.
newP11Object ==
  PublicKeys @@ PrivateKeys @@ SecretKeys @@ Certificates @@ Domains @@ [Data |-> P11DataObj]

Kinds == DOMAIN newP11Object
IsKey(kind)    == kind \in DOMAIN PublicKeys \union DOMAIN PrivateKeys \union DOMAIN SecretKeys
IsSecret(kind) == kind \in DOMAIN SecretKeys
IsCertificate(kind) == kind \in DOMAIN Certificates

Attributes(kind)   == DOMAIN newP11Object[kind]
Footnotes(kind, a) ==
  newP11Object[kind][a]
    \union (IF a \in DOMAIN ConstructorFootnotes THEN ConstructorFootnotes[a] ELSE {})

\* P11CertificateObj::init and P11PublicKeyObj::init set CKA_PRIVATE before
\* P11AttrPrivate::setDefault would.
DefaultPrivate(kind) == ~ (IsCertificate(kind) \/ kind \in DOMAIN PublicKeys)
=============================================================================
