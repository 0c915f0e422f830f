----------------------------- MODULE Mechanisms -----------------------------
(****************************************************************************)
(* The mechanism tables of SoftHSM.cpp: which mechanisms a build knows, what *)
(* C_GetMechanismInfo says each is good for, and which of them the switch of *)
(* every function takes. The three are kept by hand in different places of   *)
(* the source; nothing in the code relates them.                             *)
(*                                                                           *)
(* defs is the set of preprocessor macros the build defines. A mechanism is  *)
(* its CKM_ name without the prefix. Key sizes are left out.                 *)
(****************************************************************************)
EXTENDS Naturals, Sequences, TLC

Macros ==
  {"WITH_FIPS", "WITH_ECC", "WITH_EDDSA", "WITH_GOST", "WITH_GOST_3410_2012_256",
   "WITH_GOST_3410_2012_512", "WITH_GOST_3411_2012", "WITH_GOST_3411_2012_512", "WITH_ML_DSA",
   "WITH_ML_KEM", "WITH_RAW_PSS", "HAVE_AES_KEY_WRAP", "HAVE_AES_KEY_WRAP_PAD"}

\* #ifdef and #ifndef around some cases of a switch or some entries of a table.
Given(defs, macro, S) == IF macro \in defs THEN S ELSE {}
Unless(defs, macro, S) == S \ Given(defs, macro, S)

\* #if defined(WITH_GOST_3410_2012_256) && !defined(WITH_GOST)
Given2012Only(defs, S) == Given(defs, "WITH_GOST_3410_2012_256", Unless(defs, "WITH_GOST", S))

-----------------------------------------------------------------------------
\* What prepareSupportedMechanisms puts into its table.

Digests(defs) ==
  {"SHA_1", "SHA224", "SHA256", "SHA384", "SHA512"} \union Unless(defs, "WITH_FIPS", {"MD5"})

HMACs(defs) ==
  {"SHA_1_HMAC", "SHA224_HMAC", "SHA256_HMAC", "SHA384_HMAC", "SHA512_HMAC"}
    \union Unless(defs, "WITH_FIPS", {"MD5_HMAC"})

HashedRSA(defs) ==
  {"SHA1_RSA_PKCS", "SHA224_RSA_PKCS", "SHA256_RSA_PKCS", "SHA384_RSA_PKCS", "SHA512_RSA_PKCS"}
    \union Unless(defs, "WITH_FIPS", {"MD5_RSA_PKCS"})

HashedPSS ==
  {"SHA1_RSA_PKCS_PSS", "SHA224_RSA_PKCS_PSS", "SHA256_RSA_PKCS_PSS", "SHA384_RSA_PKCS_PSS",
   "SHA512_RSA_PKCS_PSS"}

RSAMechanisms(defs) ==
  {"RSA_PKCS_KEY_PAIR_GEN", "RSA_PKCS", "RSA_X_509", "RSA_PKCS_OAEP", "RSA_AES_KEY_WRAP"}
    \union HashedRSA(defs) \union HashedPSS \union Given(defs, "WITH_RAW_PSS", {"RSA_PKCS_PSS"})

DESModes  == {"DES_ECB", "DES_CBC", "DES_CBC_PAD"}
DES3Modes == {"DES3_ECB", "DES3_CBC", "DES3_CBC_PAD"}
AESModes  == {"AES_ECB", "AES_CBC", "AES_CBC_PAD", "AES_CTR", "AES_GCM"}

EncryptData(defs) ==
  {"DES3_ECB_ENCRYPT_DATA", "DES3_CBC_ENCRYPT_DATA", "AES_ECB_ENCRYPT_DATA", "AES_CBC_ENCRYPT_DATA"}
    \union Unless(defs, "WITH_FIPS", {"DES_ECB_ENCRYPT_DATA", "DES_CBC_ENCRYPT_DATA"})

SymmetricMechanisms(defs) ==
  {"GENERIC_SECRET_KEY_GEN", "DES2_KEY_GEN", "DES3_KEY_GEN", "DES3_CMAC", "AES_KEY_GEN",
   "AES_KEY_WRAP", "AES_CMAC"} \union DES3Modes \union AESModes \union EncryptData(defs)
    \union Unless(defs, "WITH_FIPS", {"DES_KEY_GEN"} \union DESModes)
    \union Given(defs, "HAVE_AES_KEY_WRAP_PAD", {"AES_KEY_WRAP_PAD"})

DSAs   == {"DSA", "DSA_SHA1", "DSA_SHA224", "DSA_SHA256", "DSA_SHA384", "DSA_SHA512"}
ECDSAs == {"ECDSA", "ECDSA_SHA1", "ECDSA_SHA224", "ECDSA_SHA256", "ECDSA_SHA384", "ECDSA_SHA512"}

GivenCurves(defs, S) == Given(defs, "WITH_ECC", S) \union Given(defs, "WITH_EDDSA", S)

DiscreteLogMechanisms(defs) ==
  {"DSA_PARAMETER_GEN", "DSA_KEY_PAIR_GEN", "DH_PKCS_KEY_PAIR_GEN", "DH_PKCS_PARAMETER_GEN",
   "DH_PKCS_DERIVE"} \union DSAs
    \union Given(defs, "WITH_ECC", {"EC_KEY_PAIR_GEN"} \union ECDSAs)
    \union GivenCurves(defs, {"ECDH1_DERIVE"})

GOSTAgreements == {"GOST_KEG", "GOSTR3410_12_DERIVE", "KDF_HMAC3411_2012_256", "KDF_TREE_GOSTR3411_2012_256"}

GOSTPublicMechanisms(defs) ==
  Given(defs, "WITH_GOST", {"GOSTR3411", "GOSTR3411_HMAC", "GOSTR3410_KEY_PAIR_GEN", "GOSTR3410",
                            "GOSTR3410_WITH_GOSTR3411"})
    \union Given2012Only(defs, {"GOSTR3410_KEY_PAIR_GEN", "GOSTR3410",
                                "GOSTR3410_WITH_GOSTR3411_2012_256"})
    \union Given(defs, "WITH_GOST_3410_2012_512",
                 {"GOSTR3410_512_KEY_PAIR_GEN", "GOSTR3410_512", "GOSTR3410_WITH_GOSTR3411_12_512",
                  "VKO_GOSTR3410_2012_512"})
    \union Given(defs, "WITH_GOST_3410_2012_256", GOSTAgreements)
    \union Given(defs, "WITH_GOST_3411_2012", {"GOSTR3411_2012_256", "GOSTR3411_12_256_HMAC"})
    \union Given(defs, "WITH_GOST_3411_2012_512", {"GOSTR3411_12_512", "GOSTR3411_12_512_HMAC"})

GOSTKeyGens == {"GOST28147_KEY_GEN", "KUZNECHIK_KEY_GEN", "MAGMA_KEY_GEN"}
GOSTCiphers ==
  {"GOST28147_ECB", "GOST28147", "KUZNECHIK_ECB", "MAGMA_ECB", "KUZNECHIK_CTR_ACPKM",
   "MAGMA_CTR_ACPKM", "KUZNECHIK_MGM", "MAGMA_MGM"}
GOSTMACs  == {"GOST28147_MAC", "KUZNECHIK_MAC", "MAGMA_MAC"}
GOSTWraps == {"GOST28147_KEY_WRAP", "KUZNECHIK_KEXP_15_WRAP", "MAGMA_KEXP_15_WRAP"}

GOSTSymmetricMechanisms == GOSTKeyGens \union GOSTCiphers \union GOSTMACs \union GOSTWraps

Concatenations == {"CONCATENATE_DATA_AND_BASE", "CONCATENATE_BASE_AND_DATA", "CONCATENATE_BASE_AND_KEY"}

LaterMechanisms(defs) ==
  Given(defs, "WITH_EDDSA", {"EC_EDWARDS_KEY_PAIR_GEN", "EDDSA"})
    \union Given(defs, "WITH_ML_DSA", {"ML_DSA_KEY_PAIR_GEN", "ML_DSA"})
    \union Given(defs, "WITH_ML_KEM", {"ML_KEM_KEY_PAIR_GEN", "ML_KEM"})
    \union Concatenations

BuiltIn(defs) ==
  Digests(defs) \union HMACs(defs) \union RSAMechanisms(defs) \union SymmetricMechanisms(defs)
    \union DiscreteLogMechanisms(defs) \union GOSTPublicMechanisms(defs)
    \union GOSTSymmetricMechanisms \union LaterMechanisms(defs)

-----------------------------------------------------------------------------
\* The option slots.mechanisms, the sequence of what the commas separate, is "ALL", or a list of names that are all there is, or one that
\* begins with a minus sign of names to take out. A name the table does not have is skipped.
\* The result is the list supportedMechanisms as a bag: a name listed twice is in it twice.
prepareSupportedMechanisms(defs, mechs) ==
  LET named(m) == Len(SelectSeq(mechs, LAMBDA n : n = m)) IN
  [m \in BuiltIn(defs) |-> IF mechs = <<"ALL">> THEN 1
                           ELSE IF Head(mechs) = "-" THEN (IF named(m) > 0 THEN 0 ELSE 1)
                           ELSE named(m)]

Members(list) == {m \in DOMAIN list : list[m] > 0}

\* The list of the key is looked at only when there is a key and its list is not empty.
isMechanismPermitted(list, allowed, m) ==
  m \in Members(list) /\ (allowed = {} \/ m \in allowed)

-----------------------------------------------------------------------------
\* The flags of C_GetMechanismInfo, one table for each run of cases of its switch. A later
\* case is reached by falling through an earlier one.
Flagged(S, flags) == [m \in S |-> flags]

DigestInfo(defs) == Flagged(Digests(defs), {"DIGEST"})

HMACInfo(defs) ==
  Flagged(HMACs(defs) \union Given(defs, "WITH_GOST_3411_2012", {"GOSTR3411_12_256_HMAC"})
            \union Given(defs, "WITH_GOST_3411_2012_512", {"GOSTR3411_12_512_HMAC"}),
          {"SIGN", "VERIFY"})

RSAInfo(defs) ==
  Flagged({"RSA_PKCS_KEY_PAIR_GEN"}, {"GENERATE_KEY_PAIR"})
    @@ Flagged({"RSA_PKCS"}, {"SIGN", "VERIFY", "ENCRYPT", "DECRYPT", "WRAP", "UNWRAP"})
    @@ Flagged({"RSA_X_509"}, {"SIGN", "VERIFY", "ENCRYPT", "DECRYPT"})
    @@ Flagged(HashedRSA(defs) \union HashedPSS \union Given(defs, "WITH_RAW_PSS", {"RSA_PKCS_PSS"}),
               {"SIGN", "VERIFY"})
    @@ Flagged({"RSA_PKCS_OAEP"}, {"ENCRYPT", "DECRYPT", "WRAP", "UNWRAP"})

SecretKeyInfo(defs) ==
  Flagged({"GENERIC_SECRET_KEY_GEN", "DES2_KEY_GEN", "DES3_KEY_GEN"}
            \union Unless(defs, "WITH_FIPS", {"DES_KEY_GEN"}), {"GENERATE"})

DESInfo(defs) ==
  Flagged({"DES3_CBC_PAD"} \union Unless(defs, "WITH_FIPS", {"DES_CBC_PAD"}),
          {"WRAP", "UNWRAP", "ENCRYPT", "DECRYPT"})
    @@ Flagged({"DES3_CBC"} \union Unless(defs, "WITH_FIPS", {"DES_ECB", "DES_CBC"}),
               {"WRAP", "ENCRYPT", "DECRYPT"})
    @@ Flagged({"DES3_ECB"}, {"ENCRYPT", "DECRYPT"})
    @@ Flagged({"DES3_CMAC"}, {"SIGN", "VERIFY"})

AESInfo ==
  Flagged({"AES_KEY_GEN"}, {"GENERATE"})
    @@ Flagged({"AES_CBC_PAD", "AES_CBC"}, {"WRAP", "UNWRAP", "ENCRYPT", "DECRYPT"})
    @@ Flagged({"AES_ECB", "AES_CTR", "AES_GCM"}, {"ENCRYPT", "DECRYPT"})
    @@ Flagged({"AES_KEY_WRAP"}, {"WRAP", "UNWRAP"})

GOSTSymmetricInfo ==
  Flagged(GOSTKeyGens, {"GENERATE"}) @@ Flagged(GOSTCiphers, {"ENCRYPT", "DECRYPT"})
    @@ Flagged(GOSTMACs, {"SIGN", "VERIFY"}) @@ Flagged(GOSTWraps, {"WRAP", "UNWRAP"})

WrapAndDeriveInfo(defs) ==
  Flagged({"RSA_AES_KEY_WRAP"} \union Given(defs, "HAVE_AES_KEY_WRAP_PAD", {"AES_KEY_WRAP_PAD"}),
          {"WRAP", "UNWRAP"})
    @@ Flagged(EncryptData(defs), {"DERIVE"})
    @@ Flagged({"AES_CMAC"}, {"SIGN", "VERIFY"})

DiscreteLogInfo ==
  Flagged({"DSA_PARAMETER_GEN", "DH_PKCS_PARAMETER_GEN"}, {"GENERATE"})
    @@ Flagged({"DSA_KEY_PAIR_GEN", "DH_PKCS_KEY_PAIR_GEN"}, {"GENERATE_KEY_PAIR"})
    @@ Flagged(DSAs, {"SIGN", "VERIFY"})
    @@ Flagged({"DH_PKCS_DERIVE"}, {"DERIVE"})

CurveInfo(defs) ==
  Flagged(Given(defs, "WITH_ECC", {"EC_KEY_PAIR_GEN"}), {"GENERATE_KEY_PAIR"})
    @@ Flagged(Given(defs, "WITH_ECC", ECDSAs), {"SIGN", "VERIFY"})
    @@ Flagged(GivenCurves(defs, {"ECDH1_DERIVE"}), {"DERIVE"})

\* With GOST R 34.10-2012 alone the signatures are announced for signing only.
GOSTPublicInfo(defs) ==
  Flagged(Given(defs, "WITH_GOST", {"GOSTR3411"}), {"DIGEST"})
    @@ Flagged(Given(defs, "WITH_GOST", {"GOSTR3411_HMAC", "GOSTR3410", "GOSTR3410_WITH_GOSTR3411"}),
               {"SIGN", "VERIFY"})
    @@ Flagged(Given(defs, "WITH_GOST", {"GOSTR3410_KEY_PAIR_GEN"}), {"GENERATE_KEY_PAIR"})
    @@ Flagged(Given2012Only(defs, {"GOSTR3410_KEY_PAIR_GEN"}), {"GENERATE_KEY_PAIR"})
    @@ Flagged(Given2012Only(defs, {"GOSTR3410", "GOSTR3410_WITH_GOSTR3411_2012_256"}), {"SIGN"})

GOST2012Info(defs) ==
  Flagged(Given(defs, "WITH_GOST_3410_2012_256", GOSTAgreements
                  \union Given(defs, "WITH_GOST_3410_2012_512", {"VKO_GOSTR3410_2012_512"})), {"DERIVE"})
    @@ Flagged(Given(defs, "WITH_GOST_3411_2012", {"GOSTR3411_2012_256"}), {"DIGEST"})
    @@ Flagged(Given(defs, "WITH_GOST_3411_2012_512", {"GOSTR3411_12_512"}), {"DIGEST"})
    @@ Flagged(Given(defs, "WITH_GOST_3410_2012_512", {"GOSTR3410_512_KEY_PAIR_GEN"}), {"GENERATE_KEY_PAIR"})
    @@ Flagged(Given(defs, "WITH_GOST_3410_2012_512", {"GOSTR3410_512", "GOSTR3410_WITH_GOSTR3411_12_512"}),
               {"SIGN", "VERIFY"})

LaterInfo(defs) ==
  Flagged(Given(defs, "WITH_EDDSA", {"EC_EDWARDS_KEY_PAIR_GEN"})
            \union Given(defs, "WITH_ML_DSA", {"ML_DSA_KEY_PAIR_GEN"})
            \union Given(defs, "WITH_ML_KEM", {"ML_KEM_KEY_PAIR_GEN"}), {"GENERATE_KEY_PAIR"})
    @@ Flagged(Given(defs, "WITH_EDDSA", {"EDDSA"}) \union Given(defs, "WITH_ML_DSA", {"ML_DSA"}),
               {"SIGN", "VERIFY"})
    @@ Flagged(Given(defs, "WITH_ML_KEM", {"ML_KEM"}), {"ENCAPSULATE", "DECAPSULATE"})
    @@ Flagged(Concatenations, {"DERIVE"})

MechanismInfo(defs) ==
  DigestInfo(defs) @@ HMACInfo(defs) @@ RSAInfo(defs) @@ SecretKeyInfo(defs) @@ DESInfo(defs)
    @@ AESInfo @@ GOSTSymmetricInfo @@ WrapAndDeriveInfo(defs) @@ DiscreteLogInfo
    @@ CurveInfo(defs) @@ GOSTPublicInfo(defs) @@ GOST2012Info(defs) @@ LaterInfo(defs)

\* The flags of a mechanism, none when the switch does not have it.
AdvertisedFor(defs, m) == IF m \in DOMAIN MechanismInfo(defs) THEN MechanismInfo(defs)[m] ELSE {}

-----------------------------------------------------------------------------
\* The mechanisms that the switch of each function takes.

\* The DES cases are inside #ifndef WITH_FIPS, the others are not.
SymCases(defs) == Unless(defs, "WITH_FIPS", DESModes) \union DES3Modes \union AESModes \union GOSTCiphers

AsymCipherCases == {"RSA_PKCS", "RSA_X_509", "RSA_PKCS_OAEP"}

DigestCases(defs) ==
  Digests(defs) \union Given(defs, "WITH_GOST", {"GOSTR3411"})
    \union Given(defs, "WITH_GOST_3411_2012", {"GOSTR3411_2012_256"})
    \union Given(defs, "WITH_GOST_3411_2012_512", {"GOSTR3411_12_512"})

\* Asks for CKM_MD5_HMAC in every build, which MacSignInit then refuses with WITH_FIPS.
isMacMechanism(defs, m) ==
  m \in {"MD5_HMAC", "DES3_CMAC", "AES_CMAC"} \union HMACs(defs) \union GOSTMACs
          \union Given(defs, "WITH_GOST_3411_2012", {"GOSTR3411_12_256_HMAC"})
          \union Given(defs, "WITH_GOST_3411_2012_512", {"GOSTR3411_12_512_HMAC"})
          \union Given(defs, "WITH_GOST", {"GOSTR3411_HMAC"})

MacCases(defs) == {m \in BuiltIn(defs) : isMacMechanism(defs, m)}

\* The switch of AsymSignInit; that of AsymVerifyInit has the same cases.
AsymSignCases(defs) ==
  {"RSA_PKCS", "RSA_X_509"} \union HashedRSA(defs) \union HashedPSS \union DSAs
    \union Given(defs, "WITH_RAW_PSS", {"RSA_PKCS_PSS"})
    \union Given(defs, "WITH_ECC", ECDSAs)
    \union Given(defs, "WITH_GOST", {"GOSTR3410", "GOSTR3410_WITH_GOSTR3411"})
    \union Given2012Only(defs, {"GOSTR3410", "GOSTR3410_WITH_GOSTR3411_2012_256"})
    \union Given(defs, "WITH_GOST_3410_2012_512", {"GOSTR3410_512", "GOSTR3410_WITH_GOSTR3411_12_512"})
    \union Given(defs, "WITH_EDDSA", {"EDDSA"}) \union Given(defs, "WITH_ML_DSA", {"ML_DSA"})

GenerateKeyCases(defs) ==
  {"DSA_PARAMETER_GEN", "DH_PKCS_PARAMETER_GEN", "DES2_KEY_GEN", "DES3_KEY_GEN", "AES_KEY_GEN",
   "GENERIC_SECRET_KEY_GEN"} \union GOSTKeyGens \union Unless(defs, "WITH_FIPS", {"DES_KEY_GEN"})

GenerateKeyPairCases(defs) ==
  {"RSA_PKCS_KEY_PAIR_GEN", "DSA_KEY_PAIR_GEN", "DH_PKCS_KEY_PAIR_GEN"}
    \union Given(defs, "WITH_ECC", {"EC_KEY_PAIR_GEN"})
    \union Given(defs, "WITH_GOST", {"GOSTR3410_KEY_PAIR_GEN"})
    \union Given(defs, "WITH_GOST_3410_2012_256", {"GOSTR3410_KEY_PAIR_GEN"})
    \union Given(defs, "WITH_GOST_3410_2012_512", {"GOSTR3410_512_KEY_PAIR_GEN"})
    \union Given(defs, "WITH_EDDSA", {"EC_EDWARDS_KEY_PAIR_GEN"})
    \union Given(defs, "WITH_ML_DSA", {"ML_DSA_KEY_PAIR_GEN"})
    \union Given(defs, "WITH_ML_KEM", {"ML_KEM_KEY_PAIR_GEN"})

WrapKeyCases(defs) ==
  {"RSA_PKCS", "RSA_PKCS_OAEP", "RSA_AES_KEY_WRAP", "AES_CBC", "AES_CBC_PAD"} \union GOSTWraps
    \union Given(defs, "HAVE_AES_KEY_WRAP", {"AES_KEY_WRAP"})
    \union Given(defs, "HAVE_AES_KEY_WRAP_PAD", {"AES_KEY_WRAP_PAD"})

UnwrapKeyCases(defs) == WrapKeyCases(defs) \union {"DES3_CBC_PAD"}

DeriveKeyCases(defs) ==
  {"DH_PKCS_DERIVE"} \union EncryptData(defs) \union Concatenations
    \union Given(defs, "WITH_GOST_3410_2012_256", GOSTAgreements
                   \union Given(defs, "WITH_GOST_3410_2012_512", {"VKO_GOSTR3410_2012_512"}))
    \union GivenCurves(defs, {"ECDH1_DERIVE"})

CapsulateCases(defs) == Given(defs, "WITH_ML_KEM", {"ML_KEM"})

\* The functions that start something with a mechanism, and the cases of each.
Cases(defs) ==
  "C_EncryptInit"       :> SymCases(defs) \union AsymCipherCases
    @@ "C_DecryptInit"     :> SymCases(defs) \union AsymCipherCases
    @@ "C_DigestInit"      :> DigestCases(defs)
    @@ "C_SignInit"        :> MacCases(defs) \union AsymSignCases(defs)
    @@ "C_VerifyInit"      :> MacCases(defs) \union AsymSignCases(defs)
    @@ "C_GenerateKey"     :> GenerateKeyCases(defs)
    @@ "C_GenerateKeyPair" :> GenerateKeyPairCases(defs)
    @@ "C_WrapKey"         :> WrapKeyCases(defs)
    @@ "C_UnwrapKey"       :> UnwrapKeyCases(defs)
    @@ "C_DeriveKey"       :> DeriveKeyCases(defs)
    @@ "C_EncapsulateKey"  :> CapsulateCases(defs)
    @@ "C_DecapsulateKey"  :> CapsulateCases(defs)
=============================================================================
