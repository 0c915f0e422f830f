---------------------------- MODULE KeyMaterial ----------------------------
(***************************************************************************)
(* What the functions of SoftHSM.cpp that make a key store in it, beyond   *)
(* the template of the application, and what the functions that use a key  *)
(* read from it.  All of them follow one plan (ObjectTemplates), so that   *)
(* only what differs is here: one definition for each.                     *)
(***************************************************************************)
EXTENDS ObjectClasses

-----------------------------------------------------------------------------
(* C_GenerateKeyPair.  Of the template for the public key, "needs" are the *)
(* attributes that must be there and not empty before anything is made, and *)
(* "adds" those the function puts in when they are missing.  A half has a   *)
(* kind, the entries of its template that are not handed to CreateObject,   *)
(* and the byte strings that are stored at the end.                         *)

Half(kind, drops, stores) == [kind |-> kind, drops |-> drops, stores |-> stores]

generateRSA        == [needs |-> {"MODULUS_BITS"}, adds |-> {}]
generateRSAPublic  == Half("RSAPublic", {"PUBLIC_EXPONENT"}, {"MODULUS", "PUBLIC_EXPONENT"})
generateRSAPrivate == Half("RSAPrivate", {}, RSAParts)

generateDSA        == [needs |-> {"PRIME", "SUBPRIME", "BASE"}, adds |-> {}]
generateDSAPublic  == Half("DSAPublic", {}, {"VALUE"})
generateDSAPrivate == Half("DSAPrivate", {}, {"PRIME", "SUBPRIME", "BASE", "VALUE"})

generateEC        == [needs |-> {"EC_PARAMS"}, adds |-> {}]
generateECPublic  == Half("ECPublic", {}, {"EC_POINT"})
\* Mutant: the curve is not stored with the private key.
generateECPrivateNoCurve == Half("ECPrivate", {}, {"VALUE"})
generateECPrivate == Half("ECPrivate", {}, {"EC_PARAMS", "VALUE"})

generateED        == [needs |-> {"EC_PARAMS"}, adds |-> {}]
generateEDPublic  == Half("EDPublic", {}, {"EC_POINT"})
generateEDPrivate == Half("EDPrivate", {}, {"EC_PARAMS", "VALUE"})

generateMLDSA        == [needs |-> {"PARAMETER_SET"}, adds |-> {}]
generateMLDSAPublic  == Half("MLDSAPublic", {}, {"VALUE"})
generateMLDSAPrivate == Half("MLDSAPrivate", {}, {"VALUE", "SEED"})

generateMLKEM        == [needs |-> {"PARAMETER_SET"}, adds |-> {}]
generateMLKEMPublic  == Half("MLKEMPublic", {}, {"VALUE"})
generateMLKEMPrivate == Half("MLKEMPrivate", {}, {"VALUE", "SEED"})

generateDH        == [needs |-> {"PRIME", "BASE"}, adds |-> {}]
generateDHPublic  == Half("DHPublic", {}, {"VALUE"})
generateDHPrivate == Half("DHPrivate", {}, {"PRIME", "BASE", "VALUE"})

generateGOST        == [needs |-> {"GOSTR3410_PARAMS", "GOSTR3411_PARAMS"}, adds |-> {}]
generateGOSTPublic  == Half("GOSTPublic", {}, {"VALUE"})
generateGOSTPrivate == Half("GOSTPrivate", {}, {"VALUE", "GOSTR3410_PARAMS", "GOSTR3411_PARAMS"})

generateGOST2012        == [needs |-> {"GOSTR3410_PARAMS"}, adds |-> {"GOSTR3411_PARAMS"}]
generateGOST2012Public  == Half("GOSTPublic", {}, {"VALUE"})
generateGOST2012Private ==
  Half("GOSTPrivate", {"GOSTR3410_PARAMS", "GOSTR3411_PARAMS"},
       {"VALUE", "GOSTR3410_PARAMS", "GOSTR3411_PARAMS"})

Pair(params, public, private) == [params |-> params, public |-> public, private |-> private]

\* The pairs of a build without RSA, and so on, are a subset.
Pairs ==
  {Pair(generateRSA, generateRSAPublic, generateRSAPrivate),
   Pair(generateDSA, generateDSAPublic, generateDSAPrivate),
   Pair(generateEC, generateECPublic, generateECPrivate),
   Pair(generateED, generateEDPublic, generateEDPrivate),
   Pair(generateMLDSA, generateMLDSAPublic, generateMLDSAPrivate),
   Pair(generateMLKEM, generateMLKEMPublic, generateMLKEMPrivate),
   Pair(generateDH, generateDHPublic, generateDHPrivate),
   Pair(generateGOST, generateGOSTPublic, generateGOSTPrivate),
   Pair(generateGOST2012, generateGOST2012Public, generateGOST2012Private)}
-----------------------------------------------------------------------------
(* C_GenerateKey.  A secret key takes its length from the template ("long"  *)
(* and "short" stand for two lengths) or has a fixed one.                   *)

Secret(kinds, fixed) == [kinds |-> kinds, needs |-> IF fixed THEN {} ELSE {"VALUE_LEN"}]

generateGeneric     == Secret({"Generic"}, FALSE)
generateGOST28147   == Secret({"GOST28147", "Kuznechik"}, TRUE)
generateAES         == Secret({"AES"}, FALSE)
generateDES         == Secret({"DES"}, TRUE)
generateDES2        == Secret({"DES"}, TRUE)
generateDES3        == Secret({"DES"}, TRUE)
SecretGenerators    == {generateGeneric, generateGOST28147, generateAES,
                        generateDES, generateDES2, generateDES3}

generateDSAParameters == Half("DSADomain", {}, {"PRIME", "SUBPRIME", "BASE"})
generateDHParameters  == Half("DHDomain", {}, {"PRIME", "BASE"})
-----------------------------------------------------------------------------
(* C_DeriveKey, C_EncapsulateKey and C_DecapsulateKey: the kinds a function *)
(* makes, those whose template must and those whose template must not say   *)
(* the length, and the check value it computes: over the whole secret       *)
(* although the key is a part of it ("whole"), over the key ("key"), or     *)
(* "none".  "plain": it is that of a generic secret, also for a key of      *)
(* another type.  "adds": what it puts in the template when it is missing.  *)
(* "tokens": may the key be stored on the token?                            *)

Deriver(kinds, check, plain) ==
  [kinds |-> kinds, check |-> check, plain |-> plain, needsLength |-> {}, refusesLength |-> {},
   adds |-> {}, tokens |-> BOOLEAN, op |-> "DERIVE"]

deriveECDH      == Deriver({"Generic", "AES", "DES"}, "whole", TRUE)
deriveEDDSA     == Deriver({"Generic", "AES", "DES"}, "whole", TRUE)
deriveDH        ==
  [Deriver({"Generic", "AES", "DES"}, "whole", TRUE)
     EXCEPT !.needsLength = {"Generic", "AES"}, !.refusesLength = {"DES"}]
deriveSymmetric ==
  [Deriver({"Generic", "AES", "DES"}, "key", TRUE)
     EXCEPT !.needsLength = {"Generic", "AES"}, !.refusesLength = {"DES"}]
deriveConcatenated == [deriveSymmetric EXCEPT !.needsLength = {}]

deriveGOSTKEG   == Deriver({"Twin"}, "none", FALSE)
deriveGOSTVKO   ==
  [Deriver({"Generic", "GOST28147", "Kuznechik"}, "none", FALSE)
     EXCEPT !.adds = {"GOST28147_PARAMS"}, !.tokens = {FALSE}]
deriveGOSTKDF   ==
  [Deriver({"Twin", "GOST28147", "Kuznechik"}, "none", FALSE)
     EXCEPT !.adds = {"GOST28147_PARAMS"}, !.tokens = {FALSE}]

C_EncapsulateSecret == Deriver({"Generic", "AES"}, "whole", FALSE)
C_DecapsulateSecret == [C_EncapsulateSecret EXCEPT !.op = "DECAPSULATE"]

Derivers ==
  {deriveDH, deriveECDH, deriveEDDSA, deriveSymmetric, deriveConcatenated, deriveGOSTKEG,
   deriveGOSTVKO, deriveGOSTKDF, C_EncapsulateSecret, C_DecapsulateSecret}
-----------------------------------------------------------------------------
(* C_UnwrapKey: what is stored of the PKCS #8 encoding of a private key. *)

setRSAPrivateKey   == RSAParts
setDSAPrivateKey   == {"PRIME", "SUBPRIME", "BASE", "VALUE"}
setDHPrivateKey    == {"PRIME", "BASE", "VALUE"}
setECPrivateKey    == {"EC_PARAMS", "VALUE"}
setEDPrivateKey    == {"EC_PARAMS", "VALUE"}
setGOSTPrivateKey  == {"VALUE", "GOSTR3410_PARAMS"}
setMLDSAPrivateKey == {"SEED", "VALUE"}
setMLKEMPrivateKey == {"SEED", "VALUE"}

Unwrapped ==
  [RSAPrivate |-> setRSAPrivateKey, DSAPrivate |-> setDSAPrivateKey,
   DHPrivate |-> setDHPrivateKey, ECPrivate |-> setECPrivateKey,
   EDPrivate |-> setEDPrivateKey, GOSTPrivate |-> setGOSTPrivateKey,
   MLDSAPrivate |-> setMLDSAPrivateKey, MLKEMPrivate |-> setMLKEMPrivateKey]
    @@ [k \in DOMAIN SecretKeys |-> {"VALUE"}]
-----------------------------------------------------------------------------
(* What a function that uses a key reads and cannot do without. *)

getRSAPrivateKey   == {"MODULUS", "PRIVATE_EXPONENT"}
getRSAPublicKey    == {"MODULUS", "PUBLIC_EXPONENT"}
getDSAPrivateKey   == {"PRIME", "SUBPRIME", "BASE", "VALUE"}
getDSAPublicKey    == {"PRIME", "SUBPRIME", "BASE", "VALUE"}
getECPrivateKey    == {"EC_PARAMS", "VALUE"}
getECPublicKey     == {"EC_PARAMS", "EC_POINT"}
getEDPrivateKey    == {"EC_PARAMS", "VALUE"}
getEDPublicKey     == {"EC_PARAMS", "EC_POINT"}
getDHPrivateKey    == {"PRIME", "BASE", "VALUE"}
getGOSTPrivateKey  == {"GOSTR3410_PARAMS", "VALUE"}
getGOSTPublicKey   == {"GOSTR3410_PARAMS", "VALUE"}
getSymmetricKey    == {"VALUE"}
getMLDSAPrivateKey == {"VALUE"}
getMLDSAPublicKey  == {"VALUE"}
getMLKEMPrivateKey == {"VALUE", "SEED"}
getMLKEMPublicKey  == {"VALUE"}

\* Of a public DH key only the value is used, by the peer.
Reads ==
  [RSAPrivate |-> getRSAPrivateKey, RSAPublic |-> getRSAPublicKey,
   DSAPrivate |-> getDSAPrivateKey, DSAPublic |-> getDSAPublicKey,
   ECPrivate |-> getECPrivateKey, ECPublic |-> getECPublicKey,
   EDPrivate |-> getEDPrivateKey, EDPublic |-> getEDPublicKey,
   DHPrivate |-> getDHPrivateKey, DHPublic |-> {"VALUE"},
   GOSTPrivate |-> getGOSTPrivateKey, GOSTPublic |-> getGOSTPublicKey,
   MLDSAPrivate |-> getMLDSAPrivateKey, MLDSAPublic |-> getMLDSAPublicKey,
   MLKEMPrivate |-> getMLKEMPrivateKey, MLKEMPublic |-> getMLKEMPublicKey]
    @@ [k \in DOMAIN SecretKeys |-> getSymmetricKey]
=============================================================================
