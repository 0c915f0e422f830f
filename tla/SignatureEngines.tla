--------------------------- MODULE SignatureEngines ---------------------------
(****************************************************************************)
(* The classes of src/lib/crypto that sign and verify: for each algorithm    *)
(* one over OpenSSL and one over Botan, written by hand and side by side.    *)
(* The library is external and ideal: a signature is the record of what went *)
(* into it. What is modelled is what these classes make of a mechanism: the  *)
(* hash, the padding, the mask generation and the salt, the checks before    *)
(* the library is called and the state between the parts of a message.       *)
(****************************************************************************)
EXTENDS Integers, Sequences, TLC

-----------------------------------------------------------------------------
\* Data, keys and signatures.

HashSize ==
  "MD5" :> 16 @@ "SHA1" :> 20 @@ "SHA224" :> 28 @@ "SHA256" :> 32 @@ "SHA384" :> 48 @@ "SHA512" :> 64
    @@ "GOST" :> 32 @@ "GOST2012_256" :> 32 @@ "GOST2012_512" :> 64

SHAs == {"SHA1", "SHA224", "SHA256", "SHA384", "SHA512"}

\* A message (a sequence of letters), its digest, or the DigestInfo of a digest; zeros are
\* the bytes before it.
Text(t)         == [form |-> "text", label |-> "none", hash |-> "none", text |-> t, zeros |-> 0]
Digest(h, d)    == [d EXCEPT !.form = "digest", !.hash = h]
Info(h, digest) == [digest EXCEPT !.form = "info", !.label = h]
Empty           == Text(<<>>)

\* What a DigestInfo has before the digest.
PrefixSize(h) == CASE h = "SHA1" -> 15 [] h = "MD5" -> 18 [] OTHER -> 19

Size(d) ==
  d.zeros + CASE d.form = "text"   -> Len(d.text)
              [] d.form = "digest" -> HashSize[d.hash]
              [] d.form = "info"   -> PrefixSize(d.label) + HashSize[d.hash]

Joined(d, part) == IF d = Empty THEN part ELSE [d EXCEPT !.text = @ \o part.text]

\* getBitLength and getN().size() of an RSA key.
Bits(key) == IF key = "rsa512" THEN 512 ELSE 1024
N(key)    == Bits(key) \div 8

Made(key, scheme, over) ==
  [key |-> key, scheme |-> scheme, over |-> over, hash |-> "none", mgf |-> "none", salt |-> 0,
   context |-> "none"]

NoSignature == Made("none", "none", Empty)

NoParam == [hash |-> "none", mgf |-> "none", sLen |-> 0, context |-> "none"]

-----------------------------------------------------------------------------
\* The libraries (external).

RSAPKCS1(key, over) == IF Size(over) <= N(key) - 11 THEN Made(key, "PKCS1", over) ELSE NoSignature

\* EMSA-PSS encodes a digest, a salt and two octets more into emLen octets.
emLen(key) == (Bits(key) + 6) \div 8

RSAPSS(key, digest, hash, mgf, salt) ==
  IF Size(digest) = HashSize[hash] /\ HashSize[hash] + salt + 2 <= emLen(key)
  THEN [Made(key, "PSS", digest) EXCEPT !.hash = hash, !.mgf = mgf, !.salt = salt]
  ELSE NoSignature

RSARaw(key, data) == IF Size(data) = N(key) THEN Made(key, "RAW", data) ELSE NoSignature

\* EVP_PKEY_sign: with a message digest the data must be one of that digest.
EVP_PKEY_sign(key, padding, md, mgf, salt, data) ==
  CASE padding = "PKCS1" /\ md = "none" -> RSAPKCS1(key, data)
    [] padding = "PKCS1" /\ md # "none" ->
         IF Size(data) = HashSize[md] THEN RSAPKCS1(key, Info(md, data)) ELSE NoSignature
    [] padding = "PSS"                  -> RSAPSS(key, data, md, mgf, salt)
    [] padding = "NONE"                 -> RSARaw(key, data)

\* Botan::PK_Signer: the name of an EMSA, its hash and its salt; it is fed the message.
Emsa(name, hash, salt) == [name |-> name, hash |-> hash, salt |-> salt]
NoEmsa == Emsa("", "none", 0)

PK_Signer(key, scheme, emsa, data) ==
  CASE emsa.name = "EMSA3"      -> RSAPKCS1(key, Info(emsa.hash, Digest(emsa.hash, data)))
    [] emsa.name = "EMSA3(Raw)" -> RSAPKCS1(key, data)
    [] emsa.name = "EMSA4"      -> RSAPSS(key, Digest(emsa.hash, data), emsa.hash, emsa.hash, emsa.salt)
    [] emsa.name = "PSSR_Raw"   -> RSAPSS(key, data, emsa.hash, emsa.hash, emsa.salt)
    [] emsa.name = "EMSA1"      -> Made(key, scheme, Digest(emsa.hash, data))
    [] emsa.name = "Raw"        -> IF scheme = "RAW" THEN RSARaw(key, data) ELSE Made(key, scheme, data)
    [] emsa.name = "Pure"       -> Made(key, scheme, data)
    [] OTHER                    -> NoSignature

\* A verification compares: the library accepts what it would have made itself.
Accepts(made, signature) == made # NoSignature /\ made = signature

-----------------------------------------------------------------------------
\* AsymmetricAlgorithm and MacAlgorithm: the state of an operation, one at a time. fed is
\* what has gone into the hash, the signer or the message so far.
Idle ==
  [operation |-> "NONE", mechanism |-> "Unknown", key |-> "none", hash |-> "none", emsa |-> NoEmsa,
   sLen |-> 0, context |-> "none", fed |-> Empty]

\* signInit: a new engine, so no operation is under way.
signInit(key, m) == [Idle EXCEPT !.operation = "SIGN", !.mechanism = m, !.key = key]
signUpdate(e)    == e.operation = "SIGN"
signFinal(e)     == e.operation = "SIGN"
verifyInit(key, m) == [Idle EXCEPT !.operation = "VERIFY", !.mechanism = m, !.key = key]
verifyUpdate(e)    == e.operation = "VERIFY"
verifyFinal(e)     == e.operation = "VERIFY"

\* What most engines do with a part. One that was not initialised refuses it and stays idle.
Fed(e, part) == [e EXCEPT !.fed = Joined(@, part)]

-----------------------------------------------------------------------------
\* RSA.

\* size_t arithmetic: for a key too short for the hash the bound wraps to a huge one. (Any
\* width beyond the lengths of salts will do; TLC's integers are shorter than a size_t.)
WordBits == 30
SizeT(n) == n % 2 ^ WordBits

SaltTooLong(key, sLen, hLen) == sLen > SizeT((Bits(key) + 6) \div 8 - 2 - hLen)

\* The parameter of a PSS mechanism that hashes: its hash and its mask are that hash.
PSSAccepted(key, h, p) == p.hash = h /\ p.mgf = h /\ ~SaltTooLong(key, p.sLen, HashSize[h])

\* OSSLRSA::sign for the three mechanisms that compute no hash.
OSSLRSA_signPKCS(key, data) ==
  IF Size(data) <= N(key) - 11 THEN EVP_PKEY_sign(key, "PKCS1", "none", "none", 0, data) ELSE NoSignature

OSSLRSA_signPSS(key, data, p) ==
  IF p.hash \in SHAs /\ p.mgf \in SHAs /\ Size(data) = HashSize[p.hash]
       /\ ~SaltTooLong(key, p.sLen, HashSize[p.hash])
  THEN EVP_PKEY_sign(key, "PSS", p.hash, p.mgf, p.sLen, data) ELSE NoSignature

OSSLRSA_signRaw(key, data) ==
  IF Size(data) = N(key) THEN EVP_PKEY_sign(key, "NONE", "none", "none", 0, data) ELSE NoSignature

OSSLRSASignHashes ==
  "RSA_MD5_PKCS" :> "MD5" @@ "RSA_SHA1_PKCS" :> "SHA1" @@ "RSA_SHA224_PKCS" :> "SHA224"
    @@ "RSA_SHA256_PKCS" :> "SHA256" @@ "RSA_SHA384_PKCS" :> "SHA384" @@ "RSA_SHA512_PKCS" :> "SHA512"

OSSLRSASignPSSHashes ==
  "RSA_SHA1_PKCS_PSS" :> "SHA1" @@ "RSA_SHA224_PKCS_PSS" :> "SHA224" @@ "RSA_SHA256_PKCS_PSS" :> "SHA256"
    @@ "RSA_SHA384_PKCS_PSS" :> "SHA384" @@ "RSA_SHA512_PKCS_PSS" :> "SHA512"

\* Mutant: the length of the salt is checked and not kept.
OSSLRSA_signInitUnsalted(key, m, p) ==
  CASE m \in DOMAIN OSSLRSASignHashes -> [signInit(key, m) EXCEPT !.hash = OSSLRSASignHashes[m]]
    [] m \in DOMAIN OSSLRSASignPSSHashes /\ PSSAccepted(key, OSSLRSASignPSSHashes[m], p) ->
         [signInit(key, m) EXCEPT !.hash = OSSLRSASignPSSHashes[m]]
    [] OTHER -> Idle

\* The hash is started here, of one table, and the padding chosen in signFinal, of another.
OSSLRSA_signInit(key, m, p) ==
  CASE m \in DOMAIN OSSLRSASignHashes -> [signInit(key, m) EXCEPT !.hash = OSSLRSASignHashes[m]]
    [] m \in DOMAIN OSSLRSASignPSSHashes /\ PSSAccepted(key, OSSLRSASignPSSHashes[m], p) ->
         [signInit(key, m) EXCEPT !.hash = OSSLRSASignPSSHashes[m], !.sLen = p.sLen]
    [] OTHER -> Idle

OSSLRSA_signUpdate(e, part) == IF signUpdate(e) THEN Fed(e, part) ELSE Idle

\* Padding and message digest of each mechanism.
OSSLRSASignPaddings ==
  "RSA_MD5_PKCS" :> <<"PKCS1", "MD5">> @@ "RSA_SHA1_PKCS" :> <<"PKCS1", "SHA1">>
    @@ "RSA_SHA224_PKCS" :> <<"PKCS1", "SHA224">> @@ "RSA_SHA256_PKCS" :> <<"PKCS1", "SHA256">>
    @@ "RSA_SHA384_PKCS" :> <<"PKCS1", "SHA384">> @@ "RSA_SHA512_PKCS" :> <<"PKCS1", "SHA512">>
    @@ "RSA_SHA1_PKCS_PSS" :> <<"PSS", "SHA1">> @@ "RSA_SHA224_PKCS_PSS" :> <<"PSS", "SHA224">>
    @@ "RSA_SHA256_PKCS_PSS" :> <<"PSS", "SHA256">> @@ "RSA_SHA384_PKCS_PSS" :> <<"PSS", "SHA384">>
    @@ "RSA_SHA512_PKCS_PSS" :> <<"PSS", "SHA512">>

OSSLRSA_signFinal(e) ==
  IF signFinal(e) /\ e.mechanism \in DOMAIN OSSLRSASignPaddings
  THEN LET padding == OSSLRSASignPaddings[e.mechanism]
       IN  EVP_PKEY_sign(e.key, padding[1], padding[2], padding[2], e.sLen, Digest(e.hash, e.fed))
  ELSE NoSignature

OSSLRSA_verifyPKCS(key, data, signature) ==
  Accepts(EVP_PKEY_sign(key, "PKCS1", "none", "none", 0, data), signature)

OSSLRSA_verifyPSS(key, data, signature, p) ==
  /\ p.hash \in SHAs /\ p.mgf \in SHAs /\ Size(data) = HashSize[p.hash]
  /\ ~SaltTooLong(key, p.sLen, HashSize[p.hash])
  /\ Accepts(EVP_PKEY_sign(key, "PSS", p.hash, p.mgf, p.sLen, data), signature)

OSSLRSA_verifyRaw(key, data, signature) ==
  Accepts(EVP_PKEY_sign(key, "NONE", "none", "none", 0, data), signature)

OSSLRSAVerifyHashes ==
  "RSA_MD5_PKCS" :> "MD5" @@ "RSA_SHA1_PKCS" :> "SHA1" @@ "RSA_SHA224_PKCS" :> "SHA224"
    @@ "RSA_SHA256_PKCS" :> "SHA256" @@ "RSA_SHA384_PKCS" :> "SHA384" @@ "RSA_SHA512_PKCS" :> "SHA512"

OSSLRSAVerifyPSSHashes ==
  "RSA_SHA1_PKCS_PSS" :> "SHA1" @@ "RSA_SHA224_PKCS_PSS" :> "SHA224" @@ "RSA_SHA256_PKCS_PSS" :> "SHA256"
    @@ "RSA_SHA384_PKCS_PSS" :> "SHA384" @@ "RSA_SHA512_PKCS_PSS" :> "SHA512"

OSSLRSA_verifyInit(key, m, p) ==
  CASE m \in DOMAIN OSSLRSAVerifyHashes -> [verifyInit(key, m) EXCEPT !.hash = OSSLRSAVerifyHashes[m]]
    [] m \in DOMAIN OSSLRSAVerifyPSSHashes /\ PSSAccepted(key, OSSLRSAVerifyPSSHashes[m], p) ->
         [verifyInit(key, m) EXCEPT !.hash = OSSLRSAVerifyPSSHashes[m], !.sLen = p.sLen]
    [] OTHER -> Idle

OSSLRSA_verifyUpdate(e, part) == IF verifyUpdate(e) THEN Fed(e, part) ELSE Idle

OSSLRSAVerifyPaddings ==
  "RSA_MD5_PKCS" :> <<"PKCS1", "MD5">> @@ "RSA_SHA1_PKCS" :> <<"PKCS1", "SHA1">>
    @@ "RSA_SHA224_PKCS" :> <<"PKCS1", "SHA224">> @@ "RSA_SHA256_PKCS" :> <<"PKCS1", "SHA256">>
    @@ "RSA_SHA384_PKCS" :> <<"PKCS1", "SHA384">> @@ "RSA_SHA512_PKCS" :> <<"PKCS1", "SHA512">>
    @@ "RSA_SHA1_PKCS_PSS" :> <<"PSS", "SHA1">> @@ "RSA_SHA224_PKCS_PSS" :> <<"PSS", "SHA224">>
    @@ "RSA_SHA256_PKCS_PSS" :> <<"PSS", "SHA256">> @@ "RSA_SHA384_PKCS_PSS" :> <<"PSS", "SHA384">>
    @@ "RSA_SHA512_PKCS_PSS" :> <<"PSS", "SHA512">>

OSSLRSA_verifyFinal(e, signature) ==
  /\ verifyFinal(e)
  /\ LET padding == OSSLRSAVerifyPaddings[e.mechanism]
     IN  Accepts(EVP_PKEY_sign(e.key, padding[1], padding[2], padding[2], e.sLen, Digest(e.hash, e.fed)),
                 signature)

\* The salt is held against the bound of SHA-1 whatever the hash.
getCipherRawPss(key, data, p) ==
  IF p.hash \in SHAs /\ Size(data) = HashSize[p.hash] /\ ~SaltTooLong(key, p.sLen, 20)
  THEN Emsa("PSSR_Raw", p.hash, p.sLen) ELSE NoEmsa

BotanRSARawEmsa(key, m, data, p) ==
  CASE m = "RSA"          -> Emsa("Raw", "none", 0)
    [] m = "RSA_PKCS"     -> Emsa("EMSA3(Raw)", "none", 0)
    [] m = "RSA_PKCS_PSS" -> getCipherRawPss(key, data, p)
    [] OTHER              -> NoEmsa

BotanRSA_sign(key, m, data, p)              == PK_Signer(key, "RAW", BotanRSARawEmsa(key, m, data, p), data)
BotanRSA_verify(key, m, data, signature, p) == Accepts(BotanRSA_sign(key, m, data, p), signature)

BotanRSASignHashes ==
  "RSA_MD5_PKCS" :> "MD5" @@ "RSA_SHA1_PKCS" :> "SHA1" @@ "RSA_SHA224_PKCS" :> "SHA224"
    @@ "RSA_SHA256_PKCS" :> "SHA256" @@ "RSA_SHA384_PKCS" :> "SHA384" @@ "RSA_SHA512_PKCS" :> "SHA512"

BotanRSASignPSSHashes ==
  "RSA_SHA1_PKCS_PSS" :> "SHA1" @@ "RSA_SHA224_PKCS_PSS" :> "SHA224" @@ "RSA_SHA256_PKCS_PSS" :> "SHA256"
    @@ "RSA_SHA384_PKCS_PSS" :> "SHA384" @@ "RSA_SHA512_PKCS_PSS" :> "SHA512"

BotanRSA_signInit(key, m, p) ==
  CASE m \in DOMAIN BotanRSASignHashes ->
         [signInit(key, m) EXCEPT !.emsa = Emsa("EMSA3", BotanRSASignHashes[m], 0)]
    [] m \in DOMAIN BotanRSASignPSSHashes /\ PSSAccepted(key, BotanRSASignPSSHashes[m], p) ->
         [signInit(key, m) EXCEPT !.emsa = Emsa("EMSA4", BotanRSASignPSSHashes[m], p.sLen)]
    [] OTHER -> Idle

\* The signer is not given a part without bytes.
BotanRSA_signUpdate(e, part) == IF signUpdate(e) THEN (IF part = Empty THEN e ELSE Fed(e, part)) ELSE Idle
BotanRSA_signFinal(e) == IF signFinal(e) THEN PK_Signer(e.key, "RAW", e.emsa, e.fed) ELSE NoSignature

BotanRSAVerifyHashes ==
  "RSA_MD5_PKCS" :> "MD5" @@ "RSA_SHA1_PKCS" :> "SHA1" @@ "RSA_SHA224_PKCS" :> "SHA224"
    @@ "RSA_SHA256_PKCS" :> "SHA256" @@ "RSA_SHA384_PKCS" :> "SHA384" @@ "RSA_SHA512_PKCS" :> "SHA512"

BotanRSAVerifyPSSHashes ==
  "RSA_SHA1_PKCS_PSS" :> "SHA1" @@ "RSA_SHA224_PKCS_PSS" :> "SHA224" @@ "RSA_SHA256_PKCS_PSS" :> "SHA256"
    @@ "RSA_SHA384_PKCS_PSS" :> "SHA384" @@ "RSA_SHA512_PKCS_PSS" :> "SHA512"

BotanRSA_verifyInit(key, m, p) ==
  CASE m \in DOMAIN BotanRSAVerifyHashes ->
         [verifyInit(key, m) EXCEPT !.emsa = Emsa("EMSA3", BotanRSAVerifyHashes[m], 0)]
    [] m \in DOMAIN BotanRSAVerifyPSSHashes /\ PSSAccepted(key, BotanRSAVerifyPSSHashes[m], p) ->
         [verifyInit(key, m) EXCEPT !.emsa = Emsa("EMSA4", BotanRSAVerifyPSSHashes[m], p.sLen)]
    [] OTHER -> Idle

BotanRSA_verifyUpdate(e, part) ==
  IF verifyUpdate(e) THEN (IF part = Empty THEN e ELSE Fed(e, part)) ELSE Idle
BotanRSA_verifyFinal(e, signature) ==
  verifyFinal(e) /\ Accepts(PK_Signer(e.key, "RAW", e.emsa, e.fed), signature)

\* Encryption with RSA (external): what a padding has room for, and what comes out again. A
\* ciphertext is held in the form of a signature.
Enciphered(key, padding, p, data) ==
  LET room == CASE padding = "PKCS1v15" -> N(key) - 11
                [] padding = "OAEP"     -> N(key) - 2 * HashSize[p.hash] - 2
                [] padding = "RAW_RSA"  -> N(key)
  IN  IF (padding = "RAW_RSA" /\ Size(data) # room) \/ Size(data) > room THEN NoSignature
      ELSE [Made(key, padding, data) EXCEPT !.hash = p.hash, !.mgf = p.mgf, !.context = p.context]

Deciphered(key, padding, p, ciphertext) ==
  LET fits == /\ ciphertext.key = key /\ ciphertext.scheme = padding
              /\ padding = "OAEP" => <<ciphertext.hash, ciphertext.mgf, ciphertext.context>>
                                        = <<p.hash, p.mgf, p.context>>
  IN  [ok |-> fits, data |-> IF fits THEN ciphertext.over ELSE Empty]

NotDeciphered == [ok |-> FALSE, data |-> Empty]

OSSLRSA_encrypt(key, m, data, p) ==
  CASE m = "RSA_PKCS" /\ Size(data) <= N(key) - 11 -> Enciphered(key, "PKCS1v15", NoParam, data)
    [] m = "RSA_PKCS_OAEP" /\ p.hash \in SHAs /\ p.mgf \in SHAs
         /\ Size(data) + 2 * HashSize[p.hash] + 2 <= N(key) -> Enciphered(key, "OAEP", p, data)
    [] m = "RSA" /\ Size(data) = N(key) -> Enciphered(key, "RAW_RSA", NoParam, data)
    [] OTHER -> NoSignature

\* The paddings of its own switch; the length of the data is the library's to find out.
OSSLRSA_decrypt(key, m, ciphertext, p) ==
  CASE m = "RSA_PKCS" -> Deciphered(key, "PKCS1v15", NoParam, ciphertext)
    [] m = "RSA_PKCS_OAEP" /\ p.hash \in SHAs /\ p.mgf \in SHAs -> Deciphered(key, "OAEP", p, ciphertext)
    [] m = "RSA" -> Deciphered(key, "RAW_RSA", NoParam, ciphertext)
    [] OTHER -> NotDeciphered

getCipherOaep(key, dataSize, p) ==
  IF p.hash \in SHAs /\ p.mgf \in SHAs /\ dataSize + 2 * HashSize[p.hash] + 2 <= Bits(key) \div 8
  THEN "OAEP" ELSE ""

BotanRSA_encrypt(key, m, data, p) ==
  CASE m = "RSA_PKCS" -> Enciphered(key, "PKCS1v15", NoParam, data)
    [] m = "RSA_PKCS_OAEP" /\ getCipherOaep(key, Size(data), p) # "" -> Enciphered(key, "OAEP", p, data)
    [] m = "RSA" -> Enciphered(key, "RAW_RSA", NoParam, data)
    [] OTHER -> NoSignature

\* Botan drops the zeros before raw data, and they are put back.
BotanRSA_decrypt(key, m, ciphertext, p) ==
  CASE m = "RSA_PKCS" -> Deciphered(key, "PKCS1v15", NoParam, ciphertext)
    [] m = "RSA_PKCS_OAEP" /\ getCipherOaep(key, 0, p) # "" -> Deciphered(key, "OAEP", p, ciphertext)
    [] m = "RSA" ->
         LET result == Deciphered(key, "RAW_RSA", NoParam, ciphertext)
         IN  IF result.ok THEN [result EXCEPT !.data.zeros = N(key) - Size([result.data EXCEPT !.zeros = 0])]
             ELSE result
    [] OTHER -> NotDeciphered

-----------------------------------------------------------------------------
\* ECDSA and DSA. sign and verify of ECDSA hash the data themselves when the mechanism says
\* so; those of DSA go through signInit and its like. Every one of these functions has a
\* table of its own, and all have the same five hashes.
ECDSAHashes ==
  "ECDSA_SHA1" :> "SHA1" @@ "ECDSA_SHA224" :> "SHA224" @@ "ECDSA_SHA256" :> "SHA256"
    @@ "ECDSA_SHA384" :> "SHA384" @@ "ECDSA_SHA512" :> "SHA512"

\* Mutant: the last of the table is forgotten.
DSAHashesShort ==
  "DSA_SHA1" :> "SHA1" @@ "DSA_SHA224" :> "SHA224" @@ "DSA_SHA256" :> "SHA256" @@ "DSA_SHA384" :> "SHA384"

DSAHashes ==
  "DSA_SHA1" :> "SHA1" @@ "DSA_SHA224" :> "SHA224" @@ "DSA_SHA256" :> "SHA256"
    @@ "DSA_SHA384" :> "SHA384" @@ "DSA_SHA512" :> "SHA512"

\* A hash that is started and fed, and signed at the end.
Hashing(e, table, m) == IF m \in DOMAIN table THEN [e EXCEPT !.hash = table[m]] ELSE Idle

OSSLECDSA_sign(key, m, data) ==
  CASE m = "ECDSA"               -> Made(key, "ECDSA", data)
    [] m \in DOMAIN ECDSAHashes -> Made(key, "ECDSA", Digest(ECDSAHashes[m], data))
    [] OTHER                     -> NoSignature
OSSLECDSA_signInit(key, m)              == Hashing(signInit(key, m), ECDSAHashes, m)
OSSLECDSA_signUpdate(e, part)           == IF signUpdate(e) THEN Fed(e, part) ELSE Idle
OSSLECDSA_signFinal(e) ==
  IF signFinal(e) THEN Made(e.key, "ECDSA", Digest(e.hash, e.fed)) ELSE NoSignature
OSSLECDSA_verify(key, m, data, signature) == Accepts(OSSLECDSA_sign(key, m, data), signature)
OSSLECDSA_verifyInit(key, m)            == Hashing(verifyInit(key, m), ECDSAHashes, m)
OSSLECDSA_verifyUpdate(e, part)         == IF verifyUpdate(e) THEN Fed(e, part) ELSE Idle
OSSLECDSA_verifyFinal(e, signature) ==
  verifyFinal(e) /\ Accepts(Made(e.key, "ECDSA", Digest(e.hash, e.fed)), signature)

\* Over Botan: what the signer gets is hashed already.
RawEmsa == Emsa("Raw", "none", 0)

BotanECDSA_sign(key, m, data) ==
  CASE m = "ECDSA"               -> PK_Signer(key, "ECDSA", RawEmsa, data)
    [] m \in DOMAIN ECDSAHashes -> PK_Signer(key, "ECDSA", RawEmsa, Digest(ECDSAHashes[m], data))
    [] OTHER                     -> NoSignature
BotanECDSA_signInit(key, m)              == Hashing(signInit(key, m), ECDSAHashes, m)
BotanECDSA_signUpdate(e, part)           == IF signUpdate(e) THEN Fed(e, part) ELSE Idle
BotanECDSA_signFinal(e) ==
  IF signFinal(e) THEN PK_Signer(e.key, "ECDSA", RawEmsa, Digest(e.hash, e.fed)) ELSE NoSignature
BotanECDSA_verify(key, m, data, signature) == Accepts(BotanECDSA_sign(key, m, data), signature)
BotanECDSA_verifyInit(key, m)            == Hashing(verifyInit(key, m), ECDSAHashes, m)
BotanECDSA_verifyUpdate(e, part)         == IF verifyUpdate(e) THEN Fed(e, part) ELSE Idle
BotanECDSA_verifyFinal(e, signature) ==
  verifyFinal(e) /\ Accepts(PK_Signer(e.key, "ECDSA", RawEmsa, Digest(e.hash, e.fed)), signature)

OSSLDSA_signInit(key, m)          == Hashing(signInit(key, m), DSAHashes, m)
OSSLDSA_signUpdate(e, part)       == IF signUpdate(e) THEN Fed(e, part) ELSE Idle
OSSLDSA_signFinal(e) ==
  IF signFinal(e) THEN Made(e.key, "DSA", Digest(e.hash, e.fed)) ELSE NoSignature
OSSLDSA_sign(key, m, data) ==
  IF m = "DSA" THEN Made(key, "DSA", data)
  ELSE OSSLDSA_signFinal(OSSLDSA_signUpdate(OSSLDSA_signInit(key, m), data))
OSSLDSA_verifyInit(key, m)        == Hashing(verifyInit(key, m), DSAHashes, m)
OSSLDSA_verifyUpdate(e, part)     == IF verifyUpdate(e) THEN Fed(e, part) ELSE Idle
OSSLDSA_verifyFinal(e, signature) ==
  verifyFinal(e) /\ Accepts(Made(e.key, "DSA", Digest(e.hash, e.fed)), signature)
OSSLDSA_verify(key, m, data, signature) ==
  IF m = "DSA" THEN Accepts(Made(key, "DSA", data), signature)
  ELSE OSSLDSA_verifyFinal(OSSLDSA_verifyUpdate(OSSLDSA_verifyInit(key, m), data), signature)

\* Over Botan the signer hashes, by the name of its EMSA; an empty part does not get to it.
Named(e, table, m) == IF m \in DOMAIN table THEN [e EXCEPT !.emsa = Emsa("EMSA1", table[m], 0)] ELSE Idle
FedBytes(e, part)  == IF part = Empty THEN e ELSE Fed(e, part)

BotanDSA_signInit(key, m)          == Named(signInit(key, m), DSAHashes, m)
BotanDSA_signUpdate(e, part)       == IF signUpdate(e) THEN FedBytes(e, part) ELSE Idle
BotanDSA_signFinal(e) == IF signFinal(e) THEN PK_Signer(e.key, "DSA", e.emsa, e.fed) ELSE NoSignature
BotanDSA_sign(key, m, data) ==
  IF m = "DSA" THEN PK_Signer(key, "DSA", RawEmsa, data)
  ELSE BotanDSA_signFinal(BotanDSA_signUpdate(BotanDSA_signInit(key, m), data))
BotanDSA_verifyInit(key, m)        == Named(verifyInit(key, m), DSAHashes, m)
BotanDSA_verifyUpdate(e, part)     == IF verifyUpdate(e) THEN FedBytes(e, part) ELSE Idle
BotanDSA_verifyFinal(e, signature) ==
  verifyFinal(e) /\ Accepts(PK_Signer(e.key, "DSA", e.emsa, e.fed), signature)
BotanDSA_verify(key, m, data, signature) ==
  IF m = "DSA" THEN Accepts(PK_Signer(key, "DSA", RawEmsa, data), signature)
  ELSE BotanDSA_verifyFinal(BotanDSA_verifyUpdate(BotanDSA_verifyInit(key, m), data), signature)

-----------------------------------------------------------------------------
\* EdDSA takes the message in one call; a signInit of it always fails.
OSSLEDDSA_sign(key, m, data) == IF m = "EDDSA" THEN Made(key, "EDDSA", data) ELSE NoSignature
OSSLEDDSA_verify(key, m, data, signature) == m = "EDDSA" /\ Accepts(Made(key, "EDDSA", data), signature)

BotanEDDSA_sign(key, m, data) ==
  IF m = "EDDSA" THEN PK_Signer(key, "EDDSA", Emsa("Pure", "none", 0), data) ELSE NoSignature
BotanEDDSA_verify(key, m, data, signature) ==
  m = "EDDSA" /\ Accepts(PK_Signer(key, "EDDSA", Emsa("Pure", "none", 0), data), signature)

-----------------------------------------------------------------------------
\* GOST R 34.10. For the raw mechanisms, sign is that of the base class: signInit, signUpdate
\* with all the data, signFinal.
BotanGOSTEmsas == "GOST" :> RawEmsa @@ "GOST_GOST" :> Emsa("EMSA1", "GOST", 0)

BotanGOST_signInit(key, m) ==
  IF m \in DOMAIN BotanGOSTEmsas THEN [signInit(key, m) EXCEPT !.emsa = BotanGOSTEmsas[m]] ELSE Idle
BotanGOST_signUpdate(e, part) == IF signUpdate(e) THEN FedBytes(e, part) ELSE Idle
BotanGOST_signFinal(e) == IF signFinal(e) THEN PK_Signer(e.key, "GOST", e.emsa, e.fed) ELSE NoSignature
BotanGOST_verifyInit(key, m) ==
  IF m \in DOMAIN BotanGOSTEmsas THEN [verifyInit(key, m) EXCEPT !.emsa = BotanGOSTEmsas[m]] ELSE Idle
BotanGOST_verifyUpdate(e, part) == IF verifyUpdate(e) THEN FedBytes(e, part) ELSE Idle
BotanGOST_verifyFinal(e, signature) ==
  verifyFinal(e) /\ Accepts(PK_Signer(e.key, "GOST", e.emsa, e.fed), signature)

mechanismCoordinateBytes(m) ==
  CASE m \in {"GOST", "GOST_GOST"} -> 32 [] m \in {"GOST_512", "GOST_GOST_512"} -> 64 [] OTHER -> 0

mechanismHashes(m) == m \in {"GOST_GOST", "GOST_GOST_512"}

mechanismHashName(m) == IF m = "GOST_GOST_512" THEN "GOST2012_512" ELSE "GOST2012_256"

\* The length of the private key, half that of the public one.
CoordinateBytes(key) == IF key = "gost512" THEN 64 ELSE 32

signDigest(key, coordinateBytes, digest) ==
  IF Size(digest) = coordinateBytes /\ CoordinateBytes(key) = coordinateBytes
  THEN PK_Signer(key, "GOST", RawEmsa, digest) ELSE NoSignature

\* The verification is computed here, step by step as the standard has it: accepted is what
\* signDigest makes.
verifyDigest(key, coordinateBytes, digest, signature) ==
  Accepts(signDigest(key, coordinateBytes, digest), signature)

HashedByName(e, m) ==
  CASE mechanismCoordinateBytes(m) = 0 -> Idle
    [] mechanismHashes(m)              -> [e EXCEPT !.hash = mechanismHashName(m)]
    [] OTHER                           -> e

\* rawInput may not outgrow a coordinate.
FedGOST2012(e, part) ==
  IF ~mechanismHashes(e.mechanism) /\ Size(Joined(e.fed, part)) > mechanismCoordinateBytes(e.mechanism)
  THEN Idle ELSE FedBytes(e, part)

DigestOf(e) == IF mechanismHashes(e.mechanism) THEN Digest(e.hash, e.fed) ELSE e.fed

BotanGOST2012Signer_signInit(key, m) == HashedByName(signInit(key, m), m)
BotanGOST2012Signer_signUpdate(e, part) == IF signUpdate(e) THEN FedGOST2012(e, part) ELSE Idle
BotanGOST2012Signer_signFinal(e) ==
  IF signFinal(e) THEN signDigest(e.key, mechanismCoordinateBytes(e.mechanism), DigestOf(e))
  ELSE NoSignature
BotanGOST2012Signer_verifyInit(key, m) == HashedByName(verifyInit(key, m), m)
BotanGOST2012Signer_verifyUpdate(e, part) == IF verifyUpdate(e) THEN FedGOST2012(e, part) ELSE Idle
BotanGOST2012Signer_verifyFinal(e, signature) ==
  verifyFinal(e) /\ verifyDigest(e.key, mechanismCoordinateBytes(e.mechanism), DigestOf(e), signature)

-----------------------------------------------------------------------------
\* ML-DSA: the parts are collected, with the context, and signed at the end.
WithContext(key, data, context) == [Made(key, "ML_DSA", data) EXCEPT !.context = context]

OSSLMLDSA_sign(key, m, data, context) ==
  IF m = "MLDSA" THEN WithContext(key, data, context) ELSE NoSignature
OSSLMLDSA_signInit(key, m, context) == [signInit(key, m) EXCEPT !.context = context]
OSSLMLDSA_signUpdate(e, part)       == IF signUpdate(e) THEN Fed(e, part) ELSE Idle
OSSLMLDSA_signFinal(e) ==
  IF signFinal(e) THEN OSSLMLDSA_sign(e.key, e.mechanism, e.fed, e.context) ELSE NoSignature
OSSLMLDSA_verify(key, m, data, signature, context) ==
  m = "MLDSA" /\ Accepts(WithContext(key, data, context), signature)
OSSLMLDSA_verifyInit(key, m, context) == [verifyInit(key, m) EXCEPT !.context = context]
OSSLMLDSA_verifyUpdate(e, part)       == IF verifyUpdate(e) THEN Fed(e, part) ELSE Idle
OSSLMLDSA_verifyFinal(e, signature) ==
  verifyFinal(e) /\ OSSLMLDSA_verify(e.key, e.mechanism, e.fed, signature, e.context)

-----------------------------------------------------------------------------
\* MACs. The keys have a length that the MAC takes: SoftHSM looks at their type before.
MAC(key, scheme, function, data) == [Made(key, scheme, data) EXCEPT !.hash = function]

OSSLHMACs ==
  "HMAC_MD5" :> "MD5" @@ "HMAC_SHA1" :> "SHA1" @@ "HMAC_SHA224" :> "SHA224" @@ "HMAC_SHA256" :> "SHA256"
    @@ "HMAC_SHA384" :> "SHA384" @@ "HMAC_SHA512" :> "SHA512"

OSSLCMACs == "CMAC_DES" :> "TripleDES" @@ "CMAC_AES" :> "AES"

BotanMACs ==
  "HMAC_MD5" :> <<"HMAC", "MD5">> @@ "HMAC_SHA1" :> <<"HMAC", "SHA1">>
    @@ "HMAC_SHA224" :> <<"HMAC", "SHA224">> @@ "HMAC_SHA256" :> <<"HMAC", "SHA256">>
    @@ "HMAC_SHA384" :> <<"HMAC", "SHA384">> @@ "HMAC_SHA512" :> <<"HMAC", "SHA512">>
    @@ "HMAC_GOST2012_256" :> <<"HMAC", "GOST2012_256">> @@ "HMAC_GOST2012_512" :> <<"HMAC", "GOST2012_512">>
    @@ "HMAC_GOST" :> <<"HMAC", "GOST">> @@ "CMAC_DES" :> <<"CMAC", "TripleDES">>
    @@ "CMAC_AES" :> <<"CMAC", "AES">>

\* getMacSize of each of the classes.
getMacSize ==
  "HMAC_MD5" :> 16 @@ "HMAC_SHA1" :> 20 @@ "HMAC_SHA224" :> 28 @@ "HMAC_SHA256" :> 32 @@ "HMAC_SHA384" :> 48
    @@ "HMAC_SHA512" :> 64 @@ "HMAC_GOST2012_256" :> 32 @@ "HMAC_GOST2012_512" :> 64 @@ "HMAC_GOST" :> 32
    @@ "CMAC_DES" :> 8 @@ "CMAC_AES" :> 16 @@ "IMIT_GOST28147" :> 4 @@ "OMAC_KUZNECHIK" :> 8 @@ "OMAC_MAGMA" :> 4

OSSLEVPMacAlgorithm_signInit(key, algo)   == [signInit(key, algo) EXCEPT !.hash = OSSLHMACs[algo]]
OSSLEVPMacAlgorithm_signUpdate(e, part)   == IF signUpdate(e) THEN FedBytes(e, part) ELSE Idle
OSSLEVPMacAlgorithm_signFinal(e) ==
  IF signFinal(e) THEN MAC(e.key, "HMAC", e.hash, e.fed) ELSE NoSignature
OSSLEVPMacAlgorithm_verifyInit(key, algo) == [verifyInit(key, algo) EXCEPT !.hash = OSSLHMACs[algo]]
OSSLEVPMacAlgorithm_verifyUpdate(e, part) == IF verifyUpdate(e) THEN FedBytes(e, part) ELSE Idle
OSSLEVPMacAlgorithm_verifyFinal(e, signature) ==
  verifyFinal(e) /\ MAC(e.key, "HMAC", e.hash, e.fed) = signature

OSSLEVPCMacAlgorithm_signInit(key, algo)   == [signInit(key, algo) EXCEPT !.hash = OSSLCMACs[algo]]
OSSLEVPCMacAlgorithm_signUpdate(e, part)   == IF signUpdate(e) THEN FedBytes(e, part) ELSE Idle
OSSLEVPCMacAlgorithm_signFinal(e) ==
  IF signFinal(e) THEN MAC(e.key, "CMAC", e.hash, e.fed) ELSE NoSignature
OSSLEVPCMacAlgorithm_verifyInit(key, algo) == [verifyInit(key, algo) EXCEPT !.hash = OSSLCMACs[algo]]
OSSLEVPCMacAlgorithm_verifyUpdate(e, part) == IF verifyUpdate(e) THEN FedBytes(e, part) ELSE Idle
OSSLEVPCMacAlgorithm_verifyFinal(e, signature) ==
  verifyFinal(e) /\ MAC(e.key, "CMAC", e.hash, e.fed) = signature

\* The name of the MAC is kept as the EMSA of a signer is.
BotanMacAlgorithm_signInit(key, algo) ==
  [signInit(key, algo) EXCEPT !.emsa = Emsa(BotanMACs[algo][1], BotanMACs[algo][2], 0)]
BotanMacAlgorithm_signUpdate(e, part)   == IF signUpdate(e) THEN FedBytes(e, part) ELSE Idle
BotanMacAlgorithm_signFinal(e) ==
  IF signFinal(e) THEN MAC(e.key, e.emsa.name, e.emsa.hash, e.fed) ELSE NoSignature
BotanMacAlgorithm_verifyInit(key, algo) ==
  [verifyInit(key, algo) EXCEPT !.emsa = Emsa(BotanMACs[algo][1], BotanMACs[algo][2], 0)]
BotanMacAlgorithm_verifyUpdate(e, part) == IF verifyUpdate(e) THEN FedBytes(e, part) ELSE Idle
BotanMacAlgorithm_verifyFinal(e, signature) ==
  verifyFinal(e) /\ MAC(e.key, e.emsa.name, e.emsa.hash, e.fed) = signature

\* The two that are computed here collect the message and call calculate at the end.
GOST28147MacAlgorithm_calculate(e) == MAC(e.key, "IMIT", "GOST28147", e.fed)
GOSTMacAlgorithm_calculate(e)      == MAC(e.key, "OMAC", e.mechanism, e.fed)

\* The length of a signature (external): it has that of its key, a MAC that of its function.
MadeSize(signature) ==
  CASE signature.scheme = "HMAC" -> HashSize[signature.hash]
    [] signature.scheme = "CMAC" -> IF signature.hash = "AES" THEN 16 ELSE 8
    [] signature.scheme = "IMIT" -> 4
    [] signature.scheme = "OMAC" -> IF signature.hash = "OMAC_KUZNECHIK" THEN 8 ELSE 4
    [] signature.scheme \in {"PKCS1", "PSS", "RAW", "PKCS1v15", "OAEP", "RAW_RSA"} -> N(signature.key)
    [] signature.scheme = "DSA" -> 40
    [] signature.scheme = "ML_DSA" -> 2420
    [] OTHER -> 2 * CoordinateBytes(signature.key)

\* getOutputLength of the keys.
getOutputLength(key) ==
  CASE key \in {"rsa512", "rsa1024"} -> N(key)
    [] key = "dsa"                   -> 40
    [] key = "mldsa"                 -> 2420
    [] OTHER                         -> 2 * CoordinateBytes(key)

-----------------------------------------------------------------------------
\* CryptoFactory of the two libraries, and the virtual functions of what it makes.

OSSLAsymmetricAlgorithms ==
  "RSA" :> "OSSLRSA" @@ "DSA" :> "OSSLDSA" @@ "ECDSA" :> "OSSLECDSA" @@ "EDDSA" :> "OSSLEDDSA"
    @@ "MLDSA" :> "OSSLMLDSA"

BotanAsymmetricAlgorithms ==
  "RSA" :> "BotanRSA" @@ "DSA" :> "BotanDSA" @@ "ECDSA" :> "BotanECDSA" @@ "EDDSA" :> "BotanEDDSA"
    @@ "GOST" :> "BotanGOST"

getAsymmetricAlgorithm(lib, algo) ==
  IF lib = "OSSL" THEN OSSLAsymmetricAlgorithms[algo] ELSE BotanAsymmetricAlgorithms[algo]

\* The three that are computed here are the same with both libraries, and so are the HMACs of
\* GOST R 34.11-2012, which are Botan's.
GOSTMacAlgorithms ==
  "IMIT_GOST28147" :> "GOST28147MacAlgorithm" @@ "OMAC_KUZNECHIK" :> "GOSTMacAlgorithm"
    @@ "OMAC_MAGMA" :> "GOSTMacAlgorithm"

OSSLMacAlgorithms ==
  [algo \in DOMAIN OSSLHMACs |-> "OSSLEVPMacAlgorithm"] @@ [algo \in DOMAIN OSSLCMACs |-> "OSSLEVPCMacAlgorithm"]
    @@ "HMAC_GOST2012_256" :> "BotanMacAlgorithm" @@ "HMAC_GOST2012_512" :> "BotanMacAlgorithm"
    @@ GOSTMacAlgorithms

BotanMacAlgorithms == [algo \in DOMAIN BotanMACs |-> "BotanMacAlgorithm"] @@ GOSTMacAlgorithms

getMacAlgorithm(lib, algo) == IF lib = "OSSL" THEN OSSLMacAlgorithms[algo] ELSE BotanMacAlgorithms[algo]

EngineSign(class, key, m, data, p) ==
  CASE class = "OSSLRSA"    -> (CASE m = "RSA_PKCS"     -> OSSLRSA_signPKCS(key, data)
                                  [] m = "RSA_PKCS_PSS" -> OSSLRSA_signPSS(key, data, p)
                                  [] m = "RSA"          -> OSSLRSA_signRaw(key, data))
    [] class = "BotanRSA"   -> BotanRSA_sign(key, m, data, p)
    [] class = "OSSLDSA"    -> OSSLDSA_sign(key, m, data)
    [] class = "BotanDSA"   -> BotanDSA_sign(key, m, data)
    [] class = "OSSLECDSA"  -> OSSLECDSA_sign(key, m, data)
    [] class = "BotanECDSA" -> BotanECDSA_sign(key, m, data)
    [] class = "OSSLEDDSA"  -> OSSLEDDSA_sign(key, m, data)
    [] class = "BotanEDDSA" -> BotanEDDSA_sign(key, m, data)
    [] class = "OSSLMLDSA"  -> OSSLMLDSA_sign(key, m, data, p.context)
    [] class = "BotanGOST"  -> BotanGOST_signFinal(BotanGOST_signUpdate(BotanGOST_signInit(key, m), data))
    [] class = "BotanGOST2012Signer" ->
         BotanGOST2012Signer_signFinal(
           BotanGOST2012Signer_signUpdate(BotanGOST2012Signer_signInit(key, m), data))

EngineVerify(class, key, m, data, signature, p) ==
  CASE class = "OSSLRSA"    -> (CASE m = "RSA_PKCS"     -> OSSLRSA_verifyPKCS(key, data, signature)
                                  [] m = "RSA_PKCS_PSS" -> OSSLRSA_verifyPSS(key, data, signature, p)
                                  [] m = "RSA"          -> OSSLRSA_verifyRaw(key, data, signature))
    [] class = "BotanRSA"   -> BotanRSA_verify(key, m, data, signature, p)
    [] class = "OSSLDSA"    -> OSSLDSA_verify(key, m, data, signature)
    [] class = "BotanDSA"   -> BotanDSA_verify(key, m, data, signature)
    [] class = "OSSLECDSA"  -> OSSLECDSA_verify(key, m, data, signature)
    [] class = "BotanECDSA" -> BotanECDSA_verify(key, m, data, signature)
    [] class = "OSSLEDDSA"  -> OSSLEDDSA_verify(key, m, data, signature)
    [] class = "BotanEDDSA" -> BotanEDDSA_verify(key, m, data, signature)
    [] class = "OSSLMLDSA"  -> OSSLMLDSA_verify(key, m, data, signature, p.context)
    [] class = "BotanGOST"  ->
         BotanGOST_verifyFinal(BotanGOST_verifyUpdate(BotanGOST_verifyInit(key, m), data), signature)
    [] class = "BotanGOST2012Signer" ->
         BotanGOST2012Signer_verifyFinal(
           BotanGOST2012Signer_verifyUpdate(BotanGOST2012Signer_verifyInit(key, m), data), signature)

EngineEncrypt(class, key, m, data, p) ==
  IF class = "OSSLRSA" THEN OSSLRSA_encrypt(key, m, data, p) ELSE BotanRSA_encrypt(key, m, data, p)
EngineDecrypt(class, key, m, ciphertext, p) ==
  IF class = "OSSLRSA" THEN OSSLRSA_decrypt(key, m, ciphertext, p) ELSE BotanRSA_decrypt(key, m, ciphertext, p)

EngineSignInit(class, key, m, p) ==
  CASE class = "OSSLRSA"              -> OSSLRSA_signInit(key, m, p)
    [] class = "BotanRSA"             -> BotanRSA_signInit(key, m, p)
    [] class = "OSSLDSA"              -> OSSLDSA_signInit(key, m)
    [] class = "BotanDSA"             -> BotanDSA_signInit(key, m)
    [] class = "OSSLECDSA"            -> OSSLECDSA_signInit(key, m)
    [] class = "BotanECDSA"           -> BotanECDSA_signInit(key, m)
    [] class = "OSSLMLDSA"            -> OSSLMLDSA_signInit(key, m, p.context)
    [] class = "BotanGOST"            -> BotanGOST_signInit(key, m)
    [] class = "BotanGOST2012Signer"  -> BotanGOST2012Signer_signInit(key, m)
    [] class = "OSSLEVPMacAlgorithm"  -> OSSLEVPMacAlgorithm_signInit(key, m)
    [] class = "OSSLEVPCMacAlgorithm" -> OSSLEVPCMacAlgorithm_signInit(key, m)
    [] class = "BotanMacAlgorithm"    -> BotanMacAlgorithm_signInit(key, m)
    [] class \in {"GOST28147MacAlgorithm", "GOSTMacAlgorithm"} -> signInit(key, m)
    [] class \in {"OSSLEDDSA", "BotanEDDSA"} -> Idle

EngineSignUpdate(class, e, part) ==
  CASE class = "OSSLRSA"              -> OSSLRSA_signUpdate(e, part)
    [] class = "BotanRSA"             -> BotanRSA_signUpdate(e, part)
    [] class = "OSSLDSA"              -> OSSLDSA_signUpdate(e, part)
    [] class = "BotanDSA"             -> BotanDSA_signUpdate(e, part)
    [] class = "OSSLECDSA"            -> OSSLECDSA_signUpdate(e, part)
    [] class = "BotanECDSA"           -> BotanECDSA_signUpdate(e, part)
    [] class = "OSSLMLDSA"            -> OSSLMLDSA_signUpdate(e, part)
    [] class = "BotanGOST"            -> BotanGOST_signUpdate(e, part)
    [] class = "BotanGOST2012Signer"  -> BotanGOST2012Signer_signUpdate(e, part)
    [] class = "OSSLEVPMacAlgorithm"  -> OSSLEVPMacAlgorithm_signUpdate(e, part)
    [] class = "OSSLEVPCMacAlgorithm" -> OSSLEVPCMacAlgorithm_signUpdate(e, part)
    [] class = "BotanMacAlgorithm"    -> BotanMacAlgorithm_signUpdate(e, part)
    [] class \in {"GOST28147MacAlgorithm", "GOSTMacAlgorithm"} -> IF signUpdate(e) THEN Fed(e, part) ELSE Idle

EngineSignFinal(class, e) ==
  CASE class = "OSSLRSA"               -> OSSLRSA_signFinal(e)
    [] class = "BotanRSA"              -> BotanRSA_signFinal(e)
    [] class = "OSSLDSA"               -> OSSLDSA_signFinal(e)
    [] class = "BotanDSA"              -> BotanDSA_signFinal(e)
    [] class = "OSSLECDSA"             -> OSSLECDSA_signFinal(e)
    [] class = "BotanECDSA"            -> BotanECDSA_signFinal(e)
    [] class = "OSSLMLDSA"             -> OSSLMLDSA_signFinal(e)
    [] class = "BotanGOST"             -> BotanGOST_signFinal(e)
    [] class = "BotanGOST2012Signer"   -> BotanGOST2012Signer_signFinal(e)
    [] class = "OSSLEVPMacAlgorithm"   -> OSSLEVPMacAlgorithm_signFinal(e)
    [] class = "OSSLEVPCMacAlgorithm"  -> OSSLEVPCMacAlgorithm_signFinal(e)
    [] class = "BotanMacAlgorithm"     -> BotanMacAlgorithm_signFinal(e)
    [] class = "GOST28147MacAlgorithm" -> IF signFinal(e) THEN GOST28147MacAlgorithm_calculate(e) ELSE NoSignature
    [] class = "GOSTMacAlgorithm"      -> IF signFinal(e) THEN GOSTMacAlgorithm_calculate(e) ELSE NoSignature
    [] class \in {"OSSLEDDSA", "BotanEDDSA"} -> NoSignature

EngineVerifyInit(class, key, m, p) ==
  CASE class = "OSSLRSA"              -> OSSLRSA_verifyInit(key, m, p)
    [] class = "BotanRSA"             -> BotanRSA_verifyInit(key, m, p)
    [] class = "OSSLDSA"              -> OSSLDSA_verifyInit(key, m)
    [] class = "BotanDSA"             -> BotanDSA_verifyInit(key, m)
    [] class = "OSSLECDSA"            -> OSSLECDSA_verifyInit(key, m)
    [] class = "BotanECDSA"           -> BotanECDSA_verifyInit(key, m)
    [] class = "OSSLMLDSA"            -> OSSLMLDSA_verifyInit(key, m, p.context)
    [] class = "BotanGOST"            -> BotanGOST_verifyInit(key, m)
    [] class = "BotanGOST2012Signer"  -> BotanGOST2012Signer_verifyInit(key, m)
    [] class = "OSSLEVPMacAlgorithm"  -> OSSLEVPMacAlgorithm_verifyInit(key, m)
    [] class = "OSSLEVPCMacAlgorithm" -> OSSLEVPCMacAlgorithm_verifyInit(key, m)
    [] class = "BotanMacAlgorithm"    -> BotanMacAlgorithm_verifyInit(key, m)
    [] class \in {"GOST28147MacAlgorithm", "GOSTMacAlgorithm"} -> verifyInit(key, m)
    [] class \in {"OSSLEDDSA", "BotanEDDSA"} -> Idle

EngineVerifyUpdate(class, e, part) ==
  CASE class = "OSSLRSA"              -> OSSLRSA_verifyUpdate(e, part)
    [] class = "BotanRSA"             -> BotanRSA_verifyUpdate(e, part)
    [] class = "OSSLDSA"              -> OSSLDSA_verifyUpdate(e, part)
    [] class = "BotanDSA"             -> BotanDSA_verifyUpdate(e, part)
    [] class = "OSSLECDSA"            -> OSSLECDSA_verifyUpdate(e, part)
    [] class = "BotanECDSA"           -> BotanECDSA_verifyUpdate(e, part)
    [] class = "OSSLMLDSA"            -> OSSLMLDSA_verifyUpdate(e, part)
    [] class = "BotanGOST"            -> BotanGOST_verifyUpdate(e, part)
    [] class = "BotanGOST2012Signer"  -> BotanGOST2012Signer_verifyUpdate(e, part)
    [] class = "OSSLEVPMacAlgorithm"  -> OSSLEVPMacAlgorithm_verifyUpdate(e, part)
    [] class = "OSSLEVPCMacAlgorithm" -> OSSLEVPCMacAlgorithm_verifyUpdate(e, part)
    [] class = "BotanMacAlgorithm"    -> BotanMacAlgorithm_verifyUpdate(e, part)
    [] class \in {"GOST28147MacAlgorithm", "GOSTMacAlgorithm"} -> IF verifyUpdate(e) THEN Fed(e, part) ELSE Idle

EngineVerifyFinal(class, e, signature) ==
  CASE class = "OSSLRSA"               -> OSSLRSA_verifyFinal(e, signature)
    [] class = "BotanRSA"              -> BotanRSA_verifyFinal(e, signature)
    [] class = "OSSLDSA"               -> OSSLDSA_verifyFinal(e, signature)
    [] class = "BotanDSA"              -> BotanDSA_verifyFinal(e, signature)
    [] class = "OSSLECDSA"             -> OSSLECDSA_verifyFinal(e, signature)
    [] class = "BotanECDSA"            -> BotanECDSA_verifyFinal(e, signature)
    [] class = "OSSLMLDSA"             -> OSSLMLDSA_verifyFinal(e, signature)
    [] class = "BotanGOST"             -> BotanGOST_verifyFinal(e, signature)
    [] class = "BotanGOST2012Signer"   -> BotanGOST2012Signer_verifyFinal(e, signature)
    [] class = "OSSLEVPMacAlgorithm"   -> OSSLEVPMacAlgorithm_verifyFinal(e, signature)
    [] class = "OSSLEVPCMacAlgorithm"  -> OSSLEVPCMacAlgorithm_verifyFinal(e, signature)
    [] class = "BotanMacAlgorithm"     -> BotanMacAlgorithm_verifyFinal(e, signature)
    [] class = "GOST28147MacAlgorithm" -> verifyFinal(e) /\ GOST28147MacAlgorithm_calculate(e) = signature
    [] class = "GOSTMacAlgorithm"      -> verifyFinal(e) /\ GOSTMacAlgorithm_calculate(e) = signature
    [] class \in {"OSSLEDDSA", "BotanEDDSA"} -> FALSE
=============================================================================
