------------------------------ MODULE Signatures ------------------------------
(****************************************************************************)
(* C_SignInit, C_Sign, C_SignUpdate, C_SignFinal, the functions that verify, *)
(* and the RSA side of C_Encrypt and C_Decrypt, from the mechanism an        *)
(* application names to the call of the library: the tables of SoftHSM.cpp   *)
(* and the engines of module SignatureEngines, for the builds with either    *)
(* library.                                                                  *)
(*                                                                           *)
(* One session and one key (a pair, or a secret). The rules of a session's   *)
(* operations are those of module SessionOperations, without the lengths of  *)
(* buffers, which are large enough, and the re-authentication.               *)
(****************************************************************************)
EXTENDS Mechanisms, SignatureEngines

CONSTANTS
  Builds,      \* [lib, defs, keys]: a library, the macros of Mechanisms, and names of KeyType
  Params(_),   \* parameters an application passes for a mechanism: [hash, mgf, sLen, context]
  RawData,     \* what the mechanisms that do not hash, and encryption, are given
  Texts        \* the messages that the others are given, in parts or whole

VARIABLES
  build, key,  \* do not change
  session,     \* the operation under way
  asked,       \* what it is about: [purpose, mechanism, key, param, data]
  issued,      \* the signature or ciphertext the application holds: [request, value]
  verdict,     \* of the last verification or decryption: [known, request, accepted, fault]
  reply        \* of the last call, when it was refused: [function, rv, request, fault, multi]

vars == <<build, key, session, asked, issued, verdict, reply>>

-----------------------------------------------------------------------------
\* Keys.

KeyType ==
  "rsa512" :> "RSA" @@ "rsa1024" :> "RSA" @@ "dsa" :> "DSA" @@ "ec" :> "EC" @@ "ed" :> "EC_EDWARDS"
    @@ "gost94" :> "GOSTR3410" @@ "gost256" :> "GOSTR3410" @@ "gost512" :> "GOSTR3410_512"
    @@ "mldsa" :> "ML_DSA" @@ "generic" :> "GENERIC_SECRET" @@ "short" :> "GENERIC_SECRET"
    @@ "aes" :> "AES" @@ "des3" :> "DES3" @@ "gost28147" :> "GOST28147" @@ "kuznechik" :> "KUZNECHIK"
    @@ "magma" :> "MAGMA"

KeyBytes == [k \in DOMAIN KeyType |-> CASE k = "generic" -> 64 [] k = "short" -> 20 [] OTHER -> 32]

-----------------------------------------------------------------------------
\* The switch of AsymSignInit: the algorithm, its AsymMech and whether it takes parts.
Asym(algo, mech, multi) == [algo |-> algo, mech |-> mech, multi |-> multi]

AsymSignMechs ==
  "RSA_PKCS"                  :> Asym("RSA", "RSA_PKCS", FALSE)
    @@ "RSA_X_509"            :> Asym("RSA", "RSA", FALSE)
    @@ "MD5_RSA_PKCS"         :> Asym("RSA", "RSA_MD5_PKCS", TRUE)
    @@ "SHA1_RSA_PKCS"        :> Asym("RSA", "RSA_SHA1_PKCS", TRUE)
    @@ "SHA224_RSA_PKCS"      :> Asym("RSA", "RSA_SHA224_PKCS", TRUE)
    @@ "SHA256_RSA_PKCS"      :> Asym("RSA", "RSA_SHA256_PKCS", TRUE)
    @@ "SHA384_RSA_PKCS"      :> Asym("RSA", "RSA_SHA384_PKCS", TRUE)
    @@ "SHA512_RSA_PKCS"      :> Asym("RSA", "RSA_SHA512_PKCS", TRUE)
    @@ "RSA_PKCS_PSS"         :> Asym("RSA", "RSA_PKCS_PSS", FALSE)
    @@ "SHA1_RSA_PKCS_PSS"    :> Asym("RSA", "RSA_SHA1_PKCS_PSS", TRUE)
    @@ "SHA224_RSA_PKCS_PSS"  :> Asym("RSA", "RSA_SHA224_PKCS_PSS", TRUE)
    @@ "SHA256_RSA_PKCS_PSS"  :> Asym("RSA", "RSA_SHA256_PKCS_PSS", TRUE)
    @@ "SHA384_RSA_PKCS_PSS"  :> Asym("RSA", "RSA_SHA384_PKCS_PSS", TRUE)
    @@ "SHA512_RSA_PKCS_PSS"  :> Asym("RSA", "RSA_SHA512_PKCS_PSS", TRUE)
    @@ "DSA"                  :> Asym("DSA", "DSA", FALSE)
    @@ "DSA_SHA1"             :> Asym("DSA", "DSA_SHA1", TRUE)
    @@ "DSA_SHA224"           :> Asym("DSA", "DSA_SHA224", TRUE)
    @@ "DSA_SHA256"           :> Asym("DSA", "DSA_SHA256", TRUE)
    @@ "DSA_SHA384"           :> Asym("DSA", "DSA_SHA384", TRUE)
    @@ "DSA_SHA512"           :> Asym("DSA", "DSA_SHA512", TRUE)
    @@ "ECDSA"                :> Asym("ECDSA", "ECDSA", FALSE)
    @@ "ECDSA_SHA1"           :> Asym("ECDSA", "ECDSA_SHA1", TRUE)
    @@ "ECDSA_SHA224"         :> Asym("ECDSA", "ECDSA_SHA224", TRUE)
    @@ "ECDSA_SHA256"         :> Asym("ECDSA", "ECDSA_SHA256", TRUE)
    @@ "ECDSA_SHA384"         :> Asym("ECDSA", "ECDSA_SHA384", TRUE)
    @@ "ECDSA_SHA512"         :> Asym("ECDSA", "ECDSA_SHA512", TRUE)
    @@ "GOSTR3410"            :> Asym("GOST", "GOST", FALSE)
    @@ "GOSTR3410_WITH_GOSTR3411"          :> Asym("GOST", "GOST_GOST", TRUE)
    @@ "GOSTR3410_WITH_GOSTR3411_2012_256" :> Asym("GOST", "GOST_GOST", TRUE)
    @@ "GOSTR3410_512"                     :> Asym("GOST", "GOST_512", FALSE)
    @@ "GOSTR3410_WITH_GOSTR3411_12_512"   :> Asym("GOST", "GOST_GOST_512", TRUE)
    @@ "EDDSA"                :> Asym("EDDSA", "EDDSA", FALSE)
    @@ "ML_DSA"               :> Asym("MLDSA", "MLDSA", TRUE)

\* AsymVerifyInit has it all again, and one entry differs.
AsymVerifyMechs == [AsymSignMechs EXCEPT !["ML_DSA"].multi = FALSE]

AsymMechs(operation) == IF operation = "SIGN" THEN AsymSignMechs ELSE AsymVerifyMechs

\* The hash that a PSS mechanism demands of its parameter, and its mask with it.
PSSHash ==
  "SHA1_RSA_PKCS_PSS" :> "SHA1" @@ "SHA224_RSA_PKCS_PSS" :> "SHA224" @@ "SHA256_RSA_PKCS_PSS" :> "SHA256"
    @@ "SHA384_RSA_PKCS_PSS" :> "SHA384" @@ "SHA512_RSA_PKCS_PSS" :> "SHA512"

\* The parameter may be left out, or name the hash that the mechanism computes.
gostMechanismParameterAccepted(m, p) ==
  \/ p = NoParam
  \/ m = "GOSTR3410_WITH_GOSTR3411_2012_256" /\ p.hash = "GOST2012_256"
  \/ m = "GOSTR3410_WITH_GOSTR3411_12_512" /\ p.hash = "GOST2012_512"

ParamReply(m, p) ==
  CASE m = "RSA_PKCS_PSS" /\ ~(p.hash \in SHAs /\ p.mgf = p.hash)                 -> "ARGUMENTS_BAD"
    [] m \in DOMAIN PSSHash /\ ~(p.hash = PSSHash[m] /\ p.mgf = PSSHash[m])       -> "ARGUMENTS_BAD"
    [] m \in {"GOSTR3410", "GOSTR3410_WITH_GOSTR3411_2012_256", "GOSTR3410_512",
              "GOSTR3410_WITH_GOSTR3411_12_512"}
         /\ "WITH_GOST" \notin build.defs /\ ~gostMechanismParameterAccepted(m, p) ->
              "MECHANISM_PARAM_INVALID"
    [] OTHER                                                                       -> "OK"

AsymKeyType(a) ==
  IF a.algo = "RSA" THEN "RSA"
  ELSE IF a.algo = "DSA" THEN "DSA"
  ELSE IF a.algo = "ECDSA" THEN "EC"
  ELSE IF a.algo = "EDDSA" THEN "EC_EDWARDS"
  ELSE IF a.algo = "MLDSA" THEN "ML_DSA"
  ELSE IF a.mech \in {"GOST_512", "GOST_GOST_512"} THEN "GOSTR3410_512"
  ELSE "GOSTR3410"

AsymClass(a) ==
  IF a.algo = "GOST" /\ "WITH_GOST" \notin build.defs THEN "BotanGOST2012Signer"
  ELSE getAsymmetricAlgorithm(build.lib, a.algo)

\* The switch of MacSignInit and of MacVerifyInit: the MacAlgo, the key types, the least
\* length of the key and whether a parameter is refused.
Mac(algo, types, minSize, bare) == [algo |-> algo, types |-> types, minSize |-> minSize, bare |-> bare]

MacMechs ==
  "MD5_HMAC"                 :> Mac("HMAC_MD5", {"GENERIC_SECRET", "MD5_HMAC"}, 16, FALSE)
    @@ "SHA_1_HMAC"          :> Mac("HMAC_SHA1", {"GENERIC_SECRET", "SHA_1_HMAC"}, 20, FALSE)
    @@ "SHA224_HMAC"         :> Mac("HMAC_SHA224", {"GENERIC_SECRET", "SHA224_HMAC"}, 28, FALSE)
    @@ "SHA256_HMAC"         :> Mac("HMAC_SHA256", {"GENERIC_SECRET", "SHA256_HMAC"}, 32, FALSE)
    @@ "SHA384_HMAC"         :> Mac("HMAC_SHA384", {"GENERIC_SECRET", "SHA384_HMAC"}, 48, FALSE)
    @@ "SHA512_HMAC"         :> Mac("HMAC_SHA512", {"GENERIC_SECRET", "SHA512_HMAC"}, 64, FALSE)
    @@ "GOSTR3411_12_256_HMAC" :> Mac("HMAC_GOST2012_256", {"GENERIC_SECRET", "GOST28147"}, 0, TRUE)
    @@ "GOSTR3411_12_512_HMAC" :> Mac("HMAC_GOST2012_512", {"GENERIC_SECRET", "GOST28147"}, 0, TRUE)
    @@ "GOSTR3411_HMAC"      :> Mac("HMAC_GOST", {"GENERIC_SECRET", "GOST28147"}, 32, FALSE)
    @@ "DES3_CMAC"           :> Mac("CMAC_DES", {"DES2", "DES3"}, 0, FALSE)
    @@ "AES_CMAC"            :> Mac("CMAC_AES", {"AES"}, 0, FALSE)
    @@ "KUZNECHIK_MAC"       :> Mac("OMAC_KUZNECHIK", {"KUZNECHIK"}, 0, TRUE)
    @@ "GOST28147_MAC"       :> Mac("IMIT_GOST28147", {"GOST28147"}, 0, TRUE)
    @@ "MAGMA_MAC"           :> Mac("OMAC_MAGMA", {"MAGMA"}, 0, TRUE)

-----------------------------------------------------------------------------
\* The session.

NoOperation ==
  [operation |-> "NONE", class |-> "none", mechanism |-> "Unknown", param |-> NoParam, size |-> 0,
   multi |-> FALSE, single |-> FALSE, engine |-> Idle]

Started(operation, class, m, p, size, multi, engine) ==
  [operation |-> operation, class |-> class, mechanism |-> m, param |-> p, size |-> size,
   multi |-> multi, single |-> TRUE, engine |-> engine]

Request(purpose, m, p) == [purpose |-> purpose, mechanism |-> m, key |-> key, param |-> p, data |-> Empty]
NoRequest == [purpose |-> "none", mechanism |-> "none", key |-> "none", param |-> NoParam, data |-> Empty]
NoVerdict == [known |-> FALSE, request |-> NoRequest, accepted |-> FALSE, fault |-> FALSE]
NoReply   == [function |-> "none", rv |-> "OK", request |-> NoRequest, fault |-> FALSE, multi |-> TRUE]

Init ==
  /\ build \in Builds
  /\ key \in build.keys
  /\ session = NoOperation
  /\ asked = NoRequest
  /\ issued = [request |-> NoRequest, value |-> NoSignature]
  /\ verdict = NoVerdict
  /\ reply = NoReply

EngineInit(operation, class, m, p) ==
  IF operation = "SIGN" THEN EngineSignInit(class, key, m, p) ELSE EngineVerifyInit(class, key, m, p)

\* MacSignInit, MacVerifyInit: the reply, and the session when it is OK.
MacInit(operation, m, p) ==
  LET mac    == MacMechs[m]
      class  == getMacAlgorithm(build.lib, mac.algo)
      engine == EngineInit(operation, class, mac.algo, p)
      Answer(rv) == [rv |-> rv, session |-> NoOperation]
  IN  IF m \notin MacCases(build.defs) THEN Answer("MECHANISM_INVALID")
      ELSE IF KeyType[key] \notin mac.types THEN Answer("KEY_TYPE_INCONSISTENT")
      ELSE IF mac.bare /\ p # NoParam THEN Answer("MECHANISM_PARAM_INVALID")
      ELSE IF KeyBytes[key] < mac.minSize THEN Answer("KEY_SIZE_RANGE")
      ELSE IF engine = Idle THEN Answer("MECHANISM_INVALID")
      ELSE [rv |-> "OK",
                     session |-> Started(operation, class, mac.algo, NoParam, getMacSize[mac.algo], TRUE,
                                         engine)]

\* AsymSignInit, AsymVerifyInit. A GOST parameter is looked at and not passed on.
AsymInit(operation, m, p) ==
  LET a      == AsymMechs(operation)[m]
      class  == AsymClass(a)
      given  == IF a.algo \in {"RSA", "MLDSA"} THEN p ELSE NoParam
      engine == EngineInit(operation, class, a.mech, given)
      Answer(rv) == [rv |-> rv, session |-> NoOperation]
  IN  IF m \notin AsymSignCases(build.defs) THEN Answer("MECHANISM_INVALID")
      ELSE IF ParamReply(m, p) # "OK" THEN Answer(ParamReply(m, p))
      ELSE IF KeyType[key] # AsymKeyType(a) THEN Answer("KEY_TYPE_INCONSISTENT")
      ELSE IF a.multi /\ engine = Idle THEN Answer("MECHANISM_INVALID")
      ELSE [rv |-> "OK",
                     session |-> Started(operation, class, a.mech, given, getOutputLength(key), a.multi,
                                         IF a.multi THEN engine ELSE Idle)]

\* AsymEncryptInit, AsymDecryptInit. Their parameter is checked by BuildRSAOAEPParam.
CipherMechs == "RSA_PKCS" :> "RSA_PKCS" @@ "RSA_X_509" :> "RSA" @@ "RSA_PKCS_OAEP" :> "RSA_PKCS_OAEP"

BuildRSAOAEPParam(p) == IF p.hash \in SHAs /\ p.mgf \in SHAs THEN "OK" ELSE "ARGUMENTS_BAD"

CipherInit(operation, m, p) ==
  LET Answer(rv) == [rv |-> rv, session |-> NoOperation]
  IN  IF m \notin AsymCipherCases THEN Answer("MECHANISM_INVALID")
      ELSE IF KeyType[key] # "RSA" THEN Answer("KEY_TYPE_INCONSISTENT")
      ELSE IF m = "RSA_PKCS_OAEP" /\ BuildRSAOAEPParam(p) # "OK" THEN Answer(BuildRSAOAEPParam(p))
      ELSE [rv |-> "OK",
                     session |-> Started(operation, getAsymmetricAlgorithm(build.lib, "RSA"), CipherMechs[m],
                                         IF m = "RSA_PKCS_OAEP" THEN p ELSE NoParam, getOutputLength(key),
                                         FALSE, Idle)]

InitOperation(f, purpose, operation, m, p) ==
  LET result == IF purpose = "ENCRYPT" THEN CipherInit(operation, m, p)
                ELSE IF isMacMechanism(build.defs, m) THEN MacInit(operation, m, p)
                ELSE AsymInit(operation, m, p)
  IN  /\ session.operation = "NONE"
      /\ session' = result.session
      /\ asked' = IF result.rv = "OK" THEN Request(purpose, m, p) ELSE NoRequest
      /\ reply' = IF result.rv = "OK" THEN NoReply
                  ELSE [NoReply EXCEPT !.function = f, !.rv = result.rv, !.request = Request(purpose, m, p)]
      /\ verdict' = NoVerdict
      /\ UNCHANGED <<build, key, issued>>

\* The application signs or encrypts when it holds nothing, then verifies or decrypts what it
\* got against one request, and goes on (Discard) after a verdict or a refusal.
Asks == issued.value = NoSignature /\ reply = NoReply
Checks(purpose) ==
  issued.value # NoSignature /\ issued.request.purpose = purpose /\ reply = NoReply /\ ~verdict.known

C_SignInit(m, p)    == Asks /\ InitOperation("C_SignInit", "SIGN", "SIGN", m, p)
C_VerifyInit(m, p)  == Checks("SIGN") /\ InitOperation("C_VerifyInit", "SIGN", "VERIFY", m, p)
C_EncryptInit(m, p) == Asks /\ InitOperation("C_EncryptInit", "ENCRYPT", "ENCRYPT", m, p)

\* A ciphertext that was padded is not decrypted without padding: what comes out then is the
\* padded block, for which there is no value here.
C_DecryptInit(m, p) ==
  /\ Checks("ENCRYPT")
  /\ m = "RSA_X_509" <=> issued.request.mechanism = "RSA_X_509"
  /\ InitOperation("C_DecryptInit", "ENCRYPT", "DECRYPT", m, p)

\* resetOp, and what the call answers about the request.
End(f, request, rv, fault) ==
  /\ session' = NoOperation
  /\ asked' = NoRequest
  /\ reply' = IF rv \in {"OK", "SIGNATURE_INVALID", "SIGNATURE_LEN_RANGE", "ENCRYPTED_DATA_INVALID"} THEN NoReply
              ELSE [function |-> f, rv |-> rv, request |-> request, fault |-> fault, multi |-> session.multi]
  /\ UNCHANGED <<build, key>>

Refuse(f, request, rv, fault) == End(f, request, rv, fault) /\ UNCHANGED <<issued, verdict>>

\* CKM_RSA_X_509 has the data preceded by zeros up to the length of the modulus.
Padded(data) ==
  IF session.mechanism = "RSA" THEN [data EXCEPT !.zeros = session.size - Size(data)] ELSE data

\* The end of C_Sign and of C_SignFinal.
Deliver(f, request, signature, fails) ==
  IF fails \/ signature = NoSignature \/ MadeSize(signature) # session.size
  THEN Refuse(f, request, "GENERAL_ERROR", fails)
  ELSE /\ End(f, request, "OK", FALSE)
       /\ issued' = [request |-> request, value |-> signature]
       /\ UNCHANGED verdict

\* MacSign, AsymSign. In builds with GOST R 34.10-2012 the digest of the raw mechanism has
\* to have its length.
C_Sign(data, fails) ==
  LET request   == [asked EXCEPT !.data = data]
      signature == IF session.multi
                   THEN EngineSignFinal(session.class, EngineSignUpdate(session.class, session.engine, Padded(data)))
                   ELSE EngineSign(session.class, key, session.mechanism, Padded(data), session.param)
  IN  /\ session.operation = "SIGN"
      /\ IF ~session.single THEN Refuse("C_Sign", request, "OPERATION_NOT_INITIALIZED", FALSE)
         ELSE IF /\ session.mechanism = "GOST" /\ "WITH_GOST_3410_2012_256" \in build.defs
                 /\ Size(data) # 32
         THEN Refuse("C_Sign", request, "DATA_LEN_RANGE", FALSE)
         ELSE Deliver("C_Sign", request, signature, fails)

\* MacSignUpdate, AsymSignUpdate and the two of C_VerifyUpdate.
Update(f, engine, part, fails) ==
  IF ~session.multi THEN Refuse(f, asked, "OPERATION_NOT_INITIALIZED", FALSE)
  ELSE IF fails \/ engine = Idle THEN Refuse(f, asked, "GENERAL_ERROR", fails)
  ELSE /\ session' = [session EXCEPT !.engine = engine, !.single = FALSE]
       /\ asked' = [asked EXCEPT !.data = Joined(@, part)]
       /\ UNCHANGED <<build, key, issued, verdict, reply>>

C_SignUpdate(part, fails) ==
  /\ session.operation = "SIGN"
  /\ Update("C_SignUpdate", EngineSignUpdate(session.class, session.engine, part), part, fails)

\* Nobody asks here whether the mechanism takes parts.
C_SignFinal(fails) ==
  /\ session.operation = "SIGN"
  /\ Deliver("C_SignFinal", asked, EngineSignFinal(session.class, session.engine), fails)

\* The end of C_Verify and of C_VerifyFinal. The signature is the one the application holds.
Judge(f, request, accepted, fault) ==
  /\ End(f, request,
         IF MadeSize(issued.value) # session.size THEN "SIGNATURE_LEN_RANGE"
         ELSE IF accepted THEN "OK" ELSE "SIGNATURE_INVALID", fault)
  /\ verdict' = [known |-> TRUE, request |-> request, fault |-> fault,
                 accepted |-> MadeSize(issued.value) = session.size /\ accepted /\ ~fault]
  /\ UNCHANGED issued

C_Verify(data, fails) ==
  LET request  == [asked EXCEPT !.data = data]
      accepted == IF session.multi
                  THEN EngineVerifyFinal(session.class,
                         EngineVerifyUpdate(session.class, session.engine, Padded(data)), issued.value)
                  ELSE EngineVerify(session.class, key, session.mechanism, Padded(data), issued.value,
                                    session.param)
  IN  /\ session.operation = "VERIFY"
      /\ IF ~session.single THEN Refuse("C_Verify", request, "OPERATION_NOT_INITIALIZED", FALSE)
         ELSE Judge("C_Verify", request, accepted, fails)

C_VerifyUpdate(part, fails) ==
  /\ session.operation = "VERIFY"
  /\ Update("C_VerifyUpdate", EngineVerifyUpdate(session.class, session.engine, part), part, fails)

\* An engine that takes no parts was not initialised and answers that the signature is wrong.
C_VerifyFinal(fails) ==
  /\ session.operation = "VERIFY"
  /\ Judge("C_VerifyFinal", asked, EngineVerifyFinal(session.class, session.engine, issued.value),
           fails \/ ~session.multi)

\* AsymEncrypt and AsymDecrypt.
C_Encrypt(data, fails) ==
  /\ session.operation = "ENCRYPT"
  /\ Deliver("C_Encrypt", [asked EXCEPT !.data = data],
             EngineEncrypt(session.class, key, session.mechanism, Padded(data), session.param), fails)

\* What is decrypted is taken as the answer to whether it is the plaintext; a decryption that
\* fails is held against the plaintext that the application encrypted. Zeros before the data
\* are for the application to take off, as it knows its length.
C_Decrypt(fails) ==
  LET result  == EngineDecrypt(session.class, key, session.mechanism, issued.value, session.param)
      request == [asked EXCEPT !.data = IF result.ok THEN [result.data EXCEPT !.zeros = 0]
                                        ELSE issued.request.data]
  IN  /\ session.operation = "DECRYPT"
      /\ End("C_Decrypt", request, IF result.ok /\ ~fails THEN "OK" ELSE "ENCRYPTED_DATA_INVALID", fails)
      /\ verdict' = [known |-> TRUE, request |-> request, fault |-> fails, accepted |-> result.ok /\ ~fails]
      /\ UNCHANGED issued

\* The application lets go of its signature and of the last answer.
Discard ==
  /\ session.operation = "NONE" /\ (issued.value # NoSignature \/ reply # NoReply)
  /\ issued' = [request |-> NoRequest, value |-> NoSignature]
  /\ verdict' = NoVerdict
  /\ reply' = NoReply
  /\ UNCHANGED <<build, key, session, asked>>

-----------------------------------------------------------------------------
\* Which mechanisms an application tries with a key: those for a key of its kind.
Tried(operation) ==
  {m \in DOMAIN AsymMechs(operation) : KeyType[key] = AsymKeyType(AsymMechs(operation)[m])}
    \union {m \in DOMAIN MacMechs : KeyType[key] \in MacMechs[m].types}

Offered == IF session.multi THEN {Text(t) : t \in Texts} ELSE RawData

\* Whole messages do not grow past the bound.
Parts == {part \in {Text(t) : t \in Texts} : Joined(asked.data, part).text \in Texts}

Next ==
  \/ \E m \in Tried("SIGN") : \E p \in Params(m) : C_SignInit(m, p)
  \/ \E m \in Tried("VERIFY") : \E p \in Params(m) : C_VerifyInit(m, p)
  \/ \E m \in DOMAIN CipherMechs : \E p \in Params(m) : C_EncryptInit(m, p)
  \/ \E m \in DOMAIN CipherMechs : \E p \in Params(m) : C_DecryptInit(m, p)
  \/ \E fails \in BOOLEAN : \/ \E data \in Offered : C_Sign(data, fails)
                            \/ \E data \in RawData : C_Encrypt(data, fails)
                            \/ C_Decrypt(fails)
                            \/ \E part \in Parts : C_SignUpdate(part, fails)
                            \/ C_SignFinal(fails)
                            \/ \E data \in Offered : C_Verify(data, fails)
                            \/ \E part \in Parts : C_VerifyUpdate(part, fails)
                            \/ C_VerifyFinal(fails)
  \/ Discard

Spec == Init /\ [][Next]_vars

-----------------------------------------------------------------------------
\* What the standards define (PKCS #1, FIPS 186 and 204, RFC 8032, GOST R 34.10, the MACs).

StandardHash ==
  [m \in {"MD5_RSA_PKCS"} |-> "MD5"]
    @@ [m \in {"SHA1_RSA_PKCS", "SHA1_RSA_PKCS_PSS", "DSA_SHA1", "ECDSA_SHA1"} |-> "SHA1"]
    @@ [m \in {"SHA224_RSA_PKCS", "SHA224_RSA_PKCS_PSS", "DSA_SHA224", "ECDSA_SHA224"} |-> "SHA224"]
    @@ [m \in {"SHA256_RSA_PKCS", "SHA256_RSA_PKCS_PSS", "DSA_SHA256", "ECDSA_SHA256"} |-> "SHA256"]
    @@ [m \in {"SHA384_RSA_PKCS", "SHA384_RSA_PKCS_PSS", "DSA_SHA384", "ECDSA_SHA384"} |-> "SHA384"]
    @@ [m \in {"SHA512_RSA_PKCS", "SHA512_RSA_PKCS_PSS", "DSA_SHA512", "ECDSA_SHA512"} |-> "SHA512"]
    @@ "GOSTR3410_WITH_GOSTR3411" :> "GOST" @@ "GOSTR3410_WITH_GOSTR3411_2012_256" :> "GOST2012_256"
    @@ "GOSTR3410_WITH_GOSTR3411_12_512" :> "GOST2012_512"

StandardHMAC ==
  "MD5_HMAC" :> "MD5" @@ "SHA_1_HMAC" :> "SHA1" @@ "SHA224_HMAC" :> "SHA224" @@ "SHA256_HMAC" :> "SHA256"
    @@ "SHA384_HMAC" :> "SHA384" @@ "SHA512_HMAC" :> "SHA512" @@ "GOSTR3411_HMAC" :> "GOST"
    @@ "GOSTR3411_12_256_HMAC" :> "GOST2012_256" @@ "GOSTR3411_12_512_HMAC" :> "GOST2012_512"

\* The digest of the message, or the data itself for a mechanism that does not hash.
ToSign(r) == IF r.mechanism \in DOMAIN StandardHash THEN Digest(StandardHash[r.mechanism], r.data) ELSE r.data

\* GOST R 34.10-2012 signs a digest as long as a coordinate.
GOSTLength(r) == CASE r.key = "gost512" -> {64} [] r.key = "gost256" -> {32} [] r.key = "gost94" -> Nat

\* PKCS #1 on encryption.
StandardCiphertext(r) ==
  CASE r.mechanism = "RSA_PKCS"      -> Enciphered(r.key, "PKCS1v15", NoParam, r.data)
    [] r.mechanism = "RSA_PKCS_OAEP" -> Enciphered(r.key, "OAEP", r.param, r.data)
    [] r.mechanism = "RSA_X_509"     ->
         Enciphered(r.key, "RAW_RSA", NoParam, [r.data EXCEPT !.zeros = N(r.key) - Size(r.data)])

StandardSigned(r) ==
  CASE r.mechanism \in HashedRSA({}) ->
         RSAPKCS1(r.key, Info(StandardHash[r.mechanism], ToSign(r)))
    [] r.mechanism = "RSA_PKCS"  -> RSAPKCS1(r.key, r.data)
    [] r.mechanism = "RSA_X_509" -> RSARaw(r.key, [r.data EXCEPT !.zeros = N(r.key) - Size(r.data)])
    [] r.mechanism \in HashedPSS \union {"RSA_PKCS_PSS"} ->
         RSAPSS(r.key, ToSign(r), r.param.hash, r.param.mgf, r.param.sLen)
    [] r.mechanism \in DSAs      -> Made(r.key, "DSA", ToSign(r))
    [] r.mechanism \in ECDSAs    -> Made(r.key, "ECDSA", ToSign(r))
    [] r.mechanism = "EDDSA"     -> Made(r.key, "EDDSA", r.data)
    [] r.mechanism = "ML_DSA"    -> [Made(r.key, "ML_DSA", r.data) EXCEPT !.context = r.param.context]
    [] KeyType[r.key] \in {"GOSTR3410", "GOSTR3410_512"} ->
         IF Size(ToSign(r)) \in GOSTLength(r) THEN Made(r.key, "GOST", ToSign(r)) ELSE NoSignature
    [] r.mechanism \in DOMAIN StandardHMAC -> MAC(r.key, "HMAC", StandardHMAC[r.mechanism], r.data)
    [] r.mechanism = "DES3_CMAC" -> MAC(r.key, "CMAC", "TripleDES", r.data)
    [] r.mechanism = "AES_CMAC"  -> MAC(r.key, "CMAC", "AES", r.data)
    [] r.mechanism = "GOST28147_MAC" -> MAC(r.key, "IMIT", "GOST28147", r.data)
    [] r.mechanism = "KUZNECHIK_MAC" -> MAC(r.key, "OMAC", "OMAC_KUZNECHIK", r.data)
    [] r.mechanism = "MAGMA_MAC"     -> MAC(r.key, "OMAC", "OMAC_MAGMA", r.data)

StandardSignature(r) ==
  IF r.purpose = "ENCRYPT" THEN StandardCiphertext(r) ELSE StandardSigned(r)

Scheme == INSTANCE SignatureScheme

\* Both backends, in one part or in several, sign what the standard defines for the mechanism,
\* the parameter and the data that the application gave, and their verifications accept that
\* and nothing else, whatever tables and paddings are between C_SignInit and the library. So
\* it is with RSA encryption, where what is accepted is the plaintext that comes out.
ImplementsScheme == Scheme!Spec

\* What C_GetMechanismInfo announces for signing, verifying or encrypting can be started with a key and a
\* parameter that the mechanism takes, and signs whatever the standard can sign, unless the
\* library fails: C_SignInit answers CKR_MECHANISM_INVALID only for a salt that cannot fit.
AdvertisedWorks ==
  LET r == reply.request
      FlagOf == "C_SignInit" :> "SIGN" @@ "C_VerifyInit" :> "VERIFY" @@ "C_EncryptInit" :> "ENCRYPT"
                  @@ "C_DecryptInit" :> "DECRYPT"
      SaltFits == r.mechanism \in DOMAIN PSSHash
                    => HashSize[r.param.hash] + r.param.sLen + 2 <= emLen(key)
  IN  /\ reply.rv = "MECHANISM_INVALID" /\ SaltFits
           => FlagOf[reply.function] \notin AdvertisedFor(build.defs, r.mechanism)
      /\ reply.rv = "GENERAL_ERROR" /\ ~reply.fault /\ reply.multi
           => StandardSignature(r) = NoSignature
      /\ reply.rv = "GENERAL_ERROR" /\ ~reply.fault /\ reply.function \in {"C_Sign", "C_Encrypt"}
           => StandardSignature(r) = NoSignature
=============================================================================
