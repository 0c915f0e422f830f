------------------------- MODULE SessionOperations -------------------------
(***************************************************************************)
(* The cryptographic operations of one session: the C_*Init, single-part,  *)
(* multi-part and final functions of SoftHSM.cpp over the state that       *)
(* Session.cpp keeps for the operation under way.                          *)
(*                                                                         *)
(* PKCS #11 has one thread at a time use a session, so a function is one   *)
(* step.  A call that fails its checks before it touches the session is    *)
(* not an action; one that fails later, whether it ends the operation or   *)
(* not, is.  Lengths are real (module CipherBuffer), bytes are not.        *)
(***************************************************************************)
EXTENDS CipherBuffer

CONSTANTS
  MaxLength,    \* bound on the length of one part
  BufferSizes,  \* lengths of the caller's buffers
  KeySizes,     \* lengths of keys in bytes
  Counters,     \* values of the counter in a counter block
  MaxGiven,     \* bound on the bytes given to one operation
  OutputLength  \* length of a digest, a MAC, a signature, an RSA block

ASSUME LengthAssumption ==
  /\ MaxLength \in Nat /\ MaxGiven \in Nat /\ OutputLength \in Nat
  /\ BufferSizes \subseteq Nat /\ KeySizes \subseteq Nat
  /\ Counters \subseteq 0..(2^CounterBits - 1)
  /\ MaxGiven < 2^(IntBits - 1)   \* no int wraps upwards; a subtraction below zero does

VARIABLES
  library,   \* the cryptographic library SoftHSM was built with
  session,   \* the members of class Session that belong to the operation
  cipher,    \* the symmetric cipher while symmetricCryptoOp is not NULL
  user,      \* a user is logged in to the token
  running,   \* the process: FatalException (main.cpp) ends it
  reply,     \* what the last call returned
  history,   \* of the operation under way: see HistoryType
  finished   \* the lengths of the last symmetric operation that ended well

vars == <<library, session, cipher, user, running, reply, history, finished>>

Operations == {"NONE", "FIND", "ENCRYPT", "DECRYPT", "DIGEST", "SIGN", "VERIFY"}
Engines    == {"digestOp", "findOp", "asymmetricCryptoOp", "symmetricCryptoOp", "macOp"}
Keys       == {"publicKey", "privateKey", "symmetricKey"}
Lengths    == 0..MaxLength
NULL       == -1       \* a NULL output buffer: the caller asks for the length
Buffers    == {NULL} \union BufferSizes

SessionType ==
  [operation : Operations,
   engines : SUBSET Engines,       \* those of the five pointers that are not NULL
   keys : SUBSET Keys,             \* and of the three keys
   mechanismParam : BOOLEAN,       \* is not NULL
   allowMultiPartOp : BOOLEAN, allowSinglePartOp : BOOLEAN,
   reAuthentication : BOOLEAN,
   mechanism : {"Unknown", "RSA"}] \* RSA is CKM_RSA_X_509; the others do not matter

HistoryType ==
  [asked : BOOLEAN,     \* the key is CKA_ALWAYS_AUTHENTICATE
   answered : BOOLEAN,  \* C_Login with CKU_CONTEXT_SPECIFIC has succeeded since
   given : Nat,         \* bytes passed in by Updates
   got : Nat,           \* bytes returned by them
   parts : BOOLEAN]     \* there has been an Update

NewSession ==
  [operation |-> "NONE", engines |-> {}, keys |-> {}, mechanismParam |-> FALSE,
   allowMultiPartOp |-> FALSE, allowSinglePartOp |-> FALSE, reAuthentication |-> FALSE,
   mechanism |-> "Unknown"]
NoCipher    ==
  Cipher("none", [mode |-> "ECB", direction |-> "ENCRYPT", counter |-> 0, aad |-> FALSE], NoLimit)
Unfinished  == [cipher |-> NoCipher, given |-> 0, got |-> 0, mixed |-> FALSE]
Started(always) ==
  [asked |-> always, answered |-> FALSE, given |-> 0, got |-> 0, parts |-> FALSE]

\* A return code (CKR_...), and whether a result comes with it.
ReturnCodes ==
  {"OK", "ARGUMENTS_BAD", "BUFFER_TOO_SMALL", "FUNCTION_NOT_SUPPORTED", "GENERAL_ERROR", "LEN_RANGE",
   "OPERATION_NOT_INITIALIZED", "SIGNATURE_INVALID", "SIGNATURE_LEN_RANGE", "TOO_MUCH_DATA",
   "USER_NOT_LOGGED_IN"}
ReplyType   == [rv : ReturnCodes, output : BOOLEAN]
Reply(rv)   == [rv |-> rv, output |-> FALSE]
Output      == [rv |-> "OK", output |-> TRUE]

Init ==
  /\ library \in Libraries
  /\ session = NewSession
  /\ cipher = NoCipher
  /\ user = FALSE
  /\ running = TRUE
  /\ reply = Reply("OK")
  /\ history = Started(FALSE)
  /\ finished = Unfinished
-----------------------------------------------------------------------------
(* Session.cpp *)

\* The pointers resetOp looks at, in the order of its else-if chain: it releases
\* the first that is not NULL, with its keys, and no other.
FirstEngine(engines) ==
  IF "digestOp" \in engines THEN [engine |-> "digestOp", keys |-> {}]
  ELSE IF "findOp" \in engines THEN [engine |-> "findOp", keys |-> {}]
  ELSE IF "asymmetricCryptoOp" \in engines
    THEN [engine |-> "asymmetricCryptoOp", keys |-> {"publicKey", "privateKey"}]
  ELSE IF "symmetricCryptoOp" \in engines
    THEN [engine |-> "symmetricCryptoOp", keys |-> {"symmetricKey"}]
  ELSE IF "macOp" \in engines THEN [engine |-> "macOp", keys |-> {"symmetricKey"}]
  ELSE [engine |-> "none", keys |-> {}]

\* Mutant: the keys stay when the engine goes.
resetOpKeepsKeys(s) ==
  [s EXCEPT !.operation = "NONE", !.reAuthentication = FALSE, !.mechanismParam = FALSE,
            !.engines = @ \ {FirstEngine(s.engines).engine}]

resetOp(s) ==
  LET first == FirstEngine(s.engines)
  IN  [s EXCEPT !.operation = "NONE",
                !.reAuthentication = FALSE,
                !.mechanismParam = FALSE,
                !.engines = @ \ {first.engine},
                !.keys = @ \ first.keys]

\* setOpType, the setter of the engine, setAllow..., the setter of the key,
\* setMechanism and setMechanismParam, as the Init functions call them last.
setOp(s, op, engine, key, param, multi) ==
  [s EXCEPT !.operation = op,
            !.engines = @ \union {engine},
            !.keys = @ \union {key},
            !.mechanismParam = @ \/ param,
            !.allowMultiPartOp = multi,
            !.allowSinglePartOp = TRUE]
-----------------------------------------------------------------------------
(* What a call may do to the operation under way *)

End(answer) ==
  /\ session' = resetOp(session)
  /\ cipher' = NoCipher
  /\ reply' = answer
  /\ history' = Started(FALSE)
  /\ UNCHANGED <<user, running, finished>>

Stay(answer) ==
  /\ reply' = answer
  /\ UNCHANGED <<session, cipher, user, running, history, finished>>

\* A length query, or a buffer that is too small: the length is announced.
Announce(buffer) == Stay(Reply(IF buffer = NULL THEN "OK" ELSE "BUFFER_TOO_SMALL"))

\* The end of an operation whose result has a fixed length.
Deliver(buffer) ==
  IF buffer < OutputLength THEN Announce(buffer)
  ELSE End(Output) \/ End(Reply("GENERAL_ERROR"))
-----------------------------------------------------------------------------
(* C_*Init.  haveRead lets a private key be used by a user only.  Every key  *)
(* of class private key is private here; others are or are not.              *)

Begin(s, always) ==
  /\ session.operation = "NONE"
  /\ session' = s
  /\ reply' = Reply("OK")
  /\ history' = Started(always)
  /\ finished' = Unfinished
  /\ UNCHANGED <<user, running>>

Readable(private) == private => user

\* The switch of SymEncryptInit and SymDecryptInit over the mechanisms that
\* isSymMechanism knows (CKM_..._<algo>_<mode>): what the parameter must be.  A
\* parity bit in every byte of a DES key does not count.
SymMechanisms ==
  ({"AES"} \X {"ECB", "CBC", "CBC_PAD", "CTR", "GCM"}) \union ({"DES"} \X {"ECB", "CBC", "CBC_PAD"})
    \union ({"GOST28147"} \X {"ECB", "CFB", "CBC_PAD"})
    \union ({"KUZNECHIK"} \X {"ECB", "CTR_ACPKM", "MGM"})

IVLengths(algo, mode) ==
  CASE mode = "ECB" -> {0}
    [] mode \in {"CBC", "CBC_PAD"} /\ algo \in {"AES", "DES"} -> {BlockSize - 1, BlockSize}
    [] mode = "CTR_ACPKM" -> {BlockSize \div 2}
    [] OTHER -> {BlockSize}

Bits(algo, bytes) == bytes * (IF algo = "DES" THEN 7 ELSE 8)

Requests(algo, mode, direction) ==
  [mode : {mode}, direction : {direction}, bytes : KeySizes, iv : IVLengths(algo, mode),
   counter : IF mode = "CTR" THEN Counters ELSE {0},
   aad : IF mode = "MGM" THEN BOOLEAN ELSE {FALSE}]

\* The key is of the type the mechanism asks for; encryptInit or decryptInit of
\* the cipher may refuse its length or the IV.
SymInit(direction, algo, mode, private) ==
  /\ Readable(private)
  /\ \E r \in Requests(algo, mode, direction) :
       \E c \in CipherInit(library, algo, r, Bits(algo, r.bytes)) : cipher' = c
  /\ Begin(setOp(session, direction, "symmetricCryptoOp", "symmetricKey", FALSE, TRUE), FALSE)

SymEncryptInit(algo, mode, private) == SymInit("ENCRYPT", algo, mode, private)
SymDecryptInit(algo, mode, private) == SymInit("DECRYPT", algo, mode, private)

\* RSA only and single-part only; OAEP has a parameter.  Only encryption and
\* signatures look at the mechanism again, for CKM_RSA_X_509.
AsymEncryptInit(oaep, mech) ==
  /\ Begin([setOp(session, "ENCRYPT", "asymmetricCryptoOp", "publicKey", oaep, FALSE)
              EXCEPT !.mechanism = mech], FALSE)
  /\ UNCHANGED cipher

AsymDecryptInit(oaep, always) ==
  /\ Readable(TRUE)
  /\ Begin([setOp(session, "DECRYPT", "asymmetricCryptoOp", "privateKey", oaep, FALSE)
              EXCEPT !.mechanism = "Unknown", !.reAuthentication = @ \/ always], always)
  /\ UNCHANGED cipher

\* BuildRSAOAEPParam refuses the hash or the mask generation function after
\* setReAuthentication: engine and key are released, the flag stays.
AsymDecryptInitFails(always) ==
  /\ session.operation = "NONE"
  /\ Readable(TRUE)
  /\ session' = [session EXCEPT !.reAuthentication = @ \/ always]
  /\ reply' = Reply("ARGUMENTS_BAD")
  /\ UNCHANGED <<cipher, user, running, history, finished>>

C_DigestInit ==
  /\ Begin([session EXCEPT !.operation = "DIGEST", !.engines = @ \union {"digestOp"}], FALSE)
  /\ UNCHANGED cipher

MacInit(op, private) ==
  /\ Readable(private)
  /\ Begin(setOp(session, op, "macOp", "symmetricKey", FALSE, TRUE), FALSE)
  /\ UNCHANGED cipher

MacSignInit(private)   == MacInit("SIGN", private)
MacVerifyInit(private) == MacInit("VERIFY", private)

\* The switch of AsymSignInit and AsymVerifyInit: whether a mechanism takes several
\* parts (those that hash the data do), whether it has a parameter, and its AsymMech.
Mech(multi, param) == [multi |-> multi, param |-> param, mech |-> "Unknown"]

RSA_X_509       == [multi |-> FALSE, param |-> FALSE, mech |-> "RSA"]
RSAMechanisms   == {Mech(FALSE, FALSE), RSA_X_509, Mech(TRUE, FALSE)}
PSSMechanisms   == {Mech(FALSE, TRUE), Mech(TRUE, TRUE)}
DSAMechanisms   == {Mech(FALSE, FALSE), Mech(TRUE, FALSE)}
ECDSAMechanisms == {Mech(FALSE, FALSE), Mech(TRUE, FALSE)}
GOSTMechanisms  == {Mech(FALSE, FALSE), Mech(TRUE, FALSE)}
EDDSA           == Mech(FALSE, FALSE)
ML_DSA(context) == Mech(TRUE, context)

AsymMechanisms ==
  RSAMechanisms \union PSSMechanisms \union DSAMechanisms \union ECDSAMechanisms
    \union GOSTMechanisms \union {EDDSA, ML_DSA(TRUE), ML_DSA(FALSE)}

AsymSignInit(m, always) ==
  /\ Readable(TRUE)
  /\ Begin([setOp(session, "SIGN", "asymmetricCryptoOp", "privateKey", m.param, m.multi)
              EXCEPT !.mechanism = m.mech, !.reAuthentication = @ \/ always], always)
  /\ UNCHANGED cipher

AsymVerifyInit(m) ==
  /\ Begin([setOp(session, "VERIFY", "asymmetricCryptoOp", "publicKey", m.param, m.multi)
              EXCEPT !.mechanism = m.mech], FALSE)
  /\ UNCHANGED cipher

\* The session is searching before the search begins, and stays so when a value
\* cannot be decrypted or a handle not be registered.
C_FindObjectsInit(fails) ==
  /\ Begin([session EXCEPT !.operation = "FIND",
                           !.engines = IF fails THEN @ ELSE @ \union {"findOp"}], FALSE)
  /\ UNCHANGED cipher

C_FindObjectsFinal ==
  /\ session.operation = "FIND"
  /\ End(Reply("OK"))
-----------------------------------------------------------------------------
(* C_Login, C_Logout: no operation is touched, but for CKU_CONTEXT_SPECIFIC. *)

C_Login  == user' = TRUE  /\ UNCHANGED <<session, cipher, running, reply, history, finished>>
C_Logout == user' = FALSE /\ UNCHANGED <<session, cipher, running, reply, history, finished>>

ContextSpecificLogin ==
  /\ session.reAuthentication /\ user
  /\ session' = [session EXCEPT !.reAuthentication = FALSE]
  /\ history' = [history EXCEPT !.answered = TRUE]
  /\ reply' = Reply("OK")
  /\ UNCHANGED <<cipher, user, running, finished>>
-----------------------------------------------------------------------------
(* Symmetric C_Encrypt*, C_Decrypt* *)

Under(op, engine) == session.operation = op /\ engine \in session.engines

\* The six functions reset the session on a NULL argument before they look
\* at its operation.
NullArgument == End(Reply("ARGUMENTS_BAD"))

\* The last bytes are returned and the session is reset.
Complete(c, total, returned) ==
  /\ session' = resetOp(session)
  /\ cipher' = NoCipher
  /\ reply' = Output
  /\ finished' = [cipher |-> c, given |-> total, got |-> history.got + returned,
                  mixed |-> history.parts]
  /\ history' = Started(FALSE)
  /\ UNCHANGED <<user, running>>

\* SymEncrypt and SymDecrypt: the ciphertext is resized to maxSize, a plaintext
\* longer than the ciphertext is cut.
SymSingle(direction, n, buffer) ==
  LET size  == SingleSize(cipher, n)
      after == Updated(cipher, n)
  IN  /\ Under(direction, "symmetricCryptoOp")
      /\ IF ~ session.allowSinglePartOp \/ ~ SingleLengthOK(cipher, n)
         THEN End(Reply("LEN_RANGE"))
         ELSE IF buffer < size THEN Announce(buffer)
         ELSE \/ End(Reply("GENERAL_ERROR"))
              \/ \E last \in FinalLengths(after) :
                   LET produced == Emitted(cipher, n) + last
                   IN  Complete(after, history.given + n,
                                IF direction = "ENCRYPT" \/ produced > size THEN size
                                ELSE produced)

SymEncrypt(n, buffer) == SymSingle("ENCRYPT", n, buffer)
SymDecrypt(n, buffer) == SymSingle("DECRYPT", n, buffer)

SymUpdate(direction, n, buffer) ==
  LET size == UpdateSize(cipher, n)
  IN  /\ Under(direction, "symmetricCryptoOp")
      /\ history.given + n <= MaxGiven
      /\ IF ~ session.allowMultiPartOp \/ ~ checkMaximumBytes(cipher, n)
         THEN End(Reply("LEN_RANGE"))
         ELSE IF buffer < size THEN Announce(buffer)
         ELSE \/ End(Reply("GENERAL_ERROR"))
              \/ IF buffer < Emitted(cipher, n) THEN End(Reply("TOO_MUCH_DATA"))
                 ELSE /\ cipher' = Updated(cipher, n)
                      /\ history' = [history EXCEPT !.given = @ + n,
                                                    !.got = @ + Emitted(cipher, n),
                                                    !.parts = TRUE]
                      /\ reply' = Reply("OK")
                      /\ UNCHANGED <<session, user, running, finished>>

SymEncryptUpdate(n, buffer) == SymUpdate("ENCRYPT", n, buffer)
SymDecryptUpdate(n, buffer) == SymUpdate("DECRYPT", n, buffer)

SymFinal(direction, buffer) ==
  LET size == FinalSize(cipher)
  IN  /\ Under(direction, "symmetricCryptoOp")
      /\ IF ~ session.allowMultiPartOp \/ ~ FinalLengthOK(cipher)
         THEN End(Reply("LEN_RANGE"))
         ELSE IF buffer < size THEN Announce(buffer)
         ELSE \/ End(Reply("GENERAL_ERROR"))
              \/ \E last \in FinalLengths(cipher) :
                   IF buffer < last THEN End(Reply("TOO_MUCH_DATA"))
                   ELSE Complete(cipher, history.given, last)

SymEncryptFinal(buffer) == SymFinal("ENCRYPT", buffer)
SymDecryptFinal(buffer) == SymFinal("DECRYPT", buffer)

\* C_EncryptUpdate, C_EncryptFinal and their counterparts refuse an asymmetric
\* operation and leave it as it is.
AsymMultiPart(direction) ==
  /\ Under(direction, "asymmetricCryptoOp")
  /\ Stay(Reply("FUNCTION_NOT_SUPPORTED"))
-----------------------------------------------------------------------------
(* Asymmetric C_Encrypt and C_Decrypt *)

NotInitialised == End(Reply("OPERATION_NOT_INITIALIZED"))

\* CKM_RSA_X_509 prepends zeroes up to the length of the modulus.  Data that is
\* longer makes that length wrap, and no memory of that size can be had.
PrependsTooMuch(n) == session.mechanism = "RSA" /\ ULong(OutputLength - n) > OutputLength

FatalException ==
  /\ running' = FALSE
  /\ UNCHANGED <<session, cipher, user, reply, history, finished>>

AsymEncrypt(n, buffer) ==
  /\ Under("ENCRYPT", "asymmetricCryptoOp")
  /\ IF ~ session.allowSinglePartOp \/ "publicKey" \notin session.keys THEN NotInitialised
     ELSE IF buffer >= OutputLength /\ PrependsTooMuch(n) THEN FatalException
     ELSE Deliver(buffer)

AsymDecrypt(buffer) ==
  /\ Under("DECRYPT", "asymmetricCryptoOp")
  /\ IF ~ session.allowSinglePartOp \/ "privateKey" \notin session.keys THEN NotInitialised
     ELSE IF session.reAuthentication THEN End(Reply("USER_NOT_LOGGED_IN"))
     ELSE Deliver(buffer)
-----------------------------------------------------------------------------
(* C_Digest*.  The functions use digestOp without a look at it. *)

C_Digest(buffer) ==
  /\ session.operation = "DIGEST"
  /\ Deliver(buffer)

C_DigestUpdate ==
  /\ session.operation = "DIGEST"
  /\ Stay(Reply("OK")) \/ End(Reply("GENERAL_ERROR"))

\* A key that may be read and digested; the session is reset when it cannot be.
C_DigestKey(private) ==
  /\ session.operation = "DIGEST"
  /\ Readable(private)
  /\ Stay(Reply("OK")) \/ End(Reply("GENERAL_ERROR"))

C_DigestFinal(buffer) ==
  /\ session.operation = "DIGEST"
  /\ Deliver(buffer)
-----------------------------------------------------------------------------
(* C_Sign*, C_Verify*: macOp if there is one, asymmetricCryptoOp otherwise. *)

Mac == "macOp" \in session.engines

\* One Update ends the choice: the operation cannot be ended by C_Sign any more.
TakePart ==
  \/ End(Reply("GENERAL_ERROR"))
  \/ /\ session' = [session EXCEPT !.allowSinglePartOp = FALSE]
     /\ reply' = Reply("OK")
     /\ UNCHANGED <<cipher, user, running, history, finished>>

AsymReady(op, key) == Under(op, "asymmetricCryptoOp") /\ key \in session.keys

MacSign(buffer) ==
  IF session.allowSinglePartOp THEN Deliver(buffer) ELSE NotInitialised

\* With the Rutoken profile a GOST signature is recorded on the token when the
\* session has been reset already.
AsymSign(n, buffer) ==
  IF ~ session.allowSinglePartOp \/ ~ AsymReady("SIGN", "privateKey") THEN NotInitialised
  ELSE IF session.reAuthentication THEN End(Reply("USER_NOT_LOGGED_IN"))
  ELSE IF buffer >= OutputLength /\ PrependsTooMuch(n) THEN FatalException
  ELSE Deliver(buffer)

C_Sign(n, buffer) ==
  /\ session.operation = "SIGN"
  /\ IF Mac THEN MacSign(buffer) ELSE AsymSign(n, buffer)

MacSignUpdate == IF session.allowMultiPartOp THEN TakePart ELSE NotInitialised

AsymSignUpdate ==
  IF ~ session.allowMultiPartOp \/ ~ Under("SIGN", "asymmetricCryptoOp") THEN NotInitialised
  ELSE IF session.reAuthentication THEN End(Reply("USER_NOT_LOGGED_IN"))
  ELSE TakePart

C_SignUpdate ==
  /\ session.operation = "SIGN"
  /\ IF Mac THEN MacSignUpdate ELSE AsymSignUpdate

MacSignFinal(buffer) == Deliver(buffer)

\* Mutant: only C_Sign and C_SignUpdate ask for the login.
SignFinalUnasked(buffer) ==
  IF ~ AsymReady("SIGN", "privateKey") THEN NotInitialised ELSE Deliver(buffer)

AsymSignFinal(buffer) ==
  IF ~ AsymReady("SIGN", "privateKey") THEN NotInitialised
  ELSE IF session.reAuthentication THEN End(Reply("USER_NOT_LOGGED_IN"))
  ELSE Deliver(buffer)

C_SignFinal(buffer) ==
  /\ session.operation = "SIGN" /\ session.allowMultiPartOp
  /\ IF Mac THEN MacSignFinal(buffer) ELSE AsymSignFinal(buffer)

\* The signature is there to be checked: no length is asked for.
Verdict == End(Output) \/ End(Reply("SIGNATURE_INVALID"))

MacVerify == IF session.allowSinglePartOp THEN Verdict ELSE NotInitialised

AsymVerify(n) ==
  IF ~ session.allowSinglePartOp \/ ~ AsymReady("VERIFY", "publicKey") THEN NotInitialised
  ELSE IF PrependsTooMuch(n) THEN FatalException \/ End(Reply("SIGNATURE_LEN_RANGE"))
  ELSE Verdict

C_Verify(n) ==
  /\ session.operation = "VERIFY"
  /\ IF Mac THEN MacVerify ELSE AsymVerify(n)

MacVerifyUpdate == IF session.allowMultiPartOp THEN TakePart ELSE NotInitialised

AsymVerifyUpdate ==
  IF session.allowMultiPartOp /\ Under("VERIFY", "asymmetricCryptoOp") THEN TakePart
  ELSE NotInitialised

C_VerifyUpdate ==
  /\ session.operation = "VERIFY"
  /\ IF Mac THEN MacVerifyUpdate ELSE AsymVerifyUpdate

MacVerifyFinal  == Verdict
AsymVerifyFinal == IF AsymReady("VERIFY", "publicKey") THEN Verdict ELSE NotInitialised

C_VerifyFinal ==
  /\ session.operation = "VERIFY" /\ session.allowMultiPartOp
  /\ IF Mac THEN MacVerifyFinal ELSE AsymVerifyFinal
-----------------------------------------------------------------------------
\* The exported functions that an application calls, by the group.
InitFunctions ==
  \/ \E m \in SymMechanisms, private \in BOOLEAN :
       SymEncryptInit(m[1], m[2], private) \/ SymDecryptInit(m[1], m[2], private)
  \/ \E oaep \in BOOLEAN : AsymEncryptInit(oaep, "Unknown")
  \/ AsymEncryptInit(FALSE, "RSA")
  \/ \E oaep, always \in BOOLEAN : AsymDecryptInit(oaep, always)
  \/ \E always \in BOOLEAN : AsymDecryptInitFails(always)
  \/ C_DigestInit
  \/ \E private \in BOOLEAN : MacSignInit(private) \/ MacVerifyInit(private)
  \/ \E m \in AsymMechanisms, always \in BOOLEAN : AsymSignInit(m, always)
  \/ \E m \in AsymMechanisms : AsymVerifyInit(m)
  \/ \E fails \in BOOLEAN : C_FindObjectsInit(fails)

CipherFunctions ==
  \/ NullArgument
  \/ \E n \in Lengths, b \in Buffers :
       \/ SymEncrypt(n, b) \/ SymEncryptUpdate(n, b)
       \/ SymDecrypt(n, b) \/ SymDecryptUpdate(n, b)
  \/ \E b \in Buffers : SymEncryptFinal(b) \/ SymDecryptFinal(b)
  \/ \E d \in Directions : AsymMultiPart(d)
  \/ \E n \in Lengths, b \in Buffers : AsymEncrypt(n, b)
  \/ \E b \in Buffers : AsymDecrypt(b)

OtherFunctions ==
  \/ C_FindObjectsFinal
  \/ C_Login \/ C_Logout \/ ContextSpecificLogin
  \/ \E b \in Buffers : C_Digest(b) \/ C_DigestFinal(b)
  \/ C_DigestUpdate
  \/ \E private \in BOOLEAN : C_DigestKey(private)
  \/ \E n \in Lengths, b \in Buffers : C_Sign(n, b)
  \/ C_SignUpdate
  \/ \E b \in Buffers : C_SignFinal(b)
  \/ \E n \in Lengths : C_Verify(n)
  \/ C_VerifyUpdate \/ C_VerifyFinal

Next ==
  /\ running /\ UNCHANGED library
  /\ InitFunctions \/ CipherFunctions \/ OtherFunctions

Spec == Init /\ [][Next]_vars
-----------------------------------------------------------------------------
(* Properties *)

CipherType ==
  [class : Classes \union {"none"}, mode : Modes, direction : Directions,
   buffered : Nat, counter : Nat, counterBytes : Nat,
   maximumBytes : Nat \union {NoLimit}, aad : BOOLEAN]

TypeOK ==
  /\ session \in SessionType
  /\ library \in Libraries
  /\ cipher \in CipherType
  /\ user \in BOOLEAN /\ running \in BOOLEAN
  /\ reply \in ReplyType
  /\ history \in HistoryType
  /\ finished \in [cipher : CipherType, given : Nat, got : Nat, mixed : BOOLEAN]

\* The engine and the key that an operation works with.
HasEngine(s) ==
  \/ s.operation = "NONE" /\ s.engines = {} /\ s.keys = {} /\ ~ s.mechanismParam
  \/ s.operation = "FIND" /\ (s.engines = {} \/ s.engines = {"findOp"}) /\ s.keys = {}
  \/ s.operation = "DIGEST" /\ s.engines = {"digestOp"} /\ s.keys = {}
  \/ s.operation \in {"SIGN", "DECRYPT"} /\ s.engines = {"asymmetricCryptoOp"} /\ s.keys = {"privateKey"}
  \/ s.operation \in {"VERIFY", "ENCRYPT"} /\ s.engines = {"asymmetricCryptoOp"} /\ s.keys = {"publicKey"}
  \/ s.operation \in {"ENCRYPT", "DECRYPT"} /\ s.engines = {"symmetricCryptoOp"} /\ s.keys = {"symmetricKey"}
  \/ s.operation \in {"SIGN", "VERIFY"} /\ s.engines = {"macOp"} /\ s.keys = {"symmetricKey"}

\* An operation has exactly the engine and the key it works with, so that the
\* functions that use digestOp or a key without a test find one, and a session
\* without an operation has none: resetOp, which releases one engine only, has
\* left no key behind.  A search that failed is the one operation without engine.
OperationHasEngine == HasEngine(session)

\* What a cipher turns n bytes into, however they are split into parts.
Expected(c, n) ==
  CASE c.mode \in {"CTR", "CFB", "CTR_ACPKM"} -> {n}
    [] c.mode \in {"CBC", "ECB"} -> IF n % BlockSize = 0 THEN {n} ELSE {}
    [] c.mode = "CBC_PAD" /\ c.direction = "ENCRYPT" ->
         {(n \div BlockSize) * BlockSize + BlockSize}
    [] c.mode = "CBC_PAD" /\ c.direction = "DECRYPT" ->
         IF n % BlockSize = 0 THEN (n - BlockSize)..(n - 1) ELSE {}
    [] isAEAD(c.mode) /\ c.direction = "ENCRYPT" -> {n + TagBytes}
    [] isAEAD(c.mode) /\ c.direction = "DECRYPT" -> {n - TagBytes}

\* An operation that ends well has returned as many bytes as the mode makes of
\* the bytes given, whatever the parts and the buffers were: nothing is cut off
\* and nothing added.  C_Encrypt and C_Decrypt after an Update are excepted: they
\* are not refused, and cut the result to the length of their own part.
OutputComplete ==
  ~ finished.mixed => finished.got \in Expected(finished.cipher, finished.given)

\* The length announced, for which the buffer is checked, is never less than what
\* the cipher returns then: the "unrecoverable" error of SymEncryptUpdate,
\* SymEncryptFinal and their counterparts does not happen.
NeverTooMuchData == reply.rv # "TOO_MUCH_DATA"

\* A CTR operation never takes more bytes than its counter block has room for,
\* over all its parts: the counter, which starts where the caller put it, does not
\* come back to a value it had, and the key stream does not repeat.
CounterNotExhausted ==
  \A c \in {cipher, finished.cipher} :
    c.mode = "CTR" => BlockSize * c.counter + c.counterBytes <= BlockSize * 2^CounterBits

\* No signature and no plaintext is returned with a key that asks for a login of
\* its own unless that login came after the operation was started, whatever calls
\* failed or were repeated in between.
KeyUseReauthenticated ==
  [][reply'.output /\ reply' # reply /\ session.operation \in {"SIGN", "DECRYPT"}
       => (history.asked => history.answered)]_vars
-----------------------------------------------------------------------------
(* The invariant by which these are proved, in SessionOperations_proofs *)

\* The operation of a key that asks for a login of its own waits for it.
LoginAwaited ==
  history.asked =>
    /\ session.operation \in {"SIGN", "DECRYPT"} /\ session.engines = {"asymmetricCryptoOp"}
    /\ session.reAuthentication \/ history.answered

\* The modes each class of cipher was made for.
ModeOK(c) ==
  \/ c.class \in {"EVP", "Pipe"} /\ c.mode \in {"ECB", "CBC", "CBC_PAD", "CTR", "GCM"}
  \/ c.class = "GOST28147" /\ c.mode \in {"ECB", "CFB", "CBC_PAD"}
  \/ c.class = "GOSTSymmetric" /\ c.mode \in {"ECB", "CTR_ACPKM", "MGM"}

\* The limit of a CTR operation is what its counter block has room for.
CounterOK(c) ==
  c.mode = "CTR" =>
    /\ c.counter < 2^CounterBits
    /\ c.maximumBytes = (2^CounterBits - c.counter) * BlockSize
    /\ c.counterBytes <= c.maximumBytes

\* What has been given has come out or is held back; a block cipher gives whole blocks,
\* and EVP holds back no more than it must.
BufferOK(c, given, got) ==
  /\ got + c.buffered = given
  /\ isBlockCipher(c.mode) => got % BlockSize = 0
  /\ c.class = "EVP" =>
       CASE c.mode = "GCM" -> c.direction = "ENCRYPT" => c.buffered = 0
         [] c.mode = "CTR" -> c.buffered = 0
         [] c.mode = "CBC_PAD" /\ c.direction = "DECRYPT" -> c.buffered <= BlockSize
         [] OTHER -> c.buffered < BlockSize

CipherOK ==
  session.engines = {"symmetricCryptoOp"} =>
    /\ ModeOK(cipher) /\ cipher.direction = session.operation
    /\ BufferOK(cipher, history.given, history.got)
    /\ history.given <= MaxGiven
    /\ ~ history.parts => history.given = 0

Inv ==
  /\ TypeOK /\ OperationHasEngine /\ LoginAwaited /\ CipherOK
  /\ OutputComplete /\ NeverTooMuchData
  /\ CounterOK(cipher) /\ CounterOK(finished.cipher)
=============================================================================
