---------------------------- MODULE CipherBuffer ----------------------------
(***************************************************************************)
(* The symmetric ciphers of src/lib/crypto, seen as what they do to        *)
(* lengths: how many bytes a call takes in, gives back and keeps, and what *)
(* the functions of SoftHSM.cpp announce before they call them.            *)
(*                                                                         *)
(* A cipher is a record: its class (EVP over OpenSSL, Pipe over Botan, and *)
(* the repository's own two for the GOST ciphers), the mode and direction  *)
(* it was initialised with, currentBufferSize (buffered), and what it      *)
(* counts against the counter block of a CTR mode.  CK_ULONG and int wrap  *)
(* as they do in C, with ULongBits and IntBits bits for 64 and 32.         *)
(***************************************************************************)
EXTENDS Integers

CONSTANTS
  BlockSize,     \* getBlockSize() of the cipher
  ChunkSize,     \* bytes a filter of Botan collects before it passes them on
  TagBytes,      \* the tag of an AEAD mode
  MinimumTag,    \* the shortest tag of MGM, 4 bytes in the code
  CounterBits,   \* ulCounterBits of CK_AES_CTR_PARAMS
  MGMMaximum,    \* the most bytes MGM takes
  ULongBits, IntBits

ASSUME CipherAssumption ==
  /\ BlockSize \in Nat \ {0} /\ ChunkSize \in Nat \ {0} /\ ChunkSize % BlockSize = 0
  /\ TagBytes \in Nat /\ MinimumTag \in Nat
  /\ CounterBits \in Nat \ {0} /\ MGMMaximum \in Nat
  /\ ULongBits \in Nat /\ IntBits \in Nat \ {0} /\ IntBits < ULongBits

\* What the proofs use of powers of two.  It follows from CipherAssumption by induction
\* on the exponents, which is out of the provers' reach.
ASSUME PowerAssumption ==
  /\ 2^CounterBits \in Nat \ {0}
  /\ 2^(IntBits - 1) \in Nat \ {0}
  /\ 2^IntBits = 2 * 2^(IntBits - 1) /\ 2^IntBits <= 2^ULongBits

Libraries  == {"OSSL", "Botan"}
Classes    == {"EVP", "Pipe", "GOST28147", "GOSTSymmetric"}
Modes      == {"ECB", "CBC", "CBC_PAD", "CTR", "GCM", "CFB", "CTR_ACPKM", "MGM"}
Directions == {"ENCRYPT", "DECRYPT"}

\* SymmetricAlgorithm::isBlockCipher, ECB and CBC.
isBlockCipher(m)  == m \in {"ECB", "CBC", "CBC_PAD"}
getPaddingMode(m) == m = "CBC_PAD"
isAEAD(m)         == m \in {"GCM", "MGM"}
getTagBytes(m)    == IF isAEAD(m) THEN TagBytes ELSE 0
-----------------------------------------------------------------------------
(* Arithmetic on CK_ULONG and int *)

ULong(x) == x % 2^ULongBits
ToInt(x) == LET y == x % 2^IntBits
            IN  IF y >= 2^(IntBits - 1) THEN y - 2^IntBits ELSE y
-----------------------------------------------------------------------------
(* encryptInit and decryptInit: the cipher made ready, if any.  A request    *)
(* has the mode, the direction, the length of the key in bytes, the length of *)
(* the IV, the counter at the end of a counter block, and whether there is   *)
(* associated data.                                                          *)

NoLimit == -1

Cipher(class, r, maximum) ==
  [class |-> class, mode |-> r.mode, direction |-> r.direction, buffered |-> 0,
   counter |-> r.counter, counterBytes |-> 0, maximumBytes |-> maximum, aad |-> r.aad]

\* getCipher of each class: the lengths of keys and the modes it knows.
OSSLAES_getCipher(r, bits)  == bits \in {128, 192, 256} /\ r.mode \in {"CBC", "CBC_PAD", "ECB", "CTR", "GCM"}
OSSLDES_getCipher(r, bits)  == bits \in {56, 112, 168} /\ r.mode \in {"CBC", "CBC_PAD", "ECB", "CFB"}
BotanAES_getCipher(r, bits) == bits \in {128, 192, 256} /\ r.mode \in {"CBC", "CBC_PAD", "ECB", "CTR", "GCM"}
BotanDES_getCipher(r, bits) == bits \in {56, 112, 168} /\ r.mode \in {"CBC", "CBC_PAD", "ECB", "CFB"}

IVAccepted(r) == r.mode # "GCM" => r.iv \in {0, BlockSize}

\* The counter with its bits reversed, and one, are the blocks that are left.
counterBitsInit(r) ==
  IF r.mode = "CTR" THEN ((2^CounterBits - 1 - r.counter) + 1) * BlockSize ELSE NoLimit

OSSLEVPSymmetricAlgorithm_encryptInit(r, known) ==
  IF IVAccepted(r) /\ known THEN {Cipher("EVP", r, counterBitsInit(r))} ELSE {}

OSSLEVPSymmetricAlgorithm_decryptInit(r, known) ==
  IF IVAccepted(r) /\ known THEN {Cipher("EVP", r, counterBitsInit(r))} ELSE {}

BotanSymmetricAlgorithm_encryptInit(r, known) ==
  IF IVAccepted(r) /\ known THEN {Cipher("Pipe", r, counterBitsInit(r))} ELSE {}

BotanSymmetricAlgorithm_decryptInit(r, known) ==
  IF IVAccepted(r) /\ known THEN {Cipher("Pipe", r, counterBitsInit(r))} ELSE {}

GOST28147Algorithm_init(r) ==
  IF /\ r.bytes = 32
     /\ r.mode \in {"ECB", "CFB", "CBC_PAD"}
     /\ r.iv = IF r.mode = "ECB" THEN 0 ELSE BlockSize
  THEN {Cipher("GOST28147", r, NoLimit)} ELSE {}

GOSTSymmetricAlgorithm_init(r) ==
  IF /\ r.bytes = 32
     /\ \/ r.mode = "ECB" /\ r.iv = 0
        \/ r.mode = "CTR_ACPKM" /\ r.iv = BlockSize \div 2   \* after the period, 4 bytes
        \/ r.mode = "MGM" /\ r.iv = BlockSize /\ TagBytes \in MinimumTag..BlockSize
  THEN {Cipher("GOSTSymmetric", r, NoLimit)} ELSE {}

\* The class that the factory of the library makes for an algorithm.
getSymmetricAlgorithm(library, algo) ==
  IF algo = "GOST28147" THEN "GOST28147"
  ELSE IF algo = "KUZNECHIK" THEN "GOSTSymmetric"
  ELSE IF library = "OSSL" THEN "EVP"
  ELSE "Pipe"

\* Its encryptInit or decryptInit, and the getCipher of the algorithm.
CipherInit(library, algo, r, bits) ==
  LET class == getSymmetricAlgorithm(library, algo)
      known == CASE class = "EVP" /\ algo = "AES"  -> OSSLAES_getCipher(r, bits)
                 [] class = "EVP" /\ algo = "DES"  -> OSSLDES_getCipher(r, bits)
                 [] class = "Pipe" /\ algo = "AES" -> BotanAES_getCipher(r, bits)
                 [] class = "Pipe" /\ algo = "DES" -> BotanDES_getCipher(r, bits)
                 [] OTHER -> FALSE
  IN  CASE class = "EVP" /\ r.direction = "ENCRYPT" ->
             OSSLEVPSymmetricAlgorithm_encryptInit(r, known)
        [] class = "EVP" /\ r.direction = "DECRYPT" ->
             OSSLEVPSymmetricAlgorithm_decryptInit(r, known)
        [] class = "Pipe" /\ r.direction = "ENCRYPT" ->
             BotanSymmetricAlgorithm_encryptInit(r, known)
        [] class = "Pipe" /\ r.direction = "DECRYPT" ->
             BotanSymmetricAlgorithm_decryptInit(r, known)
        [] class = "GOST28147"     -> GOST28147Algorithm_init(r)
        [] class = "GOSTSymmetric" -> GOSTSymmetricAlgorithm_init(r)
-----------------------------------------------------------------------------
(* The limits on the data of one operation *)

\* Mutant: each part is checked by itself.
PartWithinMaximum(c, n) == c.maximumBytes # NoLimit => n <= c.maximumBytes

\* Of the classes over OpenSSL and Botan.
checkCounterBytes(c, n) == c.maximumBytes # NoLimit => c.counterBytes + n <= c.maximumBytes

\* Of GOSTSymmetricAlgorithm, which keeps all its input.
checkMGMBytes(c, n) ==
  c.mode = "MGM" =>
    c.buffered + n <= MGMMaximum + (IF c.direction = "ENCRYPT" THEN 0 ELSE TagBytes)

checkMaximumBytes(c, n) ==
  IF c.class = "GOSTSymmetric" THEN checkMGMBytes(c, n) ELSE checkCounterBytes(c, n)
-----------------------------------------------------------------------------
(* Update: what comes out of a call that n bytes go into *)

\* EVP_EncryptUpdate, EVP_DecryptUpdate: a padded decryption keeps the last whole
\* block, which may be the padding.
EVPUpdate(c, n) ==
  LET total == c.buffered + n
  IN  IF ~ isBlockCipher(c.mode) THEN n
      ELSE IF getPaddingMode(c.mode) /\ c.direction = "DECRYPT" /\ total > 0
        THEN ((total - 1) \div BlockSize) * BlockSize
      ELSE (total \div BlockSize) * BlockSize

\* A Cipher_Mode_Filter of Botan: whole chunks, once there is what its last call
\* needs besides.
FinalMinimum(c) ==
  IF c.direction = "DECRYPT" /\ c.mode \in {"CBC", "CBC_PAD"} THEN BlockSize ELSE 0

PipeWrite(c, n) ==
  LET total == c.buffered + n - FinalMinimum(c)
  IN  IF total >= ChunkSize THEN (total \div ChunkSize) * ChunkSize ELSE 0

OSSLEVPSymmetricAlgorithm_encryptUpdate(c, n) == EVPUpdate(c, n)

\* An AEAD decryption gives nothing before the tag has been checked.
OSSLEVPSymmetricAlgorithm_decryptUpdate(c, n) ==
  IF c.mode = "GCM" THEN 0 ELSE EVPUpdate(c, n)

BotanSymmetricAlgorithm_encryptUpdate(c, n) == PipeWrite(c, n)

BotanSymmetricAlgorithm_decryptUpdate(c, n) ==
  IF c.mode = "GCM" THEN 0 ELSE PipeWrite(c, n)

\* The GOST ciphers work on all their input at the end.
Emitted(c, n) ==
  CASE c.class = "EVP" /\ c.direction = "ENCRYPT"  -> OSSLEVPSymmetricAlgorithm_encryptUpdate(c, n)
    [] c.class = "EVP" /\ c.direction = "DECRYPT"  -> OSSLEVPSymmetricAlgorithm_decryptUpdate(c, n)
    [] c.class = "Pipe" /\ c.direction = "ENCRYPT" -> BotanSymmetricAlgorithm_encryptUpdate(c, n)
    [] c.class = "Pipe" /\ c.direction = "DECRYPT" -> BotanSymmetricAlgorithm_decryptUpdate(c, n)
    [] OTHER -> 0

\* encryptUpdate and decryptUpdate: currentBufferSize, counterBytes.
Updated(c, n) ==
  [c EXCEPT !.buffered = @ + n - Emitted(c, n),
            !.counterBytes = IF c.maximumBytes # NoLimit THEN @ + n ELSE @]
-----------------------------------------------------------------------------
(* Final: the lengths it may return; none when it fails whatever the data.   *)

Whole(n)    == n % BlockSize = 0
Padded(n)   == (n \div BlockSize) * BlockSize + BlockSize
Unpadded(n) == IF n > 0 /\ Whole(n) THEN (n - BlockSize)..(n - 1) ELSE {}

\* encryptFinal and decryptFinal of OSSLEVPSymmetricAlgorithm; EVP_EncryptFinal and
\* EVP_DecryptFinal handle one block.
EVPEncryptFinal(c) ==
  CASE c.mode = "GCM"     -> {TagBytes}
    [] c.mode = "CBC_PAD" -> {BlockSize}
    [] OTHER -> IF isBlockCipher(c.mode) /\ c.buffered # 0 THEN {} ELSE {0}

EVPDecryptFinal(c) ==
  CASE c.mode = "GCM" -> IF c.buffered >= TagBytes THEN {c.buffered - TagBytes} ELSE {}
    [] c.mode = "CBC_PAD" -> IF c.buffered = BlockSize THEN 0..(BlockSize - 1) ELSE {}
    [] OTHER -> IF isBlockCipher(c.mode) /\ c.buffered # 0 THEN {} ELSE {0}

\* end_msg of the Pipe, and all that it then has.
PipeEncryptFinal(c) ==
  CASE c.mode = "GCM"     -> {c.buffered + TagBytes}
    [] c.mode = "CBC_PAD" -> {Padded(c.buffered)}
    [] OTHER -> IF isBlockCipher(c.mode) /\ ~ Whole(c.buffered) THEN {} ELSE {c.buffered}

PipeDecryptFinal(c) ==
  CASE c.mode = "GCM" -> IF c.buffered >= TagBytes THEN {c.buffered - TagBytes} ELSE {}
    [] c.mode = "CBC_PAD" -> Unpadded(c.buffered)
    [] OTHER -> IF c.buffered < FinalMinimum(c) \/ (isBlockCipher(c.mode) /\ ~ Whole(c.buffered))
                THEN {} ELSE {c.buffered}

\* finish of GOST28147Algorithm: processECB, processCBC, processCFB.
GOST28147Algorithm_finish(c) ==
  CASE c.mode = "CFB" -> {c.buffered}
    [] c.mode = "ECB" -> IF Whole(c.buffered) THEN {c.buffered} ELSE {}
    [] c.mode = "CBC_PAD" /\ c.direction = "ENCRYPT" -> {Padded(c.buffered)}
    [] c.mode = "CBC_PAD" /\ c.direction = "DECRYPT" -> Unpadded(c.buffered)

\* finish of GOSTSymmetricAlgorithm: processECB, processMGM, processCTRACPKM.
GOSTSymmetricAlgorithm_finish(c) ==
  CASE c.mode = "CTR_ACPKM" -> {c.buffered}
    [] c.mode = "ECB" -> IF Whole(c.buffered) THEN {c.buffered} ELSE {}
    [] c.mode = "MGM" /\ c.direction = "ENCRYPT" ->
         IF c.buffered = 0 /\ ~ c.aad THEN {} ELSE {c.buffered + TagBytes}
    [] c.mode = "MGM" /\ c.direction = "DECRYPT" ->
         IF c.buffered < TagBytes \/ (c.buffered = TagBytes /\ ~ c.aad) THEN {}
         ELSE {c.buffered - TagBytes}

FinalLengths(c) ==
  CASE c.class = "EVP" /\ c.direction = "ENCRYPT"  -> EVPEncryptFinal(c)
    [] c.class = "EVP" /\ c.direction = "DECRYPT"  -> EVPDecryptFinal(c)
    [] c.class = "Pipe" /\ c.direction = "ENCRYPT" -> PipeEncryptFinal(c)
    [] c.class = "Pipe" /\ c.direction = "DECRYPT" -> PipeDecryptFinal(c)
    [] c.class = "GOST28147"     -> GOST28147Algorithm_finish(c)
    [] c.class = "GOSTSymmetric" -> GOSTSymmetricAlgorithm_finish(c)
-----------------------------------------------------------------------------
(* What SoftHSM.cpp announces *)

\* C_Encrypt and C_Decrypt: the checks on the length of the data.
SingleLengthOK(c, n) ==
  /\ isBlockCipher(c.mode) /\ ~ getPaddingMode(c.mode) => n % BlockSize = 0
  /\ isBlockCipher(c.mode) /\ c.direction = "DECRYPT" => n % BlockSize = 0
  /\ checkMaximumBytes(c, n)

\* Mutant: no block is added for the padding of data that fills its blocks.
SingleSizeUnpadded(c, n) ==
  IF c.direction = "DECRYPT" THEN n
  ELSE IF isBlockCipher(c.mode) /\ n % BlockSize # 0 THEN n + BlockSize - (n % BlockSize)
  ELSE n + getTagBytes(c.mode)

\* maxSize of SymEncrypt; SymDecrypt announces the length of its input.
SingleSize(c, n) ==
  IF c.direction = "DECRYPT" THEN n
  ELSE IF ~ isBlockCipher(c.mode) THEN n + getTagBytes(c.mode)
  ELSE IF n % BlockSize # 0 THEN n + BlockSize - (n % BlockSize)
  ELSE IF getPaddingMode(c.mode) THEN n + BlockSize
  ELSE n + getTagBytes(c.mode)

\* Mutant: the bytes kept from earlier parts are forgotten.
UpdateSizeOfPart(c, n) ==
  IF isBlockCipher(c.mode) THEN (n \div BlockSize) * BlockSize ELSE n

\* maxSize of SymEncryptUpdate and SymDecryptUpdate: the number of blocks is an
\* int, and a padded decryption leaves out one byte.
UpdateSize(c, n) ==
  LET adjust == IF getPaddingMode(c.mode) /\ c.direction = "DECRYPT" THEN 1 ELSE 0
      blocks == ToInt(ULong(n + c.buffered - adjust) \div BlockSize)
  IN  IF isBlockCipher(c.mode) THEN ULong(blocks * BlockSize) ELSE n + c.buffered

\* SymEncryptFinal and SymDecryptFinal: data that is no multiple of the block
\* size cannot be finished without padding.
Remaining(c) ==
  c.buffered + (IF c.direction = "ENCRYPT" THEN getTagBytes(c.mode) ELSE 0)

FinalLengthOK(c) ==
  isBlockCipher(c.mode) =>
    \/ Remaining(c) % BlockSize = 0
    \/ c.direction = "ENCRYPT" /\ getPaddingMode(c.mode)

FinalSize(c) ==
  IF ~ isBlockCipher(c.mode) \/ ~ getPaddingMode(c.mode) THEN Remaining(c)
  ELSE IF c.direction = "ENCRYPT" THEN ((Remaining(c) + BlockSize) \div BlockSize) * BlockSize
  ELSE ULong(Remaining(c) - 1)
=============================================================================
